SPECIFICATION Spec
CONSTANTS
  h1 = h1
  h2 = h2
  alice = alice
  bob = bob
  u1 = u1
  u2 = u2
  gone = gone
  s1 = s1
  s2 = s2
  Handlers <- TwoHandlers
  Users <- Pair
  Known <- OnlyAlice
  Webrtc <- OnlyBob
  Uris <- AllUris
  Unresolvable <- OnlyGone
  Sources <- TwoSources
  Wildcard = Wildcard
  Malformed = Malformed
  Absent = Absent
  HasBearer = TRUE
  Requests <- AllRequests
  MaxRequests = 3
INVARIANT TypeOK
INVARIANT GrantHonoured
PROPERTY LocationSpec
CHECK_DEADLOCK FALSE
