-------------------------- MODULE RegistrarProofs --------------------------
(***************************************************************************)
(* Proofs about Registrar, for any number of handlers and requests, and    *)
(* for requests with any number of contacts.                               *)
(***************************************************************************)
EXTENDS Registrar, LeastElements, TLAPS

----------------------------------------------------------------------------
(* What the handler computes from one request                              *)

\* The contacts that are kept are finitely many, each by a positive place, so
\* one of them is the first (src/registrar.go:155-184).
LEMMA KeptFinite ==
  ASSUME NEW r \in Requests
  PROVE  /\ Kept(r) \subseteq Nat /\ IsFiniteSet(Kept(r))
         /\ \A i \in Kept(r) : r.contacts[i] \in ContactHeaders
         /\ Kept(r) # {} => \E i \in Kept(r) : \A j \in Kept(r) : i <= j
<1>1. r.contacts \in Seq(ContactHeaders)
  BY RequestsAssumption
<1>2. /\ DOMAIN r.contacts = 1..Len(r.contacts) /\ Len(r.contacts) \in Nat
      /\ \A i \in DOMAIN r.contacts : r.contacts[i] \in ContactHeaders
  BY <1>1
<1>3. Kept(r) \in SUBSET (1..Len(r.contacts))
  BY <1>2 DEF Kept
<1>4. IsFiniteSet(Kept(r)) /\ Kept(r) \subseteq Nat
  <2>1. IsFiniteSet(1..Len(r.contacts))
    BY <1>2, FS_Interval
  <2>2. IsFiniteSet(Kept(r))
    BY <1>3, <2>1, FS_Subset
  <2> QED BY <1>2, <1>3, <2>2
<1>5. Kept(r) # {} => \E i \in Kept(r) : \A j \in Kept(r) : i <= j
  BY <1>4, LeastExists
<1> QED BY <1>2, <1>4, <1>5 DEF Kept

\* A request that passed the checks and has no bad contact is granted the
\* least of a set of integers: its own interval and those of the contacts it
\* keeps (src/registrar.go:100-110, 178-195).
LEMMA GrantedLeast ==
  ASSUME NEW r \in Requests, r.expires # Malformed, ~ContactsBad(r)
  PROVE  /\ Granted(r) \in Int
         /\ r.expires # Absent => r.expires \in Int /\ Granted(r) <= r.expires
         /\ \A i \in Kept(r) : r.contacts[i].expires # Absent =>
              r.contacts[i].expires \in Int /\ Granted(r) <= r.contacts[i].expires
<1>1. r.expires \in Intervals
  BY RequestsAssumption
<1>2. Wanted(r) \in Int /\ Wanted(r) # Absent
  BY <1>1, SetsAssumption DEF Wanted, DefaultExpiry, Intervals
<1>3. ASSUME NEW i \in Kept(r), r.contacts[i].expires # Absent
      PROVE  r.contacts[i].expires \in Int
  <2>1. r.contacts[i].expires \in Intervals
    BY KeptFinite DEF ContactHeaders
  <2>2. r.contacts[i].expires # Malformed
    BY DEF ContactsBad, Items, Kept
  <2> QED BY <1>3, <2>1, <2>2 DEF Intervals
<1> DEFINE Own == {r.contacts[i].expires : i \in Kept(r)}
           place == [i \in Kept(r) |-> r.contacts[i].expires]
<1>4. IsFiniteSet(Own)
  <2>1. place \in Surjection(Kept(r), Own)
    BY DEF Surjection
  <2> QED BY <2>1, KeptFinite, FS_Surjection
<1>5. IsFiniteSet({Wanted(r)} \union Own)
  <2>1. IsFiniteSet(Own \cup {Wanted(r)})
    BY <1>4, FS_AddElement
  <2>2. Own \cup {Wanted(r)} = {Wanted(r)} \union Own
    OBVIOUS
  <2> QED BY <2>1, <2>2
<1>6. /\ IsFiniteSet(Proposed(r)) /\ Proposed(r) \in SUBSET Int
      /\ Wanted(r) \in Proposed(r)
  <2>1. Proposed(r) \in SUBSET ({Wanted(r)} \union Own)
    BY DEF Proposed
  <2>2. IsFiniteSet(Proposed(r))
    BY <1>5, <2>1, FS_Subset
  <2>3. Proposed(r) \subseteq Int /\ Wanted(r) \in Proposed(r)
    BY <1>2, <1>3 DEF Proposed
  <2> QED BY <2>2, <2>3
<1>7. \E e \in Proposed(r) : \A f \in Proposed(r) : e <= f
  BY <1>6, LeastExists
<1>8. /\ Granted(r) \in Proposed(r)
      /\ \A f \in Proposed(r) : Granted(r) <= f
  BY <1>7 DEF Granted
<1>9. r.expires # Absent => Wanted(r) = r.expires
  BY DEF Wanted
<1>10. \A i \in Kept(r) : r.contacts[i].expires # Absent => r.contacts[i].expires \in Proposed(r)
  BY DEF Proposed
<1> QED BY <1>2, <1>3, <1>6, <1>8, <1>9, <1>10

\* What is recorded for such a request is a binding (src/registrar.go:229-241).
LEMMA BindingTyped ==
  ASSUME NEW r \in Requests, r.expires # Malformed, ~ContactsBad(r)
  PROVE  IsBinding(Binding(r)) /\ Binding(r).expiry = Granted(r)
<1>1. Granted(r) \in Int
  BY GrantedLeast
<1>2. r.source \in Sources
  BY RequestsAssumption
<1>3. ASSUME NEW i \in Kept(r) PROVE r.contacts[i].uri \in Uris \union {Wildcard}
  <2>1. r.contacts[i].uri \in Uris \union {Wildcard, Malformed}
    BY KeptFinite DEF ContactHeaders
  <2>2. r.contacts[i].uri # Malformed
    BY DEF ContactsBad, Items, Kept
  <2> QED BY <2>1, <2>2
<1>4. /\ DOMAIN Binding(r) = {"contacts", "expiry", "source"}
      /\ Binding(r).contacts = [i \in Kept(r) |-> r.contacts[i].uri]
      /\ Binding(r).expiry = Granted(r) /\ Binding(r).source = r.source
  BY DEF Binding
<1> QED BY <1>1, <1>2, <1>3, <1>4, KeptFinite DEF IsBinding
----------------------------------------------------------------------------
(* The inductive invariant                                                  *)

\* A request whose credentials are asked for has passed the checks of its
\* headers (src/registrar.go:66-110).
Checked == \A h \in Handlers :
             pc[h] \in {"credentials", "contacts"} => req[h].expires # Malformed

\* What the registry holds is long enough.
LongEnough == \A u \in Users : registry[u] # NoBinding => registry[u].expiry >= MinExpiry

\* What a handler answers was proposed to it.
Promised(h) == pc[h] = "answer" /\ status[h] = 200 /\ ~RemovesAll(req[h]) =>
                 /\ granted[h] >= MinExpiry
                 /\ req[h].expires # Absent => granted[h] <= req[h].expires
                 /\ \A c \in Items(req[h].contacts) :
                      c.expires \notin {0, Absent} => granted[h] <= c.expires

\* The interval answered is in force until another handler writes.
Settled(h) == pc[h] = "answer" /\ status[h] = 200 /\ writer[req[h].user] = h
                => registry[req[h].user].expiry = granted[h]

IInv == TypeOK /\ Checked /\ LongEnough /\ \A h \in Handlers : Promised(h) /\ Settled(h)

\* Nothing is registered and no handler runs at the start
\* (src/registry.go:37-46).
LEMMA Initially == Init => IInv
<1> SUFFICES ASSUME Init PROVE IInv
  OBVIOUS
<1>1. (CHOOSE r \in Requests : TRUE) \in Requests
  BY RequestsAssumption
<1>2. TypeOK
  BY <1>1, SetsAssumption DEF Init, TypeOK
<1>3. Checked /\ LongEnough /\ \A h \in Handlers : Promised(h) /\ Settled(h)
  BY DEF Init, Checked, LongEnough, Promised, Settled
<1> QED BY <1>2, <1>3 DEF IInv

\* The steps that leave the registry alone: receiving, the checks of the
\* headers, the credentials and every refusal (src/registrar.go:61-110,
\* 318-397).
LEMMA RejectSound ==
  ASSUME IInv, NEW h \in Handlers,
         NEW code \in {400, 401, 403, 404, 423, 503}, Reject(h, code)
  PROVE  IInv'
<1>1. TypeOK'
  BY DEF IInv, TypeOK, Reject, Goto, store
<1>2. Checked'
  BY DEF IInv, TypeOK, Checked, Reject, Goto
<1>3. LongEnough'
  BY DEF IInv, LongEnough, Reject, store
<1>4. ASSUME NEW g \in Handlers PROVE Promised(g)' /\ Settled(g)'
  <2>1. CASE g = h
    BY <2>1 DEF IInv, TypeOK, Promised, Settled, Reject, Goto, store
  <2>2. CASE g # h
    BY <2>2 DEF IInv, TypeOK, Promised, Settled, Reject, Goto, store
  <2> QED BY <2>1, <2>2
<1> QED BY <1>1, <1>2, <1>3, <1>4 DEF IInv

\* A handler that goes on without writing or answering.
LEMMA ProceedSound ==
  ASSUME IInv, NEW h \in Handlers,
         NEW l \in {"idle", "credentials", "contacts"}, Goto(h, l),
         l # "idle" => req[h].expires # Malformed,
         UNCHANGED <<store, req, status, granted, received>>
  PROVE  IInv'
<1>1. TypeOK'
  BY DEF IInv, TypeOK, Goto, store
<1>2. Checked'
  BY DEF IInv, TypeOK, Checked, Goto
<1>3. LongEnough'
  BY DEF IInv, LongEnough, store
<1>4. ASSUME NEW g \in Handlers PROVE Promised(g)' /\ Settled(g)'
  <2>1. CASE g = h
    BY <2>1 DEF IInv, TypeOK, Promised, Settled, Goto, store
  <2>2. CASE g # h
    BY <2>2 DEF IInv, TypeOK, Promised, Settled, Goto, store
  <2> QED BY <2>1, <2>2
<1> QED BY <1>1, <1>2, <1>3, <1>4 DEF IInv

\* The step that writes: the last of registerHandler that can change where
\* calls go (src/registry.go:47-64).
LEMMA AcceptSound ==
  ASSUME IInv, NEW h \in Handlers, NEW b, NEW e \in Int, Accept(h, b, e),
         b = NoBinding \/ (IsBinding(b) /\ b.expiry >= MinExpiry), b.expiry = e,
         ~RemovesAll(req[h]) =>
           /\ e >= MinExpiry
           /\ req[h].expires # Absent => e <= req[h].expires
           /\ \A c \in Items(req[h].contacts) :
                c.expires \notin {0, Absent} => e <= c.expires
  PROVE  IInv'
<1>1. registry' = [registry EXCEPT ![req[h].user] = b] /\ req[h].user \in Users
  BY RequestsAssumption DEF IInv, TypeOK, Accept, RegId
<1>2. \A u \in Users : registry'[u] = (IF u = req[h].user THEN b ELSE registry[u])
  BY <1>1 DEF IInv, TypeOK
<1>3. TypeOK'
  <2>1. DOMAIN registry' = Users
    BY <1>1 DEF IInv, TypeOK
  <2>2. \A u \in Users : registry'[u] = NoBinding \/ IsBinding(registry'[u])
    BY <1>2 DEF IInv, TypeOK
  <2>3. NoBinding' = NoBinding
    BY DEF NoBinding
  <2>4. /\ pc' \in [Handlers -> {"idle", "headers", "credentials", "contacts", "answer"}]
        /\ req' \in [Handlers -> Requests]
        /\ status' \in [Handlers -> {200, 400, 401, 403, 404, 423, 503}]
        /\ granted' \in [Handlers -> Int]
        /\ received' \in 0..MaxRequests
    BY DEF IInv, TypeOK, Accept, Goto
  <2>5. writer' \in [Users -> Handlers \union {Absent}]
    BY <1>1 DEF IInv, TypeOK, Accept, RegId
  <2> QED BY <2>1, <2>2, <2>4, <2>5 DEF TypeOK, IsBinding
<1>4. Checked'
  BY DEF IInv, TypeOK, Checked, Accept, Goto
<1>5. LongEnough'
  BY <1>2 DEF IInv, LongEnough
<1>6. ASSUME NEW g \in Handlers PROVE Promised(g)'
  <2>1. CASE g = h
    <3>1. granted'[h] = e /\ req' = req
      BY DEF IInv, TypeOK, Accept
    <3> QED BY <2>1, <3>1 DEF Promised, RemovesAll, Wanted, Items
  <2>2. CASE g # h
    <3>1. /\ pc'[g] = pc[g] /\ status'[g] = status[g] /\ granted'[g] = granted[g]
          /\ req' = req
      BY <2>2 DEF IInv, TypeOK, Accept, Goto
    <3>2. Promised(g)
      BY DEF IInv
    <3>3. /\ RemovesAll(req[g])' <=> RemovesAll(req[g])
        /\ Items(req[g].contacts)' = Items(req[g].contacts)
      BY <3>1 DEF RemovesAll, Wanted, Items
    <3> QED BY <3>1, <3>2, <3>3 DEF Promised
  <2> QED BY <2>1, <2>2
<1>7. ASSUME NEW g \in Handlers PROVE Settled(g)'
  <2>0. /\ req' = req /\ granted'[h] = e
        /\ \A u \in Users : writer'[u] = (IF u = req[h].user THEN h ELSE writer[u])
    BY <1>1 DEF IInv, TypeOK, Accept, RegId
  <2>1. CASE g = h
    BY <1>1, <1>2, <2>0, <2>1 DEF Settled
  <2>2. CASE g # h
    <3>1. pc'[g] = pc[g] /\ status'[g] = status[g] /\ granted'[g] = granted[g]
      BY <2>2 DEF IInv, TypeOK, Accept, Goto
    <3>2. Settled(g) /\ req[g].user \in Users
      BY RequestsAssumption DEF IInv, TypeOK
    <3> QED BY <1>2, <2>0, <2>2, <3>1, <3>2 DEF Settled
  <2> QED BY <2>1, <2>2
<1> QED BY <1>3, <1>4, <1>5, <1>6, <1>7 DEF IInv

\* Every step of every handler keeps the invariant (src/registrar.go:66-261).
LEMMA Inductive == IInv /\ [Next]_vars => IInv'
<1> SUFFICES ASSUME IInv, [Next]_vars PROVE IInv'
  OBVIOUS
<1>1. ASSUME NEW h \in Handlers, Receive(h) PROVE IInv'
  <2>1. PICK r \in Requests : req' = [req EXCEPT ![h] = r]
    BY <1>1 DEF Receive
  <2>2. TypeOK'
    BY <1>1, <2>1, SetsAssumption DEF IInv, TypeOK, Receive, Goto, store
  <2>3. Checked'
    BY <1>1, <2>1 DEF IInv, TypeOK, Checked, Receive, Goto
  <2>4. LongEnough'
    BY <1>1 DEF IInv, LongEnough, Receive, store
  <2>5. ASSUME NEW g \in Handlers PROVE Promised(g)' /\ Settled(g)'
    <3>1. CASE g = h
      BY <1>1, <3>1 DEF IInv, TypeOK, Promised, Settled, Receive, Goto
    <3>2. CASE g # h
      <4>1. pc'[g] = pc[g] /\ req'[g] = req[g] /\ status' = status /\ granted' = granted
        BY <1>1, <2>1, <3>2 DEF IInv, TypeOK, Receive, Goto
      <4>2. Promised(g) /\ Settled(g) /\ registry' = registry /\ writer' = writer
        BY <1>1 DEF IInv, Receive, store
      <4>3. /\ RemovesAll(req[g])' <=> RemovesAll(req[g])
          /\ Items(req[g].contacts)' = Items(req[g].contacts)
        BY <4>1 DEF RemovesAll, Wanted, Items
      <4> QED BY <4>1, <4>2, <4>3 DEF Promised, Settled
    <3> QED BY <3>1, <3>2
  <2> QED BY <2>2, <2>3, <2>4, <2>5 DEF IInv
<1>2. ASSUME NEW h \in Handlers, CheckHeaders(h) PROVE IInv'
  <2>1. CASE Reject(h, 400)
    BY <2>1, RejectSound
  <2>2. CASE Reject(h, 403)
    BY <2>2, RejectSound
  <2>3. CASE /\ ~HeadersBad(req[h]) /\ req[h].host /\ Goto(h, "credentials")
             /\ UNCHANGED <<store, req, status, granted, received>>
    BY <2>3, ProceedSound DEF HeadersBad
  <2> QED BY <1>2, <2>1, <2>2, <2>3 DEF CheckHeaders
<1>3. ASSUME NEW h \in Handlers, Authorize(h) PROVE IInv'
  <2>1. CASE Reject(h, Refusal(req[h]))
    <3>1. Refusal(req[h]) \in {401, 404, 503}
      BY DEF Refusal
    <3> QED BY <2>1, <3>1, RejectSound
  <2>2. CASE /\ Goto(h, "contacts")
             /\ UNCHANGED <<store, req, status, granted, received>>
    <3>1. req[h].expires # Malformed
      BY <1>3 DEF IInv, Checked, Authorize
    <3> QED BY <2>2, <3>1, ProceedSound
  <2> QED BY <1>3, <2>1, <2>2 DEF Authorize
<1>4. ASSUME NEW h \in Handlers, RemoveAll(h) PROVE IInv'
  <2>1. RemovesAll(req[h]) /\ Accept(h, NoBinding, 0)
    BY <1>4 DEF RemoveAll
  <2> QED BY <2>1, AcceptSound DEF NoBinding
<1>5. ASSUME NEW h \in Handlers, BindContacts(h) PROVE IInv'
  <2> DEFINE r == req[h]
  <2>1. CASE Reject(h, 400)
    BY <2>1, RejectSound
  <2>2. CASE Reject(h, 423)
    BY <2>2, RejectSound
  <2>3. CASE ~ContactsBad(r) /\ ~TooBrief(r) /\ Accept(h, Binding(r), Granted(r))
    <3>1. r \in Requests /\ r.expires # Malformed
      BY <1>5 DEF IInv, TypeOK, Checked, BindContacts
    <3>2. /\ Granted(r) \in Int
          /\ r.expires # Absent => r.expires \in Int /\ Granted(r) <= r.expires
          /\ \A i \in Kept(r) : r.contacts[i].expires # Absent =>
               r.contacts[i].expires \in Int /\ Granted(r) <= r.contacts[i].expires
      BY <2>3, <3>1, GrantedLeast
    <3>3. Granted(r) >= MinExpiry
      BY <2>3, <3>2 DEF TooBrief, MinExpiry
    <3>4. /\ IsBinding(Binding(r)) /\ Binding(r).expiry >= MinExpiry
          /\ Binding(r).expiry = Granted(r)
      BY <2>3, <3>1, <3>3, BindingTyped
    <3>5. \A c \in Items(r.contacts) : c.expires \notin {0, Absent} => Granted(r) <= c.expires
      BY <3>2 DEF Items, Kept
    <3> HIDE DEF r
    <3>6. ~RemovesAll(r) =>
            /\ Granted(r) >= MinExpiry
            /\ r.expires # Absent => Granted(r) <= r.expires
            /\ \A c \in Items(r.contacts) :
                 c.expires \notin {0, Absent} => Granted(r) <= c.expires
      BY <3>2, <3>3, <3>5
    <3> QED BY <2>3, <3>2, <3>4, <3>6, AcceptSound DEF r
  <2> QED BY <1>5, <2>1, <2>2, <2>3 DEF BindContacts
<1>6. ASSUME NEW h \in Handlers, Respond(h) PROVE IInv'
  BY <1>6, ProceedSound DEF Respond
<1>7. CASE UNCHANGED vars
  BY <1>7 DEF vars, store, IInv, TypeOK, Checked, LongEnough, Promised, Settled, RemovesAll, Wanted,
              Items, IsBinding
<1> QED BY <1>1, <1>2, <1>3, <1>4, <1>5, <1>6, <1>7 DEF Next

\* The invariant holds in every state the registrar reaches.
THEOREM Invariance == Spec => []IInv
<1> QED BY Initially, Inductive, PTL DEF Spec

\* Type correctness of the registry and of its handlers
\* (src/registrar.go:61-261, src/registry.go:27-64).
THEOREM TypeCorrect == Spec => []TypeOK
<1>1. IInv => TypeOK
  BY DEF IInv
<1> QED BY <1>1, Invariance, PTL

\* GrantHonoured: the interval of a 200 is the one recorded until another request
\* writes the user's entry, and it is neither too short to be kept up nor longer
\* than a proposal for a contact that is kept (src/registrar.go:105, 178-257).
THEOREM GrantCorrect == Spec => []GrantHonoured
<1>1. IInv => GrantHonoured
  BY DEF IInv, LongEnough, Promised, Settled, GrantHonoured
<1> QED BY <1>1, Invariance, PTL
----------------------------------------------------------------------------
(* Registrar implements Location                                            *)

Addresses == Uris \union {Wildcard, Malformed, "nowhere"} \union Sources

\* The refinement mapping, one operator per variable of Location.
Where == [u \in Users |-> Resolve(u, registry[u])]
Stage(h) == CASE pc[h] = "idle" -> "idle"
              [] pc[h] \in {"headers", "credentials", "contacts"} -> "asked"
              [] pc[h] = "answer" -> IF status[h] = 200 THEN "done" ELSE "refused"
Stages == [h \in Handlers |-> Stage(h)]
Wish(h) == [user |-> req[h].user, address |-> Destination(req[h])]
Asked == [h \in Handlers |-> Wish(h)]

\* The binding that is recorded sends calls where the request asked: to its
\* first contact that is not withdrawn, or back to where the request came from
\* (src/registrar.go:229-241, src/pbx.go:1095-1125).
LEMMA BindingLocates ==
  ASSUME NEW r \in Requests, ~RemovesAll(r)
  PROVE  Resolve(r.user, Binding(r)) = Destination(r)
<1>1. /\ Binding(r).contacts = [i \in Kept(r) |-> r.contacts[i].uri]
      /\ Binding(r).source = r.source
  BY DEF Binding
<1>2. CASE Kept(r) = {}
  BY <1>1, <1>2 DEF Resolve, Destination, Kept
<1>3. CASE Kept(r) # {}
  <2> DEFINE least == CHOOSE i \in Kept(r) : \A j \in Kept(r) : i <= j
  <2>1. least \in Kept(r)
    BY <1>3, KeptFinite
  <2>2. Resolve(r.user, Binding(r)) =
          IF r.contacts[least].uri \in Unresolvable \/ r.user \in Webrtc THEN r.source
          ELSE r.contacts[least].uri
    BY <1>1, <1>3, <2>1 DEF Resolve
  <2>3. r.contacts # <<>>
    BY <1>3 DEF Kept
  <2>4. Destination(r) =
          IF r.contacts[least].uri \in Unresolvable \/ r.user \in Webrtc THEN r.source
          ELSE r.contacts[least].uri
    BY <1>3, <2>3 DEF Destination, Kept
  <2> QED BY <2>2, <2>4
<1> QED BY <1>2, <1>3

\* What a request asks for is an address a call may dial.
LEMMA DestinationTyped ==
  ASSUME NEW r \in Requests
  PROVE  Destination(r) \in Addresses /\ r.user \in Users
<1>1. r.source \in Sources /\ r.user \in Users
  BY RequestsAssumption
<1>2. CASE Kept(r) = {}
  <2>1. Destination(r) = "nowhere"
    BY <1>2 DEF Destination, Kept
  <2> QED BY <1>1, <2>1 DEF Addresses
<1>3. CASE Kept(r) # {}
  <2> DEFINE least == CHOOSE i \in Kept(r) : \A j \in Kept(r) : i <= j
  <2>1. least \in Kept(r)
    BY <1>3, KeptFinite
  <2>2. r.contacts[least].uri \in Addresses
    BY <2>1, KeptFinite DEF ContactHeaders, Addresses
  <2>3. Destination(r) \in {"nowhere", r.source, r.contacts[least].uri}
    BY <1>3 DEF Destination, Kept
  <2> QED BY <1>1, <2>2, <2>3 DEF Addresses
<1> QED BY <1>1, <1>2, <1>3

\* At the start nobody is anywhere and nobody asks (src/registry.go:37-46).
LEMMA LocatedInit == Init => Located!Init
<1> SUFFICES ASSUME Init PROVE Located!Init
  OBVIOUS
<1>1. \A u \in Users : Resolve(u, registry[u]) = "nowhere"
  <2>1. DOMAIN NoBinding.contacts = {}
    BY DEF NoBinding
  <2> QED BY <2>1 DEF Init, Resolve
<1>2. \A h \in Handlers : req[h] \in Requests /\ pc[h] = "idle"
  BY RequestsAssumption DEF Init
<1>3. Where \in [Users -> {"nowhere"}]
  BY <1>1 DEF Where
<1>4. Stages = [h \in Handlers |-> "idle"]
  BY <1>2 DEF Stages, Stage
<1>5. Asked \in [Handlers -> [user : Users, address : Addresses]]
  BY <1>2, DestinationTyped DEF Asked, Wish
<1> QED BY <1>3, <1>4, <1>5
       DEF Located!Init, Located!Wishes, Where, Stages, Stage, Asked, Wish, Addresses

\* A step that leaves the registry and the requests alone is one step of the
\* handler's stage or none.
LEMMA StageOnly ==
  ASSUME TypeOK, NEW h \in Handlers, UNCHANGED <<store, req>>,
         \A g \in Handlers : g # h => pc'[g] = pc[g] /\ status'[g] = status[g]
  PROVE  /\ Where' = Where /\ Asked' = Asked
         /\ Stages' = [Stages EXCEPT ![h] = Stage(h)']
<1>1. Where' = Where /\ Asked' = Asked
  BY DEF store, Where, Resolve, Asked, Wish, Destination, RemovesAll, Wanted
<1>2. \A g \in Handlers : g # h => Stage(g)' = Stage(g)
  BY DEF Stage
<1> QED BY <1>1, <1>2 DEF Stages

\* A refusal at any point of the handler, and the answer, leave where calls go
\* alone (src/registrar.go:66-261).
LEMMA RefuseLocated ==
  ASSUME TypeOK, NEW h \in Handlers, NEW code, code # 200, Reject(h, code),
         pc[h] \in {"headers", "credentials", "contacts"}
  PROVE  Located!Refuse(h)
<1>1. /\ pc' = [pc EXCEPT ![h] = "answer"] /\ status' = [status EXCEPT ![h] = code]
      /\ UNCHANGED <<store, req>>
  BY DEF Reject, Goto
<1>2. \A g \in Handlers : g # h => pc'[g] = pc[g] /\ status'[g] = status[g]
  BY <1>1 DEF TypeOK
<1>3. Stage(h) = "asked" /\ Stage(h)' = "refused"
  BY <1>1 DEF Stage, TypeOK
<1>4. /\ Stages[h] = "asked" /\ Stages' = [Stages EXCEPT ![h] = "refused"]
      /\ Where' = Where /\ Asked' = Asked
  BY <1>1, <1>2, <1>3, StageOnly DEF Stages
<1> QED BY <1>4 DEF Located!Refuse, Where, Stages, Stage, Asked, Wish

\* The step that writes performs what the request asked for
\* (src/registry.go:47-64).
LEMMA AcceptLocated ==
  ASSUME TypeOK, NEW h \in Handlers, NEW b, NEW e, Accept(h, b, e),
         pc[h] = "contacts", Resolve(req[h].user, b) = Destination(req[h])
  PROVE  Located!Perform(h)
<1>1. /\ pc' = [pc EXCEPT ![h] = "answer"] /\ status' = [status EXCEPT ![h] = 200]
      /\ registry' = [registry EXCEPT ![req[h].user] = b] /\ req' = req
      /\ req[h].user \in Users
  BY RequestsAssumption DEF Accept, Goto, RegId, TypeOK
<1>2. \A g \in Handlers : g # h => Stage(g)' = Stage(g)
  BY <1>1 DEF TypeOK, Stage
<1>3. Stage(h) = "asked" /\ Stage(h)' = "done"
  BY <1>1 DEF Stage, TypeOK
<1>4. Stages[h] = "asked" /\ Stages' = [Stages EXCEPT ![h] = "done"]
  BY <1>2, <1>3 DEF Stages
<1>5. Asked' = Asked
  BY <1>1 DEF Asked, Wish
<1>6. Where' = [Where EXCEPT ![req[h].user] = Destination(req[h])]
  <2>1. Where' = [u \in Users |-> Resolve(u, registry'[u])]
    BY DEF Where, Resolve
  <2>2. \A u \in Users : registry'[u] = (IF u = req[h].user THEN b ELSE registry[u])
    BY <1>1 DEF TypeOK
  <2>3. \A u \in Users : Resolve(u, registry'[u]) =
          (IF u = req[h].user THEN Destination(req[h]) ELSE Resolve(u, registry[u]))
    BY <2>2
  <2> QED BY <2>1, <2>3 DEF Where
<1>7. Asked[h].user = req[h].user /\ Asked[h].address = Destination(req[h])
  BY DEF Asked, Wish
<1>8. Where' = [Where EXCEPT ![Asked[h].user] = Asked[h].address]
  BY <1>6, <1>7
<1> QED BY <1>4, <1>5, <1>8 DEF Located!Perform, Where, Stages, Stage, Asked, Wish

\* Every step of the registrar is a step of Location or a stutter
\* (src/registrar.go:61-261).
LEMMA LocatedStep == TypeOK /\ [Next]_vars => [Located!Next]_(Located!vars)
<1> SUFFICES ASSUME TypeOK, [Next]_vars PROVE [Located!Next]_(Located!vars)
  OBVIOUS
<1>1. ASSUME NEW h \in Handlers, Receive(h) PROVE Located!Ask(h)
  <2>1. PICK r \in Requests : req' = [req EXCEPT ![h] = r]
    BY <1>1 DEF Receive
  <2>2. /\ pc[h] = "idle" /\ pc' = [pc EXCEPT ![h] = "headers"]
        /\ UNCHANGED <<registry, status>>
    BY <1>1 DEF Receive, Goto, store
  <2>3. /\ Stage(h) = "idle" /\ Stage(h)' = "asked"
        /\ \A g \in Handlers : g # h => Stage(g)' = Stage(g)
    BY <2>2 DEF TypeOK, Stage
  <2>4. Stages[h] = "idle" /\ Stages' = [Stages EXCEPT ![h] = "asked"]
    BY <2>3 DEF Stages
  <2>5. Where' = Where
    BY <2>2 DEF Where, Resolve
  <2> DEFINE w == [user |-> r.user, address |-> Destination(r)]
  <2>6. Asked' = [Asked EXCEPT ![h] = w]
    <3>1. Asked' = [g \in Handlers |-> [user |-> req'[g].user, address |-> Destination(req'[g])]]
      BY DEF Asked, Wish, Destination, RemovesAll, Wanted
    <3>2. \A g \in Handlers : req'[g] = (IF g = h THEN r ELSE req[g])
      BY <2>1 DEF TypeOK
    <3> QED BY <3>1, <3>2 DEF Asked, Wish
  <2>7. w \in [user : Users, address : Addresses]
    BY DestinationTyped
  <2> HIDE DEF w
  <2> QED BY <2>4, <2>5, <2>6, <2>7
         DEF Located!Ask, Located!Wishes, Where, Stages, Stage, Asked, Wish, Addresses
<1>2. ASSUME NEW h \in Handlers, NEW l \in {"credentials", "contacts"}, Goto(h, l),
             pc[h] \in {"headers", "credentials"}, UNCHANGED <<store, req, status>>
      PROVE  UNCHANGED Located!vars
  <2>1. \A g \in Handlers : g # h => pc'[g] = pc[g] /\ status'[g] = status[g]
    BY <1>2 DEF TypeOK, Goto
  <2>2. Stage(h) = "asked" /\ Stage(h)' = "asked"
    BY <1>2 DEF TypeOK, Goto, Stage
  <2>3. Where' = Where /\ Asked' = Asked /\ Stages' = [Stages EXCEPT ![h] = Stage(h)']
    BY <1>2, <2>1, StageOnly
  <2>4. Stages' = Stages
    BY <2>2, <2>3 DEF Stages
  <2> QED BY <2>3, <2>4 DEF Located!vars, Where, Stages, Stage, Asked, Wish
<1>3. ASSUME NEW h \in Handlers, CheckHeaders(h)
      PROVE  Located!Refuse(h) \/ UNCHANGED Located!vars
  BY <1>2, <1>3, RefuseLocated DEF CheckHeaders
<1>4. ASSUME NEW h \in Handlers, Authorize(h)
      PROVE  Located!Refuse(h) \/ UNCHANGED Located!vars
  <2>1. Refusal(req[h]) # 200
    BY DEF Refusal
  <2> QED BY <1>2, <1>4, <2>1, RefuseLocated DEF Authorize
<1>5. ASSUME NEW h \in Handlers, RemoveAll(h) PROVE Located!Perform(h)
  <2>1. Resolve(req[h].user, NoBinding) = "nowhere"
    <3>1. DOMAIN NoBinding.contacts = {}
      BY DEF NoBinding
    <3> QED BY <3>1 DEF Resolve
  <2>2. Destination(req[h]) = "nowhere"
    BY <1>5 DEF RemoveAll, Destination
  <2> QED BY <1>5, <2>1, <2>2, AcceptLocated DEF RemoveAll
<1>6. ASSUME NEW h \in Handlers, BindContacts(h)
      PROVE  Located!Refuse(h) \/ Located!Perform(h)
  <2>1. CASE Reject(h, 400) \/ Reject(h, 423)
    BY <1>6, <2>1, RefuseLocated DEF BindContacts
  <2>2. CASE Accept(h, Binding(req[h]), Granted(req[h]))
    <3>1. req[h] \in Requests /\ ~RemovesAll(req[h]) /\ pc[h] = "contacts"
      BY <1>6 DEF TypeOK, BindContacts
    <3> QED BY <2>2, <3>1, BindingLocates, AcceptLocated
  <2> QED BY <1>6, <2>1, <2>2 DEF BindContacts
<1>7. ASSUME NEW h \in Handlers, Respond(h) PROVE Located!Answer(h)
  <2>1. /\ pc[h] = "answer" /\ pc' = [pc EXCEPT ![h] = "idle"]
        /\ UNCHANGED <<store, req, status>>
    BY <1>7 DEF Respond, Goto
  <2>2. \A g \in Handlers : g # h => pc'[g] = pc[g] /\ status'[g] = status[g]
    BY <2>1 DEF TypeOK
  <2>3. Stage(h) \in {"done", "refused"} /\ Stage(h)' = "idle"
    BY <2>1 DEF TypeOK, Stage
  <2>4. /\ Stages[h] \in {"done", "refused"} /\ Stages' = [Stages EXCEPT ![h] = "idle"]
        /\ Where' = Where /\ Asked' = Asked
    BY <2>1, <2>2, <2>3, StageOnly DEF Stages
  <2> QED BY <2>4 DEF Located!Answer, Where, Stages, Stage, Asked, Wish
<1>8. CASE UNCHANGED vars
  <2>1. Where' = Where /\ Asked' = Asked /\ Stages' = Stages
    BY <1>8 DEF vars, store, Where, Resolve, Asked, Wish, Destination, RemovesAll, Wanted, Stages, Stage
  <2> QED BY <2>1 DEF Located!vars, Where, Stages, Stage, Asked, Wish
<1>9. ASSUME NEW h \in Handlers,
             Located!Ask(h) \/ Located!Perform(h) \/ Located!Refuse(h) \/ Located!Answer(h)
      PROVE  Located!Next
  BY <1>9 DEF Located!Next
<1> QED BY <1>1, <1>3, <1>4, <1>5, <1>6, <1>7, <1>8, <1>9 DEF Next

\* LocationSpec: a request changes where calls to its user go exactly when it
\* is answered with success, in one step, to the address it asked for
\* (src/registrar.go:66-261, src/pbx.go:1095-1125).
THEOREM LocationImplemented == Spec => LocationSpec
<1> QED BY LocatedInit, LocatedStep, TypeCorrect, PTL
       DEF Spec, LocationSpec, Located!Spec
=============================================================================
