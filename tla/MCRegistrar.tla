---------------------------- MODULE MCRegistrar ----------------------------
(* Instances of Registrar for TLC: the requests that may arrive.           *)
EXTENDS Registrar

CONSTANTS h1, h2, alice, bob, u1, u2, gone, s1, s2

TwoHandlers == {h1, h2}
Pair == {alice, bob}
OnlyAlice == {alice}
OnlyBob == {bob}
AllUris == {u1, u2, gone}
OnlyGone == {gone}
TwoSources == {s1, s2}

Contact(uri, expires) == [uri |-> uri, expires |-> expires]

\* Alice's ordinary registration; every other request differs from it.
Plain == [user |-> alice, sender |-> alice, headers |-> TRUE, host |-> TRUE,
          expires |-> Absent, contacts |-> <<Contact(u1, Absent)>>,
          scheme |-> "digest", source |-> s1]

AllRequests == {
  Plain,
  [Plain EXCEPT !.headers = FALSE],
  [Plain EXCEPT !.host = FALSE],
  [Plain EXCEPT !.contacts = <<>>],
  [Plain EXCEPT !.expires = Malformed],
  [Plain EXCEPT !.sender = bob],
  [Plain EXCEPT !.user = bob, !.contacts = <<Contact(u2, Absent)>>],
  [Plain EXCEPT !.user = bob, !.source = s2, !.scheme = "bearer"],
  [Plain EXCEPT !.contacts = <<Contact(gone, 60), Contact(u2, Absent)>>],
  [Plain EXCEPT !.contacts = <<Contact(u1, 0), Contact(u2, 30)>>, !.expires = 60],
  [Plain EXCEPT !.contacts = <<Contact(u2, 60), Contact(u1, 29)>>],
  [Plain EXCEPT !.contacts = <<Contact(u1, 0)>>],
  [Plain EXCEPT !.contacts = <<Contact(u2, 120), Contact(u1, Malformed)>>],
  [Plain EXCEPT !.contacts = <<Contact(Malformed, Absent)>>],
  [Plain EXCEPT !.expires = 0],
  [Plain EXCEPT !.expires = 0, !.contacts = <<Contact(Wildcard, Absent)>>],
  [Plain EXCEPT !.contacts = <<Contact(Wildcard, Absent)>>]}
=============================================================================
