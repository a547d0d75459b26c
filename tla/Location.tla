------------------------------ MODULE Location ------------------------------
(***************************************************************************)
(* What a registrar promises to those who call its users: one address per  *)
(* user, changed only by a request that is then answered with success, in  *)
(* one step between the request and the answer.                            *)
(***************************************************************************)
CONSTANTS Handlers,  \* the goroutines that serve REGISTER requests
          Users,
          Addresses  \* what a call to a user may dial, "nowhere" among them

VARIABLES location,  \* [Users -> Addresses]
          stage,     \* [Handlers -> "idle", "asked", "done" or "refused"]
          wish       \* [Handlers -> the user and the address asked for]

vars == <<location, stage, wish>>

Wishes == [user : Users, address : Addresses]

Init == /\ location \in [Users -> {"nowhere"}]
        /\ stage = [h \in Handlers |-> "idle"]
        /\ wish \in [Handlers -> Wishes]

Ask(h) == /\ stage[h] = "idle"
          /\ \E w \in Wishes : wish' = [wish EXCEPT ![h] = w]
          /\ stage' = [stage EXCEPT ![h] = "asked"]
          /\ UNCHANGED location

Perform(h) == /\ stage[h] = "asked"
              /\ location' = [location EXCEPT ![wish[h].user] = wish[h].address]
              /\ stage' = [stage EXCEPT ![h] = "done"]
              /\ UNCHANGED wish

Refuse(h) == /\ stage[h] = "asked"
             /\ stage' = [stage EXCEPT ![h] = "refused"]
             /\ UNCHANGED <<location, wish>>

\* The answer is a success exactly when the wish was performed.
Answer(h) == /\ stage[h] \in {"done", "refused"}
             /\ stage' = [stage EXCEPT ![h] = "idle"]
             /\ UNCHANGED <<location, wish>>

Next == \E h \in Handlers : Ask(h) \/ Perform(h) \/ Refuse(h) \/ Answer(h)

Spec == Init /\ [][Next]_vars
=============================================================================
