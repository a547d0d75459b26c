----------------------------- MODULE Admission -----------------------------
(***************************************************************************)
(* What the incoming limiter promises to the PBX: a set of calls that hold *)
(* a place, never as large as Max, entered only while there is room.  It   *)
(* says nothing of counters, clocks or the order in which threads run.     *)
(***************************************************************************)
EXTENDS Naturals, FiniteSets

CONSTANTS Threads,  \* the goroutines that run PBX.handler
          Max       \* RateLimiterAtomic.Max; 0 means no limit

VARIABLE holders    \* the goroutines that passed both checks and have not left

Room == Max = 0 \/ Cardinality(holders) + 1 < Max

Init == holders = {}

Admit(t) == /\ t \notin holders
            /\ Room
            /\ holders' = holders \union {t}

Leave(t) == /\ t \in holders
            /\ holders' = holders \ {t}

Next == \E t \in Threads : Admit(t) \/ Leave(t)

Spec == Init /\ [][Next]_holders
=============================================================================
