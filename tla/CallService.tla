---------------------------- MODULE CallService ----------------------------
(***************************************************************************)
(* What the PBX promises of its calls, to whoever pays for them: a call is *)
(* served while there is room, its two parties are joined at most once and *)
(* not after its bill is written, and it is not dropped from service while *)
(* joined or, once joined, unbilled.                                       *)
(***************************************************************************)
EXTENDS Naturals, FiniteSets

CONSTANTS Calls,
          Max,       \* fewer than Max calls are served at a time; 0 for no limit
          Billing    \* are bills written at all?

VARIABLES served,    \* calls in service
          joined,    \* calls whose caller and callee are joined
          parted,    \* calls that have been joined and are no longer
          billed     \* calls whose bill is written

vars == <<served, joined, parted, billed>>

Init == served = {} /\ joined = {} /\ parted = {} /\ billed = {}

Serve(c) == /\ c \notin served \union parted \union billed
            /\ Max = 0 \/ Cardinality(served) + 1 < Max
            /\ served' = served \union {c}
            /\ UNCHANGED <<joined, parted, billed>>

Join(c) == /\ c \in served \ (joined \union parted \union billed)
           /\ joined' = joined \union {c}
           /\ UNCHANGED <<served, parted, billed>>

Part(c) == /\ c \in joined
           /\ joined' = joined \ {c}
           /\ parted' = parted \union {c}
           /\ UNCHANGED <<served, billed>>

Bill(c) == /\ c \in served \ (joined \union billed)
           /\ billed' = billed \union {c}
           /\ UNCHANGED <<served, joined, parted>>

Drop(c) == /\ c \in served \ joined
           /\ Billing /\ c \in parted => c \in billed
           /\ served' = served \ {c}
           /\ UNCHANGED <<joined, parted, billed>>

Next == \E c \in Calls : Serve(c) \/ Join(c) \/ Part(c) \/ Bill(c) \/ Drop(c)

Spec == Init /\ [][Next]_vars
=============================================================================
