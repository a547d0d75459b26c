----------------------------- MODULE RecentLog -----------------------------
(* What a storage in memory promises of the entries written to it: it keeps *)
(* the newest ones, as many as fit, in the order they were written.         *)
EXTENDS Naturals, Sequences

CONSTANTS Entries, Capacity

VARIABLE log  \* the entries kept, oldest first

Init == log = <<>>

Add(e) == log' = Append(IF Len(log) < Capacity THEN log ELSE Tail(log), e)

Next == \E e \in Entries : Add(e)

Spec == Init /\ [][Next]_log
=============================================================================
