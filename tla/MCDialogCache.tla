--------------------------- MODULE MCDialogCache ---------------------------
(***************************************************************************)
(* Instances of DialogCache for TLC.                                       *)
(***************************************************************************)
EXTENDS DialogCache, TLC

\* The nodes are interchangeable, and so are calls of one direction.
Symmetry == Permutations(Nodes) \union Permutations(Incoming)
              \union Permutations(Outgoing)

\* Bound: MaxDowns nodes go down while there is one call, and one while calls of
\* both directions have begun.
Begun == {c \in Calls : st[<<c, 0>>] # "none"}
Brief == Cardinality(Begun) > 1 => downs <= 1
BriefSpec == Init /\ [][Next /\ Brief']_vars
=============================================================================
