----------------------------- MODULE MCFlowRPC -----------------------------
(* FlowRPC with few connections, calls and messages.                        *)
EXTENDS FlowRPC

CONSTANTS k1, k2, k3, d1, d2

OneConn == {k1}
ThreeConns == {k1, k2, k3}
OneDialog == {d1}
TwoDialogs == {d1, d2}

Came == {k \in Conns : reader[k].at # "off"}
Begun == {d \in Dialogs : dlg[d] # "idle"}

\* Bound: two calls share one connection, or one call is offered to an agent with
\* three who sends one message; with two of each the agent is silent.
Few == \/ Cardinality(Came) <= 1
       \/ Cardinality(Begun) <= 1 /\ msgs <= 1
       \/ Cardinality(Came) <= 2 /\ msgs = 0

\* Nothing tells two connections, or two calls, apart: they come in this order.
\* A caller hangs up when his call has begun: Begin does not look at the line.
InOrder == /\ Came \in {{}, {k1}, {k1, k2}, ThreeConns}
           /\ Begun \in {{}, {d1}, TwoDialogs}
           /\ \A d \in Dialogs : call[d] = "ended" => d \in Begun

\* Only the agent and the callers are held back, to whom nothing is promised: what
\* FairSpec is fair to is never stopped.
FewSpec == /\ Init /\ [][Next /\ Few' /\ InOrder']_vars
           /\ \A k \in Conns : WF_vars(Reader(k))
           /\ \A d \in Dialogs : WF_vars(Dialog(d))
=============================================================================
