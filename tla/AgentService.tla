---------------------------- MODULE AgentService ----------------------------
(***************************************************************************)
(* What handing a call to an agent promises to both sides.  To BridgeCall: *)
(* the caller is answered only by an agent who took the call and has not   *)
(* given it back, and only such an agent redirects it.  To the agent: who  *)
(* took a call is told once that the caller has gone, and only then.       *)
(***************************************************************************)
CONSTANT Calls

VARIABLES stage,   \* [Calls -> "offered", "taken", "returned" or "over"]
          line,    \* [Calls -> the caller: "ringing", "answered" or "ended"]
          result,  \* [Calls -> "none", then "return" or "redirect"]
          told     \* calls whose agent was told that the caller has gone

vars == <<stage, line, result, told>>

Init == /\ stage = [c \in Calls |-> "offered"]
        /\ line = [c \in Calls |-> "ringing"]
        /\ result = [c \in Calls |-> "none"]
        /\ told = {}

Take(c) == /\ stage[c] = "offered"
           /\ stage' = [stage EXCEPT ![c] = "taken"]
           /\ UNCHANGED <<line, result, told>>

\* No agent is there, or none takes the call.
Decline(c) == /\ stage[c] = "offered"
              /\ stage' = [stage EXCEPT ![c] = "over"]
              /\ result' = [result EXCEPT ![c] = "return"]
              /\ UNCHANGED <<line, told>>

Answer(c) == /\ stage[c] = "taken" /\ line[c] = "ringing"
             /\ line' = [line EXCEPT ![c] = "answered"]
             /\ UNCHANGED <<stage, result, told>>

\* The agent redirects the call, hangs it up, or is done with it otherwise.
GiveBack(c) ==
  /\ stage[c] = "taken"
  /\ stage' = [stage EXCEPT ![c] = "returned"]
  /\ \/ /\ \E r \in {"return", "redirect"} : result' = [result EXCEPT ![c] = r]
        /\ UNCHANGED line
     \/ /\ result' = [result EXCEPT ![c] = "return"]
        /\ line' = [line EXCEPT ![c] = "ended"]
  /\ UNCHANGED told

Tell(c) == /\ stage[c] = "returned" /\ line[c] = "ended" /\ c \notin told
           /\ told' = told \union {c}
           /\ UNCHANGED <<stage, line, result>>

\* BridgeCall has the call again.
Leave(c) == /\ stage[c] = "returned"
            /\ line[c] = "ended" => c \in told
            /\ stage' = [stage EXCEPT ![c] = "over"]
            /\ UNCHANGED <<line, result, told>>

HangUp(c) == /\ line[c] # "ended"
             /\ line' = [line EXCEPT ![c] = "ended"]
             /\ UNCHANGED <<stage, result, told>>

Next == \E c \in Calls : \/ Take(c) \/ Decline(c) \/ Answer(c) \/ GiveBack(c)
                         \/ Tell(c) \/ Leave(c) \/ HangUp(c)

Spec == Init /\ [][Next]_vars
=============================================================================
