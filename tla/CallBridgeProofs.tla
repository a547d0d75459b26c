--------------------------- MODULE CallBridgeProofs ---------------------------
(***************************************************************************)
(* Proofs about CallBridge, for any finite set of calls, any limit and any *)
(* number of fallbacks.                                                    *)
(***************************************************************************)
EXTENDS CallBridge, FiniteSetTheorems, TLAPS

----------------------------------------------------------------------------
(* The inductive invariant                                                  *)

\* The steps of one call (src/pbx.go:78-1047).
CallStep(c) == \/ Arrive(c) \/ Goroutine(c) \/ SixHours(c) \/ ClosedCalleeDone(c)
               \/ Parties(c)

Answering == {"answer", "answering", "record", "addin", "addout", "ack", "talk"}

\* The defers that are installed where the goroutine is (src/pbx.go:103-186,
\* 640-700).
DefersSound(c) ==
  /\ h[c].pc \in {"idle", "limits", "done"} => h[c].deferred = 0
  /\ h[c].pc = "checks" => h[c].deferred = 1
  /\ h[c].pc \in {"route", "flow", "dial"} => h[c].deferred = 4
  /\ h[c].pc = "newdialog" => h[c].deferred = 5
  /\ h[c].pc \in {"invite", "waitanswer", "nextfallback", "fallback"} \union Answering
       => h[c].deferred = 8

\* The types of what a call has of its own.
Typed == /\ h \in [Calls -> Local]
         /\ caller \in [Calls -> {"none", "ended"} \union Live]
         /\ leg \in [Calls -> [Legs -> {"none", "ended"} \union Live]]
         /\ confirmed \in [Calls -> BOOLEAN]
         /\ cdrs \in [Calls -> Seq(Record)]

\* The other calls.
Others(c) == \A d \in Calls \ {c} : /\ h'[d] = h[d] /\ caller'[d] = caller[d]
                                    /\ leg'[d] = leg[d] /\ cdrs'[d] = cdrs[d]
                                    /\ confirmed'[d] = confirmed[d]

\* outDialog (src/pbx.go:640-672, 757-800).
OutSound(c) ==
  /\ h[c].pc \in {"invite", "waitanswer", "nextfallback", "fallback"} => h[c].out = 0
  /\ h[c].pc \in Answering => h[c].out \in Legs
  /\ h[c].pc = "fallback" => h[c].next \in Legs

\* An INVITE is sent only when the one before it is over (src/pbx.go:699-800).
LegSound(c) ==
  /\ h[c].pc \in {"idle", "limits", "checks", "route", "flow", "dial", "newdialog",
                  "nextfallback"} => \A l \in Legs : leg[c][l] \notin Live
  /\ h[c].pc \in {"invite", "waitanswer"} => \A l \in Legs \ {0} : leg[c][l] \notin Live
  /\ h[c].pc = "fallback" => \A l \in Legs \ {h[c].next} : leg[c][l] \notin Live
  /\ \A k, l \in Legs : leg[c][k] \in Live /\ leg[c][l] \in Live => k = l

\* The caller is answered after a callee has (src/pbx.go:645-860).
AnswerSound(c) ==
  /\ h[c].pc \in Answering => leg[c][h[c].out] \in Up \union {"ended"}
  /\ h[c].pc = "flow" => Flows
  /\ caller[c] \in Up /\ ~Flows =>
       /\ h[c].pc \in (Answering \ {"answer"}) \union {"unwind", "done"}
       /\ h[c].out \in Legs /\ leg[c][h[c].out] \in Up \union {"ended"}

\* Whom the defers have hung up, or have failed to (src/pbx.go:130-186, 672).
GoneSound(c) ==
  /\ h[c].pc \in {"unwind", "done"} /\ h[c].deferred <= 6
       => leg[c][0] \notin Live \/ 0 \in h[c].lost
  /\ h[c].pc = "unwind" /\ h[c].deferred = 3 => caller[c] = "ended" \/ h[c].lostIn

\* The variables of the outgoing record (src/pbx.go:676-700, 820-960).
BridgedSound(c) ==
  /\ h[c].pc \in {"record", "addin", "addout", "ack", "talk"} => h[c].answered
  /\ h[c].bridged => h[c].answered
  /\ h[c].answered => confirmed[c]

\* What an outgoing and what an incoming record say (src/pbx.go:130-186,
\* 676-700).
OutRecord(c, r) == /\ r.dir = "out"
                   /\ r.bridged => r.answered
                   /\ r.answered => confirmed[c] /\ h[c].answered
                   /\ r.recorded = h[c].recorded
InRecord(c, r) == /\ r.dir = "in"
                  /\ r.answered => confirmed[c]
                  /\ confirmed[c] => r.answered \/ h[c].lostIn
                  /\ h[c].answered => r.answered
                  /\ r.recorded = h[c].recorded

\* A call whose parties were joined is billed (src/pbx.go:130-186, 890-960).
Both == {"in", "out"}
MediaSound(c) ==
  /\ h[c].media = Both => h[c].pc \in {"ack", "talk", "unwind", "done"}
  /\ h[c].media = Both /\ CDREnable /\ h[c].deferred <= 2 => cdrs[c] # <<>>

\* The records written while the defers run.
RecordsSound(c) ==
  cdrs[c] # <<>> =>
    /\ CDREnable /\ h[c].pc \in {"unwind", "done"} /\ h[c].deferred <= 7
    /\ h[c].deferred >= 3 => Len(cdrs[c]) = 1 /\ OutRecord(c, cdrs[c][1])
    /\ h[c].deferred <= 2 =>
         /\ Len(cdrs[c]) \in {1, 2} /\ (caller[c] = "ended" \/ h[c].lostIn)
         /\ InRecord(c, cdrs[c][Len(cdrs[c])])
         /\ Len(cdrs[c]) = 2 => OutRecord(c, cdrs[c][1])

CallSound(c) == /\ DefersSound(c) /\ OutSound(c) /\ LegSound(c) /\ AnswerSound(c)
                /\ GoneSound(c) /\ BridgedSound(c) /\ RecordsSound(c) /\ MediaSound(c)

IInv == Typed /\ SharedAccounted /\ \A c \in Calls : CallSound(c)

----------------------------------------------------------------------------
(* One call at a time                                                       *)

\* A step of one call leaves the others' state alone (src/pbx.go:78-1047).
LEMMA Frame ==
  ASSUME NEW c \in Calls, Typed, CallStep(c)
  PROVE  Others(c)
<1>1. CASE Arrive(c)
  BY <1>1 DEF Typed, Others, Arrive, At, Goto, Return, SetCaller, SetLeg, shared, dialogs
<1>2. CASE Refuse(c)
  BY <1>2 DEF Typed, Others, Refuse, At, Goto, Return, SetCaller, SetLeg, shared, dialogs
<1>3. CASE Admit(c)
  BY <1>3 DEF Typed, Others, Admit, Limiter!Admit, At, Goto, Return, SetCaller, SetLeg,
     shared, dialogs
<1>4. CASE Check(c)
  BY <1>4 DEF Typed, Others, Check, At, Goto, Return, SetCaller, SetLeg, shared, dialogs
<1>5. CASE Unauthorized(c)
  BY <1>5 DEF Typed, Others, Unauthorized, Respond, At, Goto, Return, SetCaller, SetLeg,
     shared, dialogs
<1>6. CASE RejectRoute(c)
  BY <1>6 DEF Typed, Others, RejectRoute, Respond, At, Goto, Return, SetCaller, SetLeg,
     shared, dialogs
<1>7. CASE MatchRoute(c)
  BY <1>7 DEF Typed, Others, MatchRoute, At, Goto, Return, SetCaller, SetLeg, shared,
     dialogs
<1>8. CASE AgentLeaves(c)
  BY <1>8 DEF Typed, Others, AgentLeaves, At, Goto, Return, SetCaller, SetLeg, shared,
     dialogs
<1>9. CASE RejectDial(c)
  BY <1>9 DEF Typed, Others, RejectDial, Respond, At, Goto, Return, SetCaller, SetLeg,
     shared, dialogs
<1>10. CASE StoreBridge(c)
  BY <1>10 DEF Typed, Others, StoreBridge, At, Goto, Return, SetCaller, SetLeg, shared,
     dialogs
<1>11. CASE DialPrimary(c)
  BY <1>11 DEF Typed, Others, DialPrimary, At, Goto, Return, SetCaller, SetLeg, shared,
     dialogs
<1>12. CASE PrimaryAnswers(c)
  BY <1>12 DEF Typed, Others, PrimaryAnswers, At, Goto, Return, SetCaller, SetLeg,
     shared, dialogs
<1>13. CASE EarlyMedia(c)
  BY <1>13 DEF Typed, Others, EarlyMedia, At, Goto, Return, SetCaller, SetLeg, shared,
     dialogs
<1>14. CASE PrimaryFails(c)
  BY <1>14 DEF Typed, Others, PrimaryFails, At, Goto, Return, SetCaller, SetLeg, shared,
     dialogs
<1>15. CASE NextFallback(c)
  BY <1>15 DEF Typed, Others, NextFallback, FallbackError, At, Goto, Return, SetCaller,
     SetLeg, shared, dialogs
<1>16. CASE FallbackFails(c)
  BY <1>16 DEF Typed, Others, FallbackFails, FallbackError, At, Goto, Return, SetCaller,
     SetLeg, shared, dialogs
<1>17. CASE FallbackEarlyMedia(c)
  BY <1>17 DEF Typed, Others, FallbackEarlyMedia, FallbackError, At, Goto, Return,
     SetCaller, SetLeg, shared, dialogs
<1>18. CASE FallbackAnswers(c)
  BY <1>18 DEF Typed, Others, FallbackAnswers, At, Goto, Return, SetCaller, SetLeg,
     shared, dialogs
<1>19. CASE AnswerFails(c)
  BY <1>19 DEF Typed, Others, AnswerFails, At, Goto, Return, SetCaller, SetLeg, shared,
     dialogs
<1>20. CASE SendAnswer(c)
  BY <1>20 DEF Typed, Others, SendAnswer, At, Goto, Return, SetCaller, SetLeg, shared,
     dialogs
<1>21. CASE AnswerReturns(c)
  BY <1>21 DEF Typed, Others, AnswerReturns, At, Goto, Return, SetCaller, SetLeg,
     shared, dialogs
<1>22. CASE StartRecording(c)
  BY <1>22 DEF Typed, Others, StartRecording, At, Goto, Return, SetCaller, SetLeg,
     shared, dialogs
<1>23. CASE AddMediaIn(c)
  BY <1>23 DEF Typed, Others, AddMediaIn, At, Goto, Return, SetCaller, SetLeg, shared,
     dialogs
<1>24. CASE AddMediaOut(c)
  BY <1>24 DEF Typed, Others, AddMediaOut, At, Goto, Return, SetCaller, SetLeg, shared,
     dialogs
<1>25. CASE Ack(c)
  BY <1>25 DEF Typed, Others, Ack, At, Goto, Return, SetCaller, SetLeg, shared, dialogs
<1>26. CASE CallerDone(c)
  BY <1>26 DEF Typed, Others, CallerDone, At, Goto, Return, SetCaller, SetLeg, shared,
     dialogs
<1>27. CASE CalleeEnded(c)
  BY <1>27 DEF Typed, Others, CalleeEnded, At, Goto, Return, SetCaller, SetLeg, shared,
     dialogs
<1>28. CASE Unwind(c)
  BY <1>28 DEF Typed, Others, Unwind, DeferFails, RunDefer, WriteOut, WriteIn, Write, Limiter!Leave,
     Defers, At, Goto, Return, SetCaller, SetLeg, shared, dialogs
<1>29. CASE SixHours(c)
  BY <1>29 DEF Typed, Others, SixHours, At, Goto, Return, SetCaller, SetLeg, shared,
     dialogs
<1>30. CASE AgentAnswers(c)
  BY <1>30 DEF Typed, Others, AgentAnswers, At, Goto, Return, SetCaller, SetLeg, shared,
     dialogs
<1>31. CASE CallerConfirms(c)
  BY <1>31 DEF Typed, Others, CallerConfirms, At, Goto, Return, SetCaller, SetLeg,
     shared, dialogs
<1>32. CASE CallerHangsUp(c)
  BY <1>32 DEF Typed, Others, CallerHangsUp, At, Goto, Return, SetCaller, SetLeg,
     shared, dialogs
<1>33. ASSUME NEW l \in Legs, CalleeHangsUp(c, l) PROVE Others(c)
  BY <1>33 DEF Typed, Others, CalleeHangsUp, At, Goto, Return, SetCaller, SetLeg,
     shared, dialogs
<1> QED BY <1>1, <1>2, <1>3, <1>4, <1>5, <1>6, <1>7, <1>8, <1>9, <1>10, <1>11, <1>12,
   <1>13, <1>14, <1>15, <1>16, <1>17, <1>18, <1>19, <1>20, <1>21, <1>22, <1>23, <1>24,
   <1>25, <1>26, <1>27, <1>28, <1>29, <1>30, <1>31, <1>32, <1>33 DEF CallStep,
   Goroutine, Setup, Dialling, Bridging, CalleeDone, ClosedCalleeDone, Parties

\* Eight defers (src/pbx.go:103-186, 640-700).
LEMMA EightDefers == Len(Defers) = 8
  BY DEF Defers

\* A goroutine assigns to its local variables what they may hold
\* (src/pbx.go:78-1047).
LEMMA Assigned ==
  ASSUME NEW r \in Local
  PROVE  /\ \A label \in Labels : [r EXCEPT !.pc = label] \in Local
         /\ \A n \in 0..8 : [r EXCEPT !.deferred = n] \in Local
         /\ \A l \in Legs \union {NoLeg} : [r EXCEPT !.out = l] \in Local
         /\ \A n \in 1..(Fallbacks + 1) : [r EXCEPT !.next = n] \in Local
         /\ \A m \in SUBSET {"in", "out"} : [r EXCEPT !.media = m] \in Local
         /\ \A b \in BOOLEAN : /\ [r EXCEPT !.webrtc = b] \in Local
                               /\ [r EXCEPT !.fallback = b] \in Local
                               /\ [r EXCEPT !.answered = b] \in Local
                               /\ [r EXCEPT !.bridged = b] \in Local
                               /\ [r EXCEPT !.recorded = b] \in Local
                               /\ [r EXCEPT !.closed = b] \in Local
                               /\ [r EXCEPT !.lostIn = b] \in Local
         /\ \A l \in Legs : [r EXCEPT !.lost = r.lost \union {l}] \in Local
<1>1. \A label \in Labels : [r EXCEPT !.pc = label] \in Local
  BY EightDefers DEF Local
<1>2. \A n \in 0..8 : [r EXCEPT !.deferred = n] \in Local
  BY EightDefers DEF Local
<1>3. \A l \in Legs \union {NoLeg} : [r EXCEPT !.out = l] \in Local
  BY EightDefers DEF Local
<1>4. \A n \in 1..(Fallbacks + 1) : [r EXCEPT !.next = n] \in Local
  BY EightDefers DEF Local
<1>5. \A m \in SUBSET {"in", "out"} : [r EXCEPT !.media = m] \in Local
  BY EightDefers DEF Local
<1>6. \A b \in BOOLEAN : /\ [r EXCEPT !.webrtc = b] \in Local
                          /\ [r EXCEPT !.fallback = b] \in Local
  BY EightDefers DEF Local
<1>7. \A b \in BOOLEAN : /\ [r EXCEPT !.answered = b] \in Local
                          /\ [r EXCEPT !.bridged = b] \in Local
                          /\ [r EXCEPT !.recorded = b] \in Local
  BY EightDefers DEF Local
<1>8. \A b \in BOOLEAN : /\ [r EXCEPT !.closed = b] \in Local
                          /\ [r EXCEPT !.lostIn = b] \in Local
  BY EightDefers DEF Local
<1>9. \A l \in Legs : [r EXCEPT !.lost = r.lost \union {l}] \in Local
  BY EightDefers DEF Local
<1> QED BY <1>1, <1>2, <1>3, <1>4, <1>5, <1>6, <1>7, <1>8, <1>9

\* So is the state of a leg.
LEMMA LegAssigned ==
  ASSUME leg \in [Calls -> [Legs -> {"none", "ended"} \union Live]],
         NEW c \in Calls, NEW l \in Legs, NEW s \in {"none", "ended"} \union Live
  PROVE  [leg EXCEPT ![c][l] = s] \in [Calls -> [Legs -> {"none", "ended"} \union Live]]
<1> DEFINE S == {"none", "ended"} \union Live
<1> HIDE DEF S
<1>1. leg \in [Calls -> [Legs -> S]] /\ s \in S
  BY DEF S
<1>2. [leg EXCEPT ![c][l] = s] \in [Calls -> [Legs -> S]]
  BY <1>1
<1> QED BY <1>2 DEF S

\* Numbers of defers a step installs.
LEMMA Counts == {0, 1, 2, 4, 5, 8} \subseteq 0..8 /\ 0 \in Legs
  BY ConfAssumption DEF Legs

\* Each step keeps the types of its call (src/pbx.go:78-1047).
LEMMA TypedStep ==
  ASSUME NEW c \in Calls, Typed, OutSound(c), CallStep(c)
  PROVE  Typed'
<1>1. CASE Arrive(c)
  <2>1. h' \in [Calls -> Local]
    BY <1>1, Assigned DEF Typed, Labels, Arrive, Goto, Return
  <2>2. leg' = leg
    BY <1>1 DEF Arrive, SetCaller, SetLeg, shared, dialogs
  <2>3. /\ caller' \in [Calls -> {"none", "ended"} \union Live]
        /\ confirmed' \in [Calls -> BOOLEAN]
    BY <1>1 DEF Typed, Live, Arrive, SetCaller, SetLeg, shared, dialogs
  <2>4. cdrs' = cdrs
    BY <1>1 DEF Arrive, SetCaller, SetLeg, shared, dialogs
  <2> QED BY <2>1, <2>2, <2>3, <2>4 DEF Typed
<1>2. CASE Refuse(c)
  <2>1. h' \in [Calls -> Local]
    BY <1>2, Assigned DEF Typed, Labels, Refuse, Goto, Return
  <2>2. leg' = leg
    BY <1>2 DEF Refuse, SetCaller, SetLeg, shared, dialogs
  <2>3. /\ caller' \in [Calls -> {"none", "ended"} \union Live]
        /\ confirmed' \in [Calls -> BOOLEAN]
    BY <1>2 DEF Typed, Live, Refuse, SetCaller, SetLeg, shared, dialogs
  <2>4. cdrs' = cdrs
    BY <1>2 DEF Refuse, SetCaller, SetLeg, shared, dialogs
  <2> QED BY <2>1, <2>2, <2>3, <2>4 DEF Typed
<1>3. CASE Admit(c)
  <2>1. h' \in [Calls -> Local]
    <3>1. h' = [h EXCEPT ![c].pc = "checks", ![c].deferred = 1]
      BY <1>3 DEF Admit, Goto, Return
    <3> QED BY <3>1, Assigned, Counts DEF Typed, Labels
  <2>2. leg' = leg
    BY <1>3 DEF Admit, Limiter!Admit, SetCaller, SetLeg, shared, dialogs
  <2>3. /\ caller' \in [Calls -> {"none", "ended"} \union Live]
        /\ confirmed' \in [Calls -> BOOLEAN]
    BY <1>3 DEF Typed, Live, Admit, Limiter!Admit, SetCaller, SetLeg, shared, dialogs
  <2>4. cdrs' = cdrs
    BY <1>3 DEF Admit, Limiter!Admit, SetCaller, SetLeg, shared, dialogs
  <2> QED BY <2>1, <2>2, <2>3, <2>4 DEF Typed
<1>4. CASE Check(c)
  <2>1. h' \in [Calls -> Local]
    <3>1. \/ h' = [h EXCEPT ![c].pc = "unwind", ![c].deferred = 2]
          \/ h' = [h EXCEPT ![c].pc = "route", ![c].deferred = 4]
      BY <1>4 DEF Check, Goto, Return
    <3>2. CASE h' = [h EXCEPT ![c].pc = "unwind", ![c].deferred = 2]
      BY <3>2, Assigned, Counts DEF Typed, Labels
    <3>3. CASE h' = [h EXCEPT ![c].pc = "route", ![c].deferred = 4]
      BY <3>3, Assigned, Counts DEF Typed, Labels
    <3> QED BY <3>1, <3>2, <3>3
  <2>2. leg' = leg
    BY <1>4 DEF Check, SetCaller, SetLeg, shared, dialogs
  <2>3. /\ caller' \in [Calls -> {"none", "ended"} \union Live]
        /\ confirmed' \in [Calls -> BOOLEAN]
    BY <1>4 DEF Typed, Live, Check, SetCaller, SetLeg, shared, dialogs
  <2>4. cdrs' = cdrs
    BY <1>4 DEF Check, SetCaller, SetLeg, shared, dialogs
  <2> QED BY <2>1, <2>2, <2>3, <2>4 DEF Typed
<1>5. CASE Unauthorized(c)
  <2>1. h' \in [Calls -> Local]
    BY <1>5, Assigned DEF Typed, Labels, Unauthorized, Goto, Return
  <2>2. leg' = leg
    BY <1>5 DEF Unauthorized, Respond, SetCaller, SetLeg, shared, dialogs
  <2>3. /\ caller' \in [Calls -> {"none", "ended"} \union Live]
        /\ confirmed' \in [Calls -> BOOLEAN]
    BY <1>5 DEF Typed, Live, Unauthorized, Respond, SetCaller, SetLeg, shared, dialogs
  <2>4. cdrs' = cdrs
    BY <1>5 DEF Unauthorized, Respond, SetCaller, SetLeg, shared, dialogs
  <2> QED BY <2>1, <2>2, <2>3, <2>4 DEF Typed
<1>6. CASE RejectRoute(c)
  <2>1. h' \in [Calls -> Local]
    BY <1>6, Assigned DEF Typed, Labels, RejectRoute, Goto, Return
  <2>2. leg' = leg
    BY <1>6 DEF RejectRoute, Respond, SetCaller, SetLeg, shared, dialogs
  <2>3. /\ caller' \in [Calls -> {"none", "ended"} \union Live]
        /\ confirmed' \in [Calls -> BOOLEAN]
    BY <1>6 DEF Typed, Live, RejectRoute, Respond, SetCaller, SetLeg, shared, dialogs
  <2>4. cdrs' = cdrs
    BY <1>6 DEF RejectRoute, Respond, SetCaller, SetLeg, shared, dialogs
  <2> QED BY <2>1, <2>2, <2>3, <2>4 DEF Typed
<1>7. CASE MatchRoute(c)
  <2>1. h' \in [Calls -> Local]
    <3>1. PICK fallback \in BOOLEAN, webrtc \in BOOLEAN :
            h' = [h EXCEPT ![c].pc = IF Flows THEN "flow" ELSE "dial",
                           ![c].fallback = fallback, ![c].webrtc = webrtc]
      BY <1>7, ConfAssumption DEF MatchRoute
    <3>2. PICK label \in Labels :
            h' = [h EXCEPT ![c].pc = label, ![c].fallback = fallback, ![c].webrtc = webrtc]
      BY <3>1 DEF Labels
    <3> QED BY <3>2, Assigned DEF Typed
  <2>2. leg' = leg
    BY <1>7 DEF MatchRoute, SetCaller, SetLeg, shared, dialogs
  <2>3. /\ caller' \in [Calls -> {"none", "ended"} \union Live]
        /\ confirmed' \in [Calls -> BOOLEAN]
    BY <1>7 DEF Typed, Live, MatchRoute, SetCaller, SetLeg, shared, dialogs
  <2>4. cdrs' = cdrs
    BY <1>7 DEF MatchRoute, SetCaller, SetLeg, shared, dialogs
  <2> QED BY <2>1, <2>2, <2>3, <2>4 DEF Typed
<1>8. CASE AgentLeaves(c)
  <2>1. h' \in [Calls -> Local]
    <3>1. \/ h' = [h EXCEPT ![c].pc = "unwind"]
          \/ h' = [h EXCEPT ![c].pc = "dial"]
      BY <1>8 DEF AgentLeaves, Goto, Return
    <3>2. CASE h' = [h EXCEPT ![c].pc = "unwind"]
      BY <3>2, Assigned, Counts DEF Typed, Labels
    <3>3. CASE h' = [h EXCEPT ![c].pc = "dial"]
      BY <3>3, Assigned, Counts DEF Typed, Labels
    <3> QED BY <3>1, <3>2, <3>3
  <2>2. leg' = leg
    BY <1>8 DEF AgentLeaves, SetCaller, SetLeg, shared, dialogs
  <2>3. /\ caller' \in [Calls -> {"none", "ended"} \union Live]
        /\ confirmed' \in [Calls -> BOOLEAN]
    BY <1>8 DEF Typed, Live, AgentLeaves, SetCaller, SetLeg, shared, dialogs
  <2>4. cdrs' = cdrs
    BY <1>8 DEF AgentLeaves, SetCaller, SetLeg, shared, dialogs
  <2> QED BY <2>1, <2>2, <2>3, <2>4 DEF Typed
<1>9. CASE RejectDial(c)
  <2>1. h' \in [Calls -> Local]
    BY <1>9, Assigned DEF Typed, Labels, RejectDial, Goto, Return
  <2>2. leg' = leg
    BY <1>9 DEF RejectDial, Respond, SetCaller, SetLeg, shared, dialogs
  <2>3. /\ caller' \in [Calls -> {"none", "ended"} \union Live]
        /\ confirmed' \in [Calls -> BOOLEAN]
    BY <1>9 DEF Typed, Live, RejectDial, Respond, SetCaller, SetLeg, shared, dialogs
  <2>4. cdrs' = cdrs
    BY <1>9 DEF RejectDial, Respond, SetCaller, SetLeg, shared, dialogs
  <2> QED BY <2>1, <2>2, <2>3, <2>4 DEF Typed
<1>10. CASE StoreBridge(c)
  <2>1. h' \in [Calls -> Local]
    <3>1. h' = [h EXCEPT ![c].pc = "newdialog", ![c].deferred = 5]
      BY <1>10 DEF StoreBridge, Goto, Return
    <3> QED BY <3>1, Assigned, Counts DEF Typed, Labels
  <2>2. leg' = leg
    BY <1>10 DEF StoreBridge, SetCaller, SetLeg, shared, dialogs
  <2>3. /\ caller' \in [Calls -> {"none", "ended"} \union Live]
        /\ confirmed' \in [Calls -> BOOLEAN]
    BY <1>10 DEF Typed, Live, StoreBridge, SetCaller, SetLeg, shared, dialogs
  <2>4. cdrs' = cdrs
    BY <1>10 DEF StoreBridge, SetCaller, SetLeg, shared, dialogs
  <2> QED BY <2>1, <2>2, <2>3, <2>4 DEF Typed
<1>11. CASE DialPrimary(c)
  <2>1. h' \in [Calls -> Local]
    <3>1. \/ h' = [h EXCEPT ![c].pc = "unwind"]
          \/ h' = [h EXCEPT ![c].pc = "invite", ![c].deferred = 8, ![c].out = 0]
      BY <1>11 DEF DialPrimary, Goto, Return
    <3>2. CASE h' = [h EXCEPT ![c].pc = "unwind"]
      BY <3>2, Assigned, Counts DEF Typed, Labels
    <3>3. CASE h' = [h EXCEPT ![c].pc = "invite", ![c].deferred = 8, ![c].out = 0]
      BY <3>3, Assigned, Counts DEF Typed, Labels
    <3> QED BY <3>1, <3>2, <3>3
  <2>2. leg' \in [Calls -> [Legs -> {"none", "ended"} \union Live]]
    <3>1. \/ leg' = leg
          \/ leg' = [leg EXCEPT ![c][0] = "inviting"]
      BY <1>11, EightDefers DEF DialPrimary, SetCaller, SetLeg, shared, dialogs
    <3>2. "inviting" \in {"none", "ended"} \union Live
      BY DEF Live
    <3>3. CASE leg' = leg
      BY <3>3 DEF Typed
    <3>4. CASE leg' = [leg EXCEPT ![c][0] = "inviting"]
      BY <3>2, <3>4, Counts, LegAssigned DEF Typed
    <3> QED BY <3>1, <3>3, <3>4
  <2>3. /\ caller' \in [Calls -> {"none", "ended"} \union Live]
        /\ confirmed' \in [Calls -> BOOLEAN]
    BY <1>11 DEF Typed, Live, DialPrimary, SetCaller, SetLeg, shared, dialogs
  <2>4. cdrs' = cdrs
    BY <1>11 DEF DialPrimary, SetCaller, SetLeg, shared, dialogs
  <2> QED BY <2>1, <2>2, <2>3, <2>4 DEF Typed
<1>12. CASE PrimaryAnswers(c)
  <2>1. h' \in [Calls -> Local]
    BY <1>12, Assigned DEF Typed, Labels, PrimaryAnswers, Goto, Return
  <2>2. leg' \in [Calls -> [Legs -> {"none", "ended"} \union Live]]
    <3>1. leg' = [leg EXCEPT ![c][0] = "answered"]
      BY <1>12 DEF PrimaryAnswers, SetCaller, SetLeg, shared, dialogs
    <3>2. "answered" \in {"none", "ended"} \union Live
      BY DEF Live
    <3> QED BY <3>1, <3>2, Counts, LegAssigned DEF Typed
  <2>3. /\ caller' \in [Calls -> {"none", "ended"} \union Live]
        /\ confirmed' \in [Calls -> BOOLEAN]
    BY <1>12 DEF Typed, Live, PrimaryAnswers, SetCaller, SetLeg, shared, dialogs
  <2>4. cdrs' = cdrs
    BY <1>12 DEF PrimaryAnswers, SetCaller, SetLeg, shared, dialogs
  <2> QED BY <2>1, <2>2, <2>3, <2>4 DEF Typed
<1>13. CASE EarlyMedia(c)
  <2>1. h' \in [Calls -> Local]
    <3>1. \/ h' = [h EXCEPT ![c].pc = "unwind"]
          \/ h' = [h EXCEPT ![c].pc = "waitanswer"]
      BY <1>13 DEF EarlyMedia, Goto, Return
    <3>2. CASE h' = [h EXCEPT ![c].pc = "unwind"]
      BY <3>2, Assigned, Counts DEF Typed, Labels
    <3>3. CASE h' = [h EXCEPT ![c].pc = "waitanswer"]
      BY <3>3, Assigned, Counts DEF Typed, Labels
    <3> QED BY <3>1, <3>2, <3>3
  <2>2. leg' \in [Calls -> [Legs -> {"none", "ended"} \union Live]]
    <3>1. leg' = [leg EXCEPT ![c][0] = "early"]
      BY <1>13 DEF EarlyMedia, SetCaller, SetLeg, shared, dialogs
    <3>2. "early" \in {"none", "ended"} \union Live
      BY DEF Live
    <3> QED BY <3>1, <3>2, Counts, LegAssigned DEF Typed
  <2>3. /\ caller' \in [Calls -> {"none", "ended"} \union Live]
        /\ confirmed' \in [Calls -> BOOLEAN]
    BY <1>13 DEF Typed, Live, EarlyMedia, SetCaller, SetLeg, shared, dialogs
  <2>4. cdrs' = cdrs
    BY <1>13 DEF EarlyMedia, SetCaller, SetLeg, shared, dialogs
  <2> QED BY <2>1, <2>2, <2>3, <2>4 DEF Typed
<1>14. CASE PrimaryFails(c)
  <2>1. h' \in [Calls -> Local]
    <3>1. \/ h' = [h EXCEPT ![c].pc = "unwind"]
          \/ h' = [h EXCEPT ![c].pc = "nextfallback"]
      BY <1>14 DEF PrimaryFails, Goto, Return
    <3>2. CASE h' = [h EXCEPT ![c].pc = "unwind"]
      BY <3>2, Assigned, Counts DEF Typed, Labels
    <3>3. CASE h' = [h EXCEPT ![c].pc = "nextfallback"]
      BY <3>3, Assigned, Counts DEF Typed, Labels
    <3> QED BY <3>1, <3>2, <3>3
  <2>2. leg' \in [Calls -> [Legs -> {"none", "ended"} \union Live]]
    <3>1. leg' = [leg EXCEPT ![c][0] = "ended"]
      BY <1>14 DEF PrimaryFails, SetCaller, SetLeg, shared, dialogs
    <3>2. "ended" \in {"none", "ended"} \union Live
      BY DEF Live
    <3> QED BY <3>1, <3>2, Counts, LegAssigned DEF Typed
  <2>3. /\ caller' \in [Calls -> {"none", "ended"} \union Live]
        /\ confirmed' \in [Calls -> BOOLEAN]
    BY <1>14 DEF Typed, Live, PrimaryFails, SetCaller, SetLeg, shared, dialogs
  <2>4. cdrs' = cdrs
    BY <1>14 DEF PrimaryFails, SetCaller, SetLeg, shared, dialogs
  <2> QED BY <2>1, <2>2, <2>3, <2>4 DEF Typed
<1>15. CASE NextFallback(c)
  <2>0. h[c].next <= Fallbacks => h[c].next \in Legs
    BY <1>15, ConfAssumption DEF Typed, Local, Legs
  <2>1. h' \in [Calls -> Local]
    <3>1. \/ h' = [h EXCEPT ![c].pc = "unwind", ![c].out = NoLeg]
          \/ h' = [h EXCEPT ![c].pc = "fallback"]
      BY <1>15 DEF NextFallback, FallbackError, Goto, Return
    <3>2. CASE h' = [h EXCEPT ![c].pc = "unwind", ![c].out = NoLeg]
      BY <3>2, Assigned, Counts DEF Typed, Labels
    <3>3. CASE h' = [h EXCEPT ![c].pc = "fallback"]
      BY <3>3, Assigned, Counts DEF Typed, Labels
    <3> QED BY <3>1, <3>2, <3>3
  <2>2. leg' \in [Calls -> [Legs -> {"none", "ended"} \union Live]]
    <3>1. \/ leg' = leg
          \/ h[c].next <= Fallbacks /\ leg' = [leg EXCEPT ![c][h[c].next] = "inviting"]
      BY <1>15, EightDefers DEF NextFallback, FallbackError, SetCaller, SetLeg, shared,
         dialogs
    <3>2. "inviting" \in {"none", "ended"} \union Live
      BY <2>0 DEF Live, Typed
    <3>3. CASE leg' = leg
      BY <3>3 DEF Typed
    <3>4. CASE h[c].next <= Fallbacks /\ leg' = [leg EXCEPT ![c][h[c].next] = "inviting"]
      BY <3>2, <3>4, <2>0, Counts, LegAssigned DEF Typed
    <3> QED BY <3>1, <3>3, <3>4
  <2>3. /\ caller' \in [Calls -> {"none", "ended"} \union Live]
        /\ confirmed' \in [Calls -> BOOLEAN]
    BY <1>15 DEF Typed, Live, NextFallback, FallbackError, SetCaller, SetLeg, shared,
       dialogs
  <2>4. cdrs' = cdrs
    BY <1>15 DEF NextFallback, FallbackError, SetCaller, SetLeg, shared, dialogs
  <2> QED BY <2>1, <2>2, <2>3, <2>4 DEF Typed
<1>16. CASE FallbackFails(c)
  <2>0. h[c].next \in Legs /\ h[c].next + 1 \in 1..(Fallbacks + 1)
    BY <1>16, ConfAssumption DEF Typed, Local, OutSound, Legs, At, FallbackFails
  <2>1. h' \in [Calls -> Local]
    <3>1. \/ h' = [h EXCEPT ![c].pc = "unwind", ![c].out = NoLeg]
          \/ h' = [h EXCEPT ![c].pc = "nextfallback", ![c].next = h[c].next + 1]
      BY <1>16 DEF FallbackFails, FallbackError, Goto, Return
    <3>2. CASE h' = [h EXCEPT ![c].pc = "unwind", ![c].out = NoLeg]
      BY <3>2, <2>0, Assigned, Counts DEF Typed, Labels
    <3>3. CASE h' = [h EXCEPT ![c].pc = "nextfallback", ![c].next = h[c].next + 1]
      BY <3>3, <2>0, Assigned, Counts DEF Typed, Labels
    <3> QED BY <3>1, <3>2, <3>3
  <2>2. leg' \in [Calls -> [Legs -> {"none", "ended"} \union Live]]
    <3>1. leg' = [leg EXCEPT ![c][h[c].next] = "ended"]
      BY <1>16 DEF FallbackFails, FallbackError, SetCaller, SetLeg, shared, dialogs
    <3>2. "ended" \in {"none", "ended"} \union Live
      BY <2>0 DEF Live, Typed
    <3> QED BY <3>1, <3>2, <2>0, Counts, LegAssigned DEF Typed
  <2>3. /\ caller' \in [Calls -> {"none", "ended"} \union Live]
        /\ confirmed' \in [Calls -> BOOLEAN]
    BY <1>16 DEF Typed, Live, FallbackFails, FallbackError, SetCaller, SetLeg, shared,
       dialogs
  <2>4. cdrs' = cdrs
    BY <1>16 DEF FallbackFails, FallbackError, SetCaller, SetLeg, shared, dialogs
  <2> QED BY <2>1, <2>2, <2>3, <2>4 DEF Typed
<1>17. CASE FallbackEarlyMedia(c)
  <2>0. h[c].next \in Legs /\ h[c].next + 1 \in 1..(Fallbacks + 1)
    BY <1>17, ConfAssumption DEF Typed, Local, OutSound, Legs, At, FallbackEarlyMedia
  <2>1. h' \in [Calls -> Local]
    <3>1. h' = [h EXCEPT ![c].pc = "unwind", ![c].out = NoLeg]
      BY <1>17 DEF FallbackEarlyMedia, FallbackError, Goto, Return
    <3> QED BY <3>1, Assigned, Counts DEF Typed, Labels
  <2>2. leg' \in [Calls -> [Legs -> {"none", "ended"} \union Live]]
    <3>1. leg' = [leg EXCEPT ![c][h[c].next] = "early"]
      BY <1>17 DEF FallbackEarlyMedia, FallbackError, SetCaller, SetLeg, shared, dialogs
    <3>2. "early" \in {"none", "ended"} \union Live
      BY <2>0 DEF Live, Typed
    <3> QED BY <3>1, <3>2, <2>0, Counts, LegAssigned DEF Typed
  <2>3. /\ caller' \in [Calls -> {"none", "ended"} \union Live]
        /\ confirmed' \in [Calls -> BOOLEAN]
    BY <1>17 DEF Typed, Live, FallbackEarlyMedia, FallbackError, SetCaller, SetLeg,
       shared, dialogs
  <2>4. cdrs' = cdrs
    BY <1>17 DEF FallbackEarlyMedia, FallbackError, SetCaller, SetLeg, shared, dialogs
  <2> QED BY <2>1, <2>2, <2>3, <2>4 DEF Typed
<1>18. CASE FallbackAnswers(c)
  <2>0. h[c].next \in Legs /\ h[c].next + 1 \in 1..(Fallbacks + 1)
    BY <1>18, ConfAssumption DEF Typed, Local, OutSound, Legs, At, FallbackAnswers
  <2>1. h' \in [Calls -> Local]
    <3>1. h[c] \in Local
      BY DEF Typed
    <3>2. [h[c] EXCEPT !.out = h[c].next] \in Local
      BY <2>0, <3>1, Assigned
    <3>3. [[h[c] EXCEPT !.out = h[c].next] EXCEPT !.closed = TRUE] \in Local
      BY <3>2, Assigned
    <3>4. [[[h[c] EXCEPT !.out = h[c].next] EXCEPT !.closed = TRUE] EXCEPT !.pc = "answer"]
            \in Local
      BY <3>3, Assigned DEF Labels
    <3>5. h' = [h EXCEPT ![c] = [[[h[c] EXCEPT !.out = h[c].next] EXCEPT !.closed = TRUE]
                                   EXCEPT !.pc = "answer"]]
      BY <1>18, <3>1 DEF FallbackAnswers, Typed, Local
    <3> QED BY <3>4, <3>5 DEF Typed
  <2>2. leg' \in [Calls -> [Legs -> {"none", "ended"} \union Live]]
    <3>1. leg' = [leg EXCEPT ![c][h[c].next] = "answered"]
      BY <1>18 DEF FallbackAnswers, SetCaller, SetLeg, shared, dialogs
    <3>2. "answered" \in {"none", "ended"} \union Live
      BY <2>0 DEF Live, Typed
    <3> QED BY <3>1, <3>2, <2>0, Counts, LegAssigned DEF Typed
  <2>3. /\ caller' \in [Calls -> {"none", "ended"} \union Live]
        /\ confirmed' \in [Calls -> BOOLEAN]
    BY <1>18 DEF Typed, Live, FallbackAnswers, SetCaller, SetLeg, shared, dialogs
  <2>4. cdrs' = cdrs
    BY <1>18 DEF FallbackAnswers, SetCaller, SetLeg, shared, dialogs
  <2> QED BY <2>1, <2>2, <2>3, <2>4 DEF Typed
<1>19. CASE AnswerFails(c)
  <2>1. h' \in [Calls -> Local]
    BY <1>19, Assigned DEF Typed, Labels, AnswerFails, Goto, Return
  <2>2. leg' = leg
    BY <1>19 DEF AnswerFails, SetCaller, SetLeg, shared, dialogs
  <2>3. /\ caller' \in [Calls -> {"none", "ended"} \union Live]
        /\ confirmed' \in [Calls -> BOOLEAN]
    BY <1>19 DEF Typed, Live, AnswerFails, SetCaller, SetLeg, shared, dialogs
  <2>4. cdrs' = cdrs
    BY <1>19 DEF AnswerFails, SetCaller, SetLeg, shared, dialogs
  <2> QED BY <2>1, <2>2, <2>3, <2>4 DEF Typed
<1>20. CASE SendAnswer(c)
  <2>1. h' \in [Calls -> Local]
    BY <1>20, Assigned DEF Typed, Labels, SendAnswer, Goto, Return
  <2>2. leg' = leg
    BY <1>20 DEF SendAnswer, SetCaller, SetLeg, shared, dialogs
  <2>3. /\ caller' \in [Calls -> {"none", "ended"} \union Live]
        /\ confirmed' \in [Calls -> BOOLEAN]
    BY <1>20 DEF Typed, Live, SendAnswer, SetCaller, SetLeg, shared, dialogs
  <2>4. cdrs' = cdrs
    BY <1>20 DEF SendAnswer, SetCaller, SetLeg, shared, dialogs
  <2> QED BY <2>1, <2>2, <2>3, <2>4 DEF Typed
<1>21. CASE AnswerReturns(c)
  <2>1. h' \in [Calls -> Local]
    <3>1. \/ h' = [h EXCEPT ![c].pc = "unwind"]
          \/ h' = [h EXCEPT ![c].pc = "record", ![c].answered = TRUE]
      BY <1>21 DEF AnswerReturns, Goto, Return
    <3>2. CASE h' = [h EXCEPT ![c].pc = "unwind"]
      BY <3>2, Assigned, Counts DEF Typed, Labels
    <3>3. CASE h' = [h EXCEPT ![c].pc = "record", ![c].answered = TRUE]
      BY <3>3, Assigned, Counts DEF Typed, Labels
    <3> QED BY <3>1, <3>2, <3>3
  <2>2. leg' = leg
    BY <1>21 DEF AnswerReturns, SetCaller, SetLeg, shared, dialogs
  <2>3. /\ caller' \in [Calls -> {"none", "ended"} \union Live]
        /\ confirmed' \in [Calls -> BOOLEAN]
    BY <1>21 DEF Typed, Live, AnswerReturns, SetCaller, SetLeg, shared, dialogs
  <2>4. cdrs' = cdrs
    BY <1>21 DEF AnswerReturns, SetCaller, SetLeg, shared, dialogs
  <2> QED BY <2>1, <2>2, <2>3, <2>4 DEF Typed
<1>22. CASE StartRecording(c)
  <2>1. h' \in [Calls -> Local]
    <3>1. \/ h' = [h EXCEPT ![c].pc = "unwind"]
          \/ \E recording \in BOOLEAN :
               h' = [h EXCEPT ![c].pc = "addin", ![c].recorded = recording]
      BY <1>22 DEF StartRecording, Goto, Return
    <3>2. CASE h' = [h EXCEPT ![c].pc = "unwind"]
      BY <3>2, Assigned DEF Typed, Labels
    <3>3. CASE \E recording \in BOOLEAN :
                 h' = [h EXCEPT ![c].pc = "addin", ![c].recorded = recording]
      <4>1. PICK recording \in BOOLEAN :
              h' = [h EXCEPT ![c].pc = "addin", ![c].recorded = recording]
        BY <3>3
      <4> QED BY <4>1, Assigned DEF Typed, Labels
    <3> QED BY <3>1, <3>2, <3>3
  <2>2. leg' = leg
    BY <1>22 DEF StartRecording, SetCaller, SetLeg, shared, dialogs
  <2>3. /\ caller' \in [Calls -> {"none", "ended"} \union Live]
        /\ confirmed' \in [Calls -> BOOLEAN]
    BY <1>22 DEF Typed, Live, StartRecording, SetCaller, SetLeg, shared, dialogs
  <2>4. cdrs' = cdrs
    BY <1>22 DEF StartRecording, SetCaller, SetLeg, shared, dialogs
  <2> QED BY <2>1, <2>2, <2>3, <2>4 DEF Typed
<1>23. CASE AddMediaIn(c)
  <2>1. h' \in [Calls -> Local]
    <3>1. \/ h' = [h EXCEPT ![c].pc = "unwind"]
          \/ h' = [h EXCEPT ![c].pc = "addout", ![c].media = {"in"}]
      BY <1>23 DEF AddMediaIn, Goto, Return
    <3>2. CASE h' = [h EXCEPT ![c].pc = "unwind"]
      BY <3>2, Assigned, Counts DEF Typed, Labels
    <3>3. CASE h' = [h EXCEPT ![c].pc = "addout", ![c].media = {"in"}]
      BY <3>3, Assigned, Counts DEF Typed, Labels
    <3> QED BY <3>1, <3>2, <3>3
  <2>2. leg' = leg
    BY <1>23 DEF AddMediaIn, SetCaller, SetLeg, shared, dialogs
  <2>3. /\ caller' \in [Calls -> {"none", "ended"} \union Live]
        /\ confirmed' \in [Calls -> BOOLEAN]
    BY <1>23 DEF Typed, Live, AddMediaIn, SetCaller, SetLeg, shared, dialogs
  <2>4. cdrs' = cdrs
    BY <1>23 DEF AddMediaIn, SetCaller, SetLeg, shared, dialogs
  <2> QED BY <2>1, <2>2, <2>3, <2>4 DEF Typed
<1>24. CASE AddMediaOut(c)
  <2>1. h' \in [Calls -> Local]
    <3>1. \/ h' = [h EXCEPT ![c].pc = "unwind"]
          \/ h' = [h EXCEPT ![c].pc = "ack", ![c].media = {"in", "out"}]
      BY <1>24 DEF AddMediaOut, Goto, Return
    <3>2. CASE h' = [h EXCEPT ![c].pc = "unwind"]
      BY <3>2, Assigned, Counts DEF Typed, Labels
    <3>3. CASE h' = [h EXCEPT ![c].pc = "ack", ![c].media = {"in", "out"}]
      BY <3>3, Assigned, Counts DEF Typed, Labels
    <3> QED BY <3>1, <3>2, <3>3
  <2>2. leg' = leg
    BY <1>24 DEF AddMediaOut, SetCaller, SetLeg, shared, dialogs
  <2>3. /\ caller' \in [Calls -> {"none", "ended"} \union Live]
        /\ confirmed' \in [Calls -> BOOLEAN]
    BY <1>24 DEF Typed, Live, AddMediaOut, SetCaller, SetLeg, shared, dialogs
  <2>4. cdrs' = cdrs
    BY <1>24 DEF AddMediaOut, SetCaller, SetLeg, shared, dialogs
  <2> QED BY <2>1, <2>2, <2>3, <2>4 DEF Typed
<1>25. CASE Ack(c)
  <2>0. h[c].out \in Legs
    BY <1>25 DEF OutSound, Answering, At, Ack
  <2>1. h' \in [Calls -> Local]
    <3>1. \/ h' = [h EXCEPT ![c].pc = "unwind"]
          \/ h' = [h EXCEPT ![c].pc = "talk", ![c].bridged = TRUE]
          \/ h' = [h EXCEPT ![c].pc = "unwind", ![c].bridged = TRUE]
      BY <1>25 DEF Ack, Goto, Return
    <3>2. CASE h' = [h EXCEPT ![c].pc = "unwind"]
      BY <3>2, Assigned, Counts DEF Typed, Labels
    <3>3. CASE h' = [h EXCEPT ![c].pc = "talk", ![c].bridged = TRUE]
      BY <3>3, Assigned, Counts DEF Typed, Labels
    <3>4. CASE h' = [h EXCEPT ![c].pc = "unwind", ![c].bridged = TRUE]
      BY <3>4, Assigned, Counts DEF Typed, Labels
    <3> QED BY <3>1, <3>2, <3>3, <3>4
  <2>2. leg' \in [Calls -> [Legs -> {"none", "ended"} \union Live]]
    <3>1. \/ leg' = leg
          \/ leg' = [leg EXCEPT ![c][h[c].out] = (IF leg[c][h[c].out] = "answered" THEN "confirmed" ELSE leg[c][h[c].out])]
      BY <1>25, EightDefers DEF Ack, SetCaller, SetLeg, shared, dialogs
    <3>2. (IF leg[c][h[c].out] = "answered" THEN "confirmed" ELSE leg[c][h[c].out]) \in {"none", "ended"} \union Live
      BY <2>0 DEF Live, Typed
    <3>3. CASE leg' = leg
      BY <3>3 DEF Typed
    <3>4. CASE leg' = [leg EXCEPT ![c][h[c].out] = (IF leg[c][h[c].out] = "answered" THEN "confirmed" ELSE leg[c][h[c].out])]
      BY <3>2, <3>4, <2>0, Counts, LegAssigned DEF Typed
    <3> QED BY <3>1, <3>3, <3>4
  <2>3. /\ caller' \in [Calls -> {"none", "ended"} \union Live]
        /\ confirmed' \in [Calls -> BOOLEAN]
    BY <1>25 DEF Typed, Live, Ack, SetCaller, SetLeg, shared, dialogs
  <2>4. cdrs' = cdrs
    BY <1>25 DEF Ack, SetCaller, SetLeg, shared, dialogs
  <2> QED BY <2>1, <2>2, <2>3, <2>4 DEF Typed
<1>26. CASE CallerDone(c)
  <2>0. h[c].out \in Legs
    BY <1>26 DEF OutSound, Answering, At, CallerDone
  <2>1. h' \in [Calls -> Local]
    <3>1. \/ h' = [h EXCEPT ![c].pc = "unwind"]
          \/ h' = [h EXCEPT ![c].pc = "unwind", ![c].lost = h[c].lost \union {h[c].out}]
      BY <1>26 DEF CallerDone, Goto, Return
    <3>2. CASE h' = [h EXCEPT ![c].pc = "unwind"]
      BY <3>2, Assigned DEF Typed, Labels
    <3>3. CASE h' = [h EXCEPT ![c].pc = "unwind", ![c].lost = h[c].lost \union {h[c].out}]
      <4>1. h[c] \in Local
        BY DEF Typed
      <4>2. [h[c] EXCEPT !.lost = h[c].lost \union {h[c].out}] \in Local
        BY <2>0, <4>1, Assigned
      <4>3. [[h[c] EXCEPT !.lost = h[c].lost \union {h[c].out}] EXCEPT !.pc = "unwind"]
              \in Local
        BY <4>2, Assigned DEF Labels
      <4>4. h' = [h EXCEPT ![c] = [[h[c] EXCEPT !.lost = h[c].lost \union {h[c].out}]
                                     EXCEPT !.pc = "unwind"]]
        BY <3>3, <4>1 DEF Typed, Local
      <4> QED BY <4>3, <4>4 DEF Typed
    <3> QED BY <3>1, <3>2, <3>3
  <2>2. leg' \in [Calls -> [Legs -> {"none", "ended"} \union Live]]
    <3>1. leg' = [leg EXCEPT ![c][h[c].out] = "ended"] \/ leg' = leg
      BY <1>26 DEF CallerDone, SetCaller, SetLeg, shared, dialogs
    <3>2. "ended" \in {"none", "ended"} \union Live
      BY <2>0 DEF Live, Typed
    <3>3. CASE leg' = leg
      BY <3>3 DEF Typed
    <3>4. CASE leg' = [leg EXCEPT ![c][h[c].out] = "ended"]
      BY <3>2, <3>4, <2>0, Counts, LegAssigned DEF Typed
    <3> QED BY <3>1, <3>3, <3>4
  <2>3. /\ caller' \in [Calls -> {"none", "ended"} \union Live]
        /\ confirmed' \in [Calls -> BOOLEAN]
    BY <1>26 DEF Typed, Live, CallerDone, SetCaller, SetLeg, shared, dialogs
  <2>4. cdrs' = cdrs
    BY <1>26 DEF CallerDone, SetCaller, SetLeg, shared, dialogs
  <2> QED BY <2>1, <2>2, <2>3, <2>4 DEF Typed
<1>27. CASE CalleeEnded(c)
  <2>1. h' \in [Calls -> Local]
    BY <1>27, Assigned DEF Typed, Labels, CalleeEnded, Goto, Return
  <2>2. leg' = leg
    BY <1>27 DEF CalleeEnded, SetCaller, SetLeg, shared, dialogs
  <2>3. /\ caller' \in [Calls -> {"none", "ended"} \union Live]
        /\ confirmed' \in [Calls -> BOOLEAN]
    BY <1>27 DEF Typed, Live, CalleeEnded, SetCaller, SetLeg, shared, dialogs
  <2>4. cdrs' = cdrs
    BY <1>27 DEF CalleeEnded, SetCaller, SetLeg, shared, dialogs
  <2> QED BY <2>1, <2>2, <2>3, <2>4 DEF Typed
<1>28. CASE Unwind(c)
  <2>0. h[c].deferred > 0 => h[c].deferred - 1 \in 0..8 /\ h[c].deferred \in 1..8
    BY EightDefers DEF Typed, Local
  <2>1. h' \in [Calls -> Local]
    <3>1. \/ h' = [h EXCEPT ![c].pc = "done"]
          \/ h' = [h EXCEPT ![c].deferred = h[c].deferred - 1] /\ h[c].deferred > 0
          \/ /\ h' = [h EXCEPT ![c].deferred = h[c].deferred - 1,
                              ![c].lost = h[c].lost \union {0}]
             /\ h[c].deferred > 0
          \/ /\ h' = [h EXCEPT ![c].deferred = h[c].deferred - 1, ![c].lostIn = TRUE]
             /\ h[c].deferred > 0
      BY <1>28 DEF Unwind, DeferFails, Goto, Return
    <3>2. CASE h' = [h EXCEPT ![c].pc = "done"]
      BY <3>2, <2>0, Assigned, Counts DEF Typed, Labels
    <3>3. CASE h' = [h EXCEPT ![c].deferred = h[c].deferred - 1] /\ h[c].deferred > 0
      BY <3>3, <2>0, Assigned, Counts DEF Typed, Labels
    <3>4. h[c] \in Local
      BY DEF Typed
    <3>5. CASE /\ h' = [h EXCEPT ![c].deferred = h[c].deferred - 1,
                                ![c].lost = h[c].lost \union {0}]
               /\ h[c].deferred > 0
      <4>1. [h[c] EXCEPT !.lost = h[c].lost \union {0}] \in Local
        BY <3>4, Assigned, Counts
      <4>2. [[h[c] EXCEPT !.lost = h[c].lost \union {0}]
               EXCEPT !.deferred = h[c].deferred - 1] \in Local
        BY <2>0, <3>5, <4>1, Assigned
      <4>3. h' = [h EXCEPT ![c] = [[h[c] EXCEPT !.lost = h[c].lost \union {0}]
                                     EXCEPT !.deferred = h[c].deferred - 1]]
        BY <3>5, <3>4 DEF Typed, Local
      <4> QED BY <4>2, <4>3 DEF Typed
    <3>6. CASE /\ h' = [h EXCEPT ![c].deferred = h[c].deferred - 1, ![c].lostIn = TRUE]
               /\ h[c].deferred > 0
      <4>1. [h[c] EXCEPT !.lostIn = TRUE] \in Local
        BY <3>4, Assigned
      <4>2. [[h[c] EXCEPT !.lostIn = TRUE] EXCEPT !.deferred = h[c].deferred - 1] \in Local
        BY <2>0, <3>6, <4>1, Assigned
      <4>3. h' = [h EXCEPT ![c] = [[h[c] EXCEPT !.lostIn = TRUE]
                                     EXCEPT !.deferred = h[c].deferred - 1]]
        BY <3>6, <3>4 DEF Typed, Local
      <4> QED BY <4>2, <4>3 DEF Typed
    <3> QED BY <3>1, <3>2, <3>3, <3>5, <3>6
  <2>2. leg' \in [Calls -> [Legs -> {"none", "ended"} \union Live]]
    <3>1. \/ leg' = leg
          \/ leg' = [leg EXCEPT ![c][0] = "ended"]
      BY <1>28, EightDefers DEF Unwind, DeferFails, RunDefer, WriteOut, WriteIn, Write,
         Limiter!Leave, Defers, SetCaller, SetLeg, shared, dialogs
    <3>2. "ended" \in {"none", "ended"} \union Live
      BY <2>0 DEF Live, Typed
    <3>3. CASE leg' = leg
      BY <3>3 DEF Typed
    <3>4. CASE leg' = [leg EXCEPT ![c][0] = "ended"]
      BY <3>2, <3>4, <2>0, Counts, LegAssigned DEF Typed
    <3> QED BY <3>1, <3>3, <3>4
  <2>3. /\ caller' \in [Calls -> {"none", "ended"} \union Live]
        /\ confirmed' \in [Calls -> BOOLEAN]
    BY <1>28 DEF Typed, Live, Unwind, DeferFails, RunDefer, WriteOut, WriteIn, Write, Limiter!Leave,
       Defers, SetCaller, SetLeg, shared, dialogs
  <2>4. cdrs' \in [Calls -> Seq(Record)]
    <3>1. \/ cdrs' = cdrs
          \/ \E dir \in {"in", "out"}, answered \in BOOLEAN : Write(c, dir, answered)
      BY <1>28 DEF Unwind, DeferFails, RunDefer, WriteOut, WriteIn, shared, dialogs, Typed, Local
    <3>2. CASE cdrs' = cdrs
      BY <3>2 DEF Typed
    <3>3. CASE \E dir \in {"in", "out"}, answered \in BOOLEAN : Write(c, dir, answered)
      <4>1. PICK dir \in {"in", "out"}, answered \in BOOLEAN : Write(c, dir, answered)
        BY <3>3
      <4> DEFINE rec == [dir |-> dir, answered |-> answered,
                         bridged |-> dir = "out" /\ h[c].bridged, recorded |-> h[c].recorded]
      <4>2. h[c].bridged \in BOOLEAN /\ h[c].recorded \in BOOLEAN
        BY DEF Typed, Local
      <4>3. rec \in Record
        BY <4>2 DEF Record
      <4>4. cdrs' = [cdrs EXCEPT ![c] = Append(cdrs[c], rec)]
        BY <4>1 DEF Write
      <4> HIDE DEF rec
      <4>5. Append(cdrs[c], rec) \in Seq(Record)
        BY <4>3 DEF Typed
      <4> QED BY <4>4, <4>5 DEF Typed
    <3> QED BY <3>1, <3>2, <3>3
  <2> QED BY <2>1, <2>2, <2>3, <2>4 DEF Typed
<1>29. CASE SixHours(c)
  <2>1. h' \in [Calls -> Local]
    BY <1>29, Assigned DEF Typed, Labels, SixHours, Goto, Return
  <2>2. leg' = leg
    BY <1>29 DEF SixHours, SetCaller, SetLeg, shared, dialogs
  <2>3. /\ caller' \in [Calls -> {"none", "ended"} \union Live]
        /\ confirmed' \in [Calls -> BOOLEAN]
    BY <1>29 DEF Typed, Live, SixHours, SetCaller, SetLeg, shared, dialogs
  <2>4. cdrs' = cdrs
    BY <1>29 DEF SixHours, SetCaller, SetLeg, shared, dialogs
  <2> QED BY <2>1, <2>2, <2>3, <2>4 DEF Typed
<1>30. CASE AgentAnswers(c)
  <2>1. h' \in [Calls -> Local]
    BY <1>30 DEF Typed, AgentAnswers
  <2>2. leg' = leg
    BY <1>30 DEF AgentAnswers, SetCaller, SetLeg, shared, dialogs
  <2>3. /\ caller' \in [Calls -> {"none", "ended"} \union Live]
        /\ confirmed' \in [Calls -> BOOLEAN]
    BY <1>30 DEF Typed, Live, AgentAnswers, SetCaller, SetLeg, shared, dialogs
  <2>4. cdrs' = cdrs
    BY <1>30 DEF AgentAnswers, SetCaller, SetLeg, shared, dialogs
  <2> QED BY <2>1, <2>2, <2>3, <2>4 DEF Typed
<1>31. CASE CallerConfirms(c)
  <2>1. h' \in [Calls -> Local]
    BY <1>31 DEF Typed, CallerConfirms
  <2>2. leg' = leg
    BY <1>31 DEF CallerConfirms, SetCaller, SetLeg, shared, dialogs
  <2>3. /\ caller' \in [Calls -> {"none", "ended"} \union Live]
        /\ confirmed' \in [Calls -> BOOLEAN]
    BY <1>31 DEF Typed, Live, CallerConfirms, SetCaller, SetLeg, shared, dialogs
  <2>4. cdrs' = cdrs
    BY <1>31 DEF CallerConfirms, SetCaller, SetLeg, shared, dialogs
  <2> QED BY <2>1, <2>2, <2>3, <2>4 DEF Typed
<1>32. CASE CallerHangsUp(c)
  <2>1. h' \in [Calls -> Local]
    BY <1>32 DEF Typed, CallerHangsUp
  <2>2. leg' = leg
    BY <1>32 DEF CallerHangsUp, SetCaller, SetLeg, shared, dialogs
  <2>3. /\ caller' \in [Calls -> {"none", "ended"} \union Live]
        /\ confirmed' \in [Calls -> BOOLEAN]
    BY <1>32 DEF Typed, Live, CallerHangsUp, SetCaller, SetLeg, shared, dialogs
  <2>4. cdrs' = cdrs
    BY <1>32 DEF CallerHangsUp, SetCaller, SetLeg, shared, dialogs
  <2> QED BY <2>1, <2>2, <2>3, <2>4 DEF Typed
<1>33. ASSUME NEW l \in Legs, CalleeHangsUp(c, l) PROVE Typed'
  <2>1. h' \in [Calls -> Local]
    BY <1>33 DEF Typed, CalleeHangsUp
  <2>2. leg' \in [Calls -> [Legs -> {"none", "ended"} \union Live]]
    <3>1. leg' = [leg EXCEPT ![c][l] = "ended"]
      BY <1>33 DEF CalleeHangsUp, SetCaller, SetLeg, shared, dialogs
    <3>2. "ended" \in {"none", "ended"} \union Live
      BY DEF Live
    <3> QED BY <3>1, <3>2, Counts, LegAssigned DEF Typed
  <2>3. /\ caller' \in [Calls -> {"none", "ended"} \union Live]
        /\ confirmed' \in [Calls -> BOOLEAN]
    BY <1>33 DEF Typed, Live, CalleeHangsUp, SetCaller, SetLeg, shared, dialogs
  <2>4. cdrs' = cdrs
    BY <1>33 DEF CalleeHangsUp, SetCaller, SetLeg, shared, dialogs
  <2> QED BY <2>1, <2>2, <2>3, <2>4 DEF Typed
<1> QED BY <1>1, <1>2, <1>3, <1>4, <1>5, <1>6, <1>7, <1>8, <1>9, <1>10, <1>11, <1>12,
   <1>13, <1>14, <1>15, <1>16, <1>17, <1>18, <1>19, <1>20, <1>21, <1>22, <1>23, <1>24,
   <1>25, <1>26, <1>27, <1>28, <1>29, <1>30, <1>31, <1>32, <1>33 DEF CallStep,
   Goroutine, Setup, Dialling, Bridging, CalleeDone, ClosedCalleeDone, Parties

\* What a step leaves of the local variables (src/pbx.go:78-1047).
Keeps(c) == /\ h'[c].out = h[c].out /\ h'[c].next = h[c].next
            /\ h'[c].media = h[c].media /\ h'[c].answered = h[c].answered
            /\ h'[c].recorded = h[c].recorded

\* The alternatives of Ack (src/pbx.go:905-960).
LEMMA AckAlternatives ==
  ASSUME NEW c \in Calls, Typed, OutSound(c), Ack(c)
  PROVE  /\ h[c].pc = "ack" /\ h[c].out \in Legs
         /\ \/ /\ h' = [h EXCEPT ![c].pc = "unwind"]
               /\ leg' = leg
            \/ /\ SetLeg(c, h[c].out, IF leg[c][h[c].out] = "answered" THEN "confirmed"
                                      ELSE leg[c][h[c].out])
               /\ \/ h' = [h EXCEPT ![c].pc = "talk", ![c].bridged = TRUE]
                  \/ h' = [h EXCEPT ![c].pc = "unwind", ![c].bridged = TRUE]
  BY DEF Ack, OutSound, Answering, At, Goto, Return, SetLeg

\* The defers in the order they run (src/pbx.go:103-186, 640-700).
LEMMA UnwindAlternatives ==
  ASSUME NEW c \in Calls, Typed, Unwind(c)
  PROVE  /\ h[c].pc = "unwind" /\ h[c].deferred \in 0..8
         /\ \/ /\ h[c].deferred = 0 /\ h' = [h EXCEPT ![c].pc = "done"]
               /\ UNCHANGED <<dialogs, cdrs, shared>>
            \/ /\ h[c].deferred > 0
               /\ h' = [h EXCEPT ![c].deferred = h[c].deferred - 1]
               /\ \/ /\ h[c].deferred = 8 /\ WriteOut(c)
                     /\ UNCHANGED <<dialogs, shared>>
                  \/ /\ h[c].deferred = 7 /\ SetLeg(c, 0, "ended")
                     /\ UNCHANGED <<caller, confirmed, cdrs, shared>>
                  \/ /\ h[c].deferred \in {6, 5, 2, 1}
                     /\ UNCHANGED <<dialogs, cdrs>>
                  \/ /\ h[c].deferred = 4 /\ SetCaller(c, "ended")
                     /\ UNCHANGED <<leg, confirmed, cdrs, shared>>
                  \/ /\ h[c].deferred = 3 /\ WriteIn(c)
                     /\ UNCHANGED <<dialogs, shared>>
            \/ /\ h[c].deferred = 7 /\ leg[c][0] \in Live
               /\ h' = [h EXCEPT ![c].deferred = h[c].deferred - 1,
                                ![c].lost = h[c].lost \union {0}]
               /\ UNCHANGED <<dialogs, cdrs, shared>>
            \/ /\ h[c].deferred = 4 /\ caller[c] \in Live
               /\ h' = [h EXCEPT ![c].deferred = h[c].deferred - 1, ![c].lostIn = TRUE]
               /\ UNCHANGED <<dialogs, cdrs, shared>>
<1>1. h[c].deferred \in 0..8
  BY EightDefers DEF Typed, Local
<1>5. h[c].pc = "unwind"
  BY DEF Unwind, At
<1>2. CASE h[c].deferred = 0
  BY <1>1, <1>2 DEF Unwind, At, Goto
<1>4. CASE h[c].deferred > 0 /\ DeferFails(c, Defers[h[c].deferred])
  <2>1. \/ Defers[h[c].deferred] = "hangupOut" /\ h[c].deferred = 7
        \/ Defers[h[c].deferred] = "hangupIn" /\ h[c].deferred = 4
    BY <1>1, <1>4 DEF DeferFails, Defers
  <2> QED BY <1>1, <1>4, <2>1, <1>5 DEF DeferFails
<1>3. CASE /\ h[c].deferred > 0 /\ h' = [h EXCEPT ![c].deferred = h[c].deferred - 1]
           /\ RunDefer(c, Defers[h[c].deferred])
  <2>1. /\ h' = [h EXCEPT ![c].deferred = h[c].deferred - 1]
        /\ RunDefer(c, Defers[h[c].deferred])
    BY <1>3
  <2>2. CASE h[c].deferred = 8
    BY <1>3, <2>1, <2>2 DEF Unwind, At, RunDefer, Defers
  <2>3. CASE h[c].deferred = 7
    BY <1>3, <2>1, <2>3 DEF Unwind, At, RunDefer, Defers
  <2>4. CASE h[c].deferred \in {6, 5, 2, 1}
    BY <1>3, <2>1, <2>4 DEF Unwind, At, RunDefer, Defers, dialogs
  <2>5. CASE h[c].deferred = 4
    BY <1>3, <2>1, <2>5 DEF Unwind, At, RunDefer, Defers
  <2>6. CASE h[c].deferred = 3
    BY <1>3, <2>1, <2>6 DEF Unwind, At, RunDefer, Defers
  <2> QED BY <1>1, <1>3, <2>2, <2>3, <2>4, <2>5, <2>6
<1> QED BY <1>1, <1>2, <1>3, <1>4 DEF Unwind

\* The caller is gone: the callee is hung up or left (src/pbx.go:976-994).
LEMMA CallerDoneAlternatives ==
  ASSUME NEW c \in Calls, Typed, OutSound(c), CallerDone(c)
  PROVE  /\ h[c].pc = "talk" /\ h[c].out \in Legs
         /\ h'[c].pc = "unwind" /\ h'[c].deferred = h[c].deferred
         /\ Keeps(c) /\ h'[c].bridged = h[c].bridged /\ h'[c].fallback = h[c].fallback
         /\ leg' = leg \/ SetLeg(c, h[c].out, "ended")
         /\ UNCHANGED <<caller, confirmed, cdrs, shared>>
<1>1. h[c].pc = "talk" /\ h[c].out \in Legs
  BY DEF CallerDone, OutSound, Answering, At
<1>2. CASE Return(c) /\ SetLeg(c, h[c].out, "ended")
  BY <1>1, <1>2 DEF CallerDone, Return, Goto, Keeps, Typed, Local
<1>3. CASE /\ h' = [h EXCEPT ![c].pc = "unwind", ![c].lost = @ \union {h[c].out}]
           /\ UNCHANGED leg
  BY <1>1, <1>3 DEF CallerDone, Keeps, Typed, Local
<1> QED BY <1>2, <1>3 DEF CallerDone

\* Ack goes on or returns, and changes nothing but bridged (src/pbx.go:905-960).
LEMMA AckLocal ==
  ASSUME NEW c \in Calls, Typed, OutSound(c), Ack(c)
  PROVE  /\ h'[c].pc \in {"talk", "unwind"} /\ h'[c].deferred = h[c].deferred
         /\ Keeps(c) /\ (h'[c].bridged = h[c].bridged \/ h'[c].bridged)
<1> USE DEF Keeps, Typed, Local
<1>1. CASE h' = [h EXCEPT ![c].pc = "unwind"]
  BY <1>1
<1>2. CASE h' = [h EXCEPT ![c].pc = "talk", ![c].bridged = TRUE]
  BY <1>2
<1>3. CASE h' = [h EXCEPT ![c].pc = "unwind", ![c].bridged = TRUE]
  BY <1>3
<1> QED BY <1>1, <1>2, <1>3, AckAlternatives

\* The defers change no local variable (src/pbx.go:78-1047).
LEMMA UnwindLocal ==
  ASSUME NEW c \in Calls, Typed, Unwind(c)
  PROVE  /\ Keeps(c) /\ h'[c].bridged = h[c].bridged
         /\ \/ h[c].deferred = 0 /\ h'[c].deferred = 0 /\ h'[c].pc = "done"
            \/ /\ h[c].deferred \in 1..8 /\ h'[c].deferred = h[c].deferred - 1
               /\ h'[c].pc = "unwind"
<1> USE DEF Keeps, Typed, Local
<1>1. CASE h[c].deferred = 0 /\ h' = [h EXCEPT ![c].pc = "done"]
  BY <1>1
<1>2. CASE /\ h[c].deferred > 0 /\ h[c].deferred \in 0..8 /\ h[c].pc = "unwind"
           /\ h' = [h EXCEPT ![c].deferred = h[c].deferred - 1]
  BY <1>2
<1>3. CASE /\ h[c].deferred = 7 /\ h[c].pc = "unwind"
           /\ h' = [h EXCEPT ![c].deferred = h[c].deferred - 1,
                            ![c].lost = h[c].lost \union {0}]
  BY <1>3
<1>4. CASE /\ h[c].deferred = 4 /\ h[c].pc = "unwind"
           /\ h' = [h EXCEPT ![c].deferred = h[c].deferred - 1, ![c].lostIn = TRUE]
  BY <1>4
<1> QED BY <1>1, <1>2, <1>3, <1>4, UnwindAlternatives

\* What the defers leave of the dialogs, and what the hang ups that failed are
\* remembered by (src/pbx.go:183-185, 672).
LEMMA UnwindLost ==
  ASSUME NEW c \in Calls, Typed, Unwind(c)
  PROVE  /\ h[c].lost \subseteq h'[c].lost /\ (h[c].lostIn => h'[c].lostIn)
         /\ h[c].deferred # 7 => leg' = leg
         /\ h[c].deferred = 7 => \/ SetLeg(c, 0, "ended")
                                 \/ leg' = leg /\ 0 \in h'[c].lost
         /\ h[c].deferred # 4 => caller' = caller
         /\ h[c].deferred = 4 => \/ SetCaller(c, "ended")
                                 \/ caller' = caller /\ h'[c].lostIn
         /\ h[c].deferred \notin {3, 8} => cdrs' = cdrs
         /\ h[c].deferred = 8 => WriteOut(c)
         /\ h[c].deferred = 3 => WriteIn(c)
<1> USE DEF Typed, Local
<1>1. h[c].deferred \in 0..8 /\ h[c].pc = "unwind"
  BY EightDefers DEF Unwind, At
<1>2. CASE h[c].deferred = 0 /\ Goto(c, "done") /\ UNCHANGED <<dialogs, cdrs, shared>>
  BY <1>2 DEF Goto, dialogs
<1>3. CASE /\ h[c].deferred > 0 /\ h' = [h EXCEPT ![c].deferred = @ - 1]
           /\ RunDefer(c, Defers[h[c].deferred])
  <2>1. h'[c].lost = h[c].lost /\ h'[c].lostIn = h[c].lostIn
    BY <1>3
  <2>2. RunDefer(c, Defers[h[c].deferred])
    BY <1>3
  <2>3. CASE h[c].deferred = 8
    BY <2>1, <2>2, <2>3 DEF RunDefer, Defers, dialogs
  <2>4. CASE h[c].deferred = 7
    BY <2>1, <2>2, <2>4 DEF RunDefer, Defers
  <2>5. CASE h[c].deferred \in {6, 5, 2, 1}
    BY <2>1, <2>2, <2>5 DEF RunDefer, Defers, dialogs
  <2>6. CASE h[c].deferred = 4
    BY <2>1, <2>2, <2>6 DEF RunDefer, Defers
  <2>7. CASE h[c].deferred = 3
    BY <2>1, <2>2, <2>7 DEF RunDefer, Defers, dialogs
  <2> QED BY <1>1, <1>3, <2>3, <2>4, <2>5, <2>6, <2>7
<1>4. CASE h[c].deferred > 0 /\ DeferFails(c, Defers[h[c].deferred])
  <2>1. UNCHANGED <<leg, caller, cdrs>>
    BY <1>4 DEF DeferFails, dialogs
  <2>2. CASE h[c].deferred = 7
    <3>a. Defers[h[c].deferred] = "hangupOut"
      BY <2>2 DEF Defers
    <3>1. h' = [h EXCEPT ![c].deferred = @ - 1, ![c].lost = @ \union {0}]
      BY <1>4, <3>a DEF DeferFails
    <3>2. h'[c].lost = h[c].lost \union {0} /\ h'[c].lostIn = h[c].lostIn
      BY <3>1
    <3> QED BY <2>1, <2>2, <3>2
  <2>3. CASE h[c].deferred = 4
    <3>a. Defers[h[c].deferred] = "hangupIn"
      BY <2>3 DEF Defers
    <3>1. h' = [h EXCEPT ![c].deferred = @ - 1, ![c].lostIn = TRUE]
      BY <1>4, <3>a DEF DeferFails
    <3>2. h'[c].lost = h[c].lost /\ h'[c].lostIn
      BY <3>1
    <3> QED BY <2>1, <2>3, <3>2
  <2>4. h[c].deferred \in {4, 7}
    BY <1>1, <1>4 DEF DeferFails, Defers
  <2> QED BY <2>2, <2>3, <2>4
<1> QED BY <1>2, <1>3, <1>4 DEF Unwind

\* What SetLeg does to the call's legs (src/pbx.go:645-800).
LEMMA LegSet ==
  ASSUME NEW c \in Calls, Typed, NEW l \in Legs, NEW s,
         SetLeg(c, l, s)
  PROVE  \A k \in Legs : leg'[c][k] = IF k = l THEN s ELSE leg[c][k]
<1>1. leg[c] \in [Legs -> {"none", "ended"} \union Live]
  BY DEF Typed
<1>2. leg'[c] = [leg[c] EXCEPT ![l] = s]
  BY DEF Typed, SetLeg
<1> QED BY <1>1, <1>2

\* The defers installed are those of the place reached (src/pbx.go:78-1047).
LEMMA DefersStep ==
  ASSUME NEW c \in Calls, Typed, DefersSound(c), OutSound(c), CallStep(c)
  PROVE  DefersSound(c)'
<1>1. CASE Arrive(c)
  BY <1>1 DEF Typed, DefersSound, Answering, Local, Labels, Arrive, At, Goto, Return,
     SetCaller, SetLeg, shared, dialogs
<1>2. CASE Refuse(c)
  BY <1>2 DEF Typed, DefersSound, Answering, Local, Labels, Refuse, At, Goto, Return,
     SetCaller, SetLeg, shared, dialogs
<1>3. CASE Admit(c)
  BY <1>3 DEF Typed, DefersSound, Answering, Local, Labels, Admit, Limiter!Admit, At,
     Goto, Return, SetCaller, SetLeg, shared, dialogs
<1>4. CASE Check(c)
  BY <1>4 DEF Typed, DefersSound, Answering, Local, Labels, Check, At, Goto, Return,
     SetCaller, SetLeg, shared, dialogs
<1>5. CASE Unauthorized(c)
  BY <1>5 DEF Typed, DefersSound, Answering, Local, Labels, Unauthorized, Respond, At,
     Goto, Return, SetCaller, SetLeg, shared, dialogs
<1>6. CASE RejectRoute(c)
  BY <1>6 DEF Typed, DefersSound, Answering, Local, Labels, RejectRoute, Respond, At,
     Goto, Return, SetCaller, SetLeg, shared, dialogs
<1>7. CASE MatchRoute(c)
  BY <1>7 DEF Typed, DefersSound, Answering, Local, Labels, MatchRoute, At, Goto,
     Return, SetCaller, SetLeg, shared, dialogs
<1>8. CASE AgentLeaves(c)
  BY <1>8 DEF Typed, DefersSound, Answering, Local, Labels, AgentLeaves, At, Goto,
     Return, SetCaller, SetLeg, shared, dialogs
<1>9. CASE RejectDial(c)
  BY <1>9 DEF Typed, DefersSound, Answering, Local, Labels, RejectDial, Respond, At,
     Goto, Return, SetCaller, SetLeg, shared, dialogs
<1>10. CASE StoreBridge(c)
  BY <1>10 DEF Typed, DefersSound, Answering, Local, Labels, StoreBridge, At, Goto,
     Return, SetCaller, SetLeg, shared, dialogs
<1>11. CASE DialPrimary(c)
  BY <1>11 DEF Typed, DefersSound, Answering, Local, Labels, DialPrimary, At, Goto,
     Return, SetCaller, SetLeg, shared, dialogs
<1>12. CASE PrimaryAnswers(c)
  BY <1>12 DEF Typed, DefersSound, Answering, Local, Labels, PrimaryAnswers, At, Goto,
     Return, SetCaller, SetLeg, shared, dialogs
<1>13. CASE EarlyMedia(c)
  BY <1>13 DEF Typed, DefersSound, Answering, Local, Labels, EarlyMedia, At, Goto,
     Return, SetCaller, SetLeg, shared, dialogs
<1>14. CASE PrimaryFails(c)
  BY <1>14 DEF Typed, DefersSound, Answering, Local, Labels, PrimaryFails, At, Goto,
     Return, SetCaller, SetLeg, shared, dialogs
<1>15. CASE NextFallback(c)
  BY <1>15 DEF Typed, DefersSound, Answering, Local, Labels, NextFallback,
     FallbackError, At, Goto, Return, SetCaller, SetLeg, shared, dialogs
<1>16. CASE FallbackFails(c)
  BY <1>16 DEF Typed, DefersSound, Answering, Local, Labels, FallbackFails,
     FallbackError, At, Goto, Return, SetCaller, SetLeg, shared, dialogs
<1>17. CASE FallbackEarlyMedia(c)
  BY <1>17 DEF Typed, DefersSound, Answering, Local, Labels, FallbackEarlyMedia,
     FallbackError, At, Goto, Return, SetCaller, SetLeg, shared, dialogs
<1>18. CASE FallbackAnswers(c)
  BY <1>18 DEF Typed, DefersSound, Answering, Local, Labels, FallbackAnswers, At, Goto,
     Return, SetCaller, SetLeg, shared, dialogs
<1>19. CASE AnswerFails(c)
  BY <1>19 DEF Typed, DefersSound, Answering, Local, Labels, AnswerFails, At, Goto,
     Return, SetCaller, SetLeg, shared, dialogs
<1>20. CASE SendAnswer(c)
  BY <1>20 DEF Typed, DefersSound, Answering, Local, Labels, SendAnswer, At, Goto,
     Return, SetCaller, SetLeg, shared, dialogs
<1>21. CASE AnswerReturns(c)
  BY <1>21 DEF Typed, DefersSound, Answering, Local, Labels, AnswerReturns, At, Goto,
     Return, SetCaller, SetLeg, shared, dialogs
<1>22. CASE StartRecording(c)
  BY <1>22 DEF Typed, DefersSound, Answering, Local, Labels, StartRecording, At, Goto,
     Return, SetCaller, SetLeg, shared, dialogs
<1>23. CASE AddMediaIn(c)
  BY <1>23 DEF Typed, DefersSound, Answering, Local, Labels, AddMediaIn, At, Goto,
     Return, SetCaller, SetLeg, shared, dialogs
<1>24. CASE AddMediaOut(c)
  BY <1>24 DEF Typed, DefersSound, Answering, Local, Labels, AddMediaOut, At, Goto,
     Return, SetCaller, SetLeg, shared, dialogs
<1>25. CASE Ack(c)
  BY <1>25, AckAlternatives, AckLocal DEF DefersSound, Answering, Labels, Keeps
<1>26. CASE CallerDone(c)
  BY <1>26, CallerDoneAlternatives DEF DefersSound, Answering, Labels
<1>27. CASE CalleeEnded(c)
  BY <1>27 DEF Typed, DefersSound, Answering, Local, Labels, CalleeEnded, At, Goto,
     Return, SetCaller, SetLeg, shared, dialogs
<1>28. CASE Unwind(c)
  BY <1>28, UnwindAlternatives, UnwindLocal DEF DefersSound, Answering, Labels, Keeps
<1>29. CASE SixHours(c)
  BY <1>29 DEF Typed, DefersSound, Answering, Local, Labels, SixHours, At, Goto, Return,
     SetCaller, SetLeg, shared, dialogs
<1>30. CASE AgentAnswers(c)
  BY <1>30 DEF Typed, DefersSound, Answering, Local, Labels, AgentAnswers, At, Goto,
     Return, SetCaller, SetLeg, shared, dialogs
<1>31. CASE CallerConfirms(c)
  BY <1>31 DEF Typed, DefersSound, Answering, Local, Labels, CallerConfirms, At, Goto,
     Return, SetCaller, SetLeg, shared, dialogs
<1>32. CASE CallerHangsUp(c)
  BY <1>32 DEF Typed, DefersSound, Answering, Local, Labels, CallerHangsUp, At, Goto,
     Return, SetCaller, SetLeg, shared, dialogs
<1>33. ASSUME NEW l \in Legs, CalleeHangsUp(c, l) PROVE DefersSound(c)'
  BY <1>33 DEF Typed, DefersSound, Answering, Local, Labels, CalleeHangsUp, At, Goto,
     Return, SetCaller, SetLeg, shared, dialogs
<1> QED BY <1>1, <1>2, <1>3, <1>4, <1>5, <1>6, <1>7, <1>8, <1>9, <1>10, <1>11, <1>12,
   <1>13, <1>14, <1>15, <1>16, <1>17, <1>18, <1>19, <1>20, <1>21, <1>22, <1>23, <1>24,
   <1>25, <1>26, <1>27, <1>28, <1>29, <1>30, <1>31, <1>32, <1>33 DEF CallStep,
   Goroutine, Setup, Dialling, Bridging, CalleeDone, ClosedCalleeDone, Parties

\* outDialog is assigned in time (src/pbx.go:640-800).
LEMMA OutStep ==
  ASSUME NEW c \in Calls, Typed, OutSound(c), CallStep(c)
  PROVE  OutSound(c)'
<1>1. CASE Arrive(c)
  BY <1>1, ConfAssumption DEF Typed, OutSound, Answering, Local, Labels, Legs, NoLeg,
     Arrive, At, Goto, Return, SetCaller, SetLeg, shared, dialogs
<1>2. CASE Refuse(c)
  BY <1>2, ConfAssumption DEF Typed, OutSound, Answering, Local, Labels, Legs, NoLeg,
     Refuse, At, Goto, Return, SetCaller, SetLeg, shared, dialogs
<1>3. CASE Admit(c)
  BY <1>3, ConfAssumption DEF Typed, OutSound, Answering, Local, Labels, Legs, NoLeg,
     Admit, Limiter!Admit, At, Goto, Return, SetCaller, SetLeg, shared, dialogs
<1>4. CASE Check(c)
  BY <1>4, ConfAssumption DEF Typed, OutSound, Answering, Local, Labels, Legs, NoLeg,
     Check, At, Goto, Return, SetCaller, SetLeg, shared, dialogs
<1>5. CASE Unauthorized(c)
  BY <1>5, ConfAssumption DEF Typed, OutSound, Answering, Local, Labels, Legs, NoLeg,
     Unauthorized, Respond, At, Goto, Return, SetCaller, SetLeg, shared, dialogs
<1>6. CASE RejectRoute(c)
  BY <1>6, ConfAssumption DEF Typed, OutSound, Answering, Local, Labels, Legs, NoLeg,
     RejectRoute, Respond, At, Goto, Return, SetCaller, SetLeg, shared, dialogs
<1>7. CASE MatchRoute(c)
  BY <1>7, ConfAssumption DEF Typed, OutSound, Answering, Local, Labels, Legs, NoLeg,
     MatchRoute, At, Goto, Return, SetCaller, SetLeg, shared, dialogs
<1>8. CASE AgentLeaves(c)
  BY <1>8, ConfAssumption DEF Typed, OutSound, Answering, Local, Labels, Legs, NoLeg,
     AgentLeaves, At, Goto, Return, SetCaller, SetLeg, shared, dialogs
<1>9. CASE RejectDial(c)
  BY <1>9, ConfAssumption DEF Typed, OutSound, Answering, Local, Labels, Legs, NoLeg,
     RejectDial, Respond, At, Goto, Return, SetCaller, SetLeg, shared, dialogs
<1>10. CASE StoreBridge(c)
  BY <1>10, ConfAssumption DEF Typed, OutSound, Answering, Local, Labels, Legs, NoLeg,
     StoreBridge, At, Goto, Return, SetCaller, SetLeg, shared, dialogs
<1>11. CASE DialPrimary(c)
  BY <1>11, ConfAssumption DEF Typed, OutSound, Answering, Local, Labels, Legs, NoLeg,
     DialPrimary, At, Goto, Return, SetCaller, SetLeg, shared, dialogs
<1>12. CASE PrimaryAnswers(c)
  BY <1>12, ConfAssumption DEF Typed, OutSound, Answering, Local, Labels, Legs, NoLeg,
     PrimaryAnswers, At, Goto, Return, SetCaller, SetLeg, shared, dialogs
<1>13. CASE EarlyMedia(c)
  BY <1>13, ConfAssumption DEF Typed, OutSound, Answering, Local, Labels, Legs, NoLeg,
     EarlyMedia, At, Goto, Return, SetCaller, SetLeg, shared, dialogs
<1>14. CASE PrimaryFails(c)
  BY <1>14, ConfAssumption DEF Typed, OutSound, Answering, Local, Labels, Legs, NoLeg,
     PrimaryFails, At, Goto, Return, SetCaller, SetLeg, shared, dialogs
<1>15. CASE NextFallback(c)
  BY <1>15, ConfAssumption DEF Typed, OutSound, Answering, Local, Labels, Legs, NoLeg,
     NextFallback, FallbackError, At, Goto, Return, SetCaller, SetLeg, shared, dialogs
<1>16. CASE FallbackFails(c)
  BY <1>16, ConfAssumption DEF Typed, OutSound, Answering, Local, Labels, Legs, NoLeg,
     FallbackFails, FallbackError, At, Goto, Return, SetCaller, SetLeg, shared, dialogs
<1>17. CASE FallbackEarlyMedia(c)
  BY <1>17, ConfAssumption DEF Typed, OutSound, Answering, Local, Labels, Legs, NoLeg,
     FallbackEarlyMedia, FallbackError, At, Goto, Return, SetCaller, SetLeg, shared,
     dialogs
<1>18. CASE FallbackAnswers(c)
  BY <1>18, ConfAssumption DEF Typed, OutSound, Answering, Local, Labels, Legs, NoLeg,
     FallbackAnswers, At, Goto, Return, SetCaller, SetLeg, shared, dialogs
<1>19. CASE AnswerFails(c)
  BY <1>19, ConfAssumption DEF Typed, OutSound, Answering, Local, Labels, Legs, NoLeg,
     AnswerFails, At, Goto, Return, SetCaller, SetLeg, shared, dialogs
<1>20. CASE SendAnswer(c)
  BY <1>20, ConfAssumption DEF Typed, OutSound, Answering, Local, Labels, Legs, NoLeg,
     SendAnswer, At, Goto, Return, SetCaller, SetLeg, shared, dialogs
<1>21. CASE AnswerReturns(c)
  BY <1>21, ConfAssumption DEF Typed, OutSound, Answering, Local, Labels, Legs, NoLeg,
     AnswerReturns, At, Goto, Return, SetCaller, SetLeg, shared, dialogs
<1>22. CASE StartRecording(c)
  BY <1>22, ConfAssumption DEF Typed, OutSound, Answering, Local, Labels, Legs, NoLeg,
     StartRecording, At, Goto, Return, SetCaller, SetLeg, shared, dialogs
<1>23. CASE AddMediaIn(c)
  BY <1>23, ConfAssumption DEF Typed, OutSound, Answering, Local, Labels, Legs, NoLeg,
     AddMediaIn, At, Goto, Return, SetCaller, SetLeg, shared, dialogs
<1>24. CASE AddMediaOut(c)
  <2>1. h[c].pc = "addout" /\ h'[c].pc \in {"ack", "unwind"}
    BY <1>24 DEF AddMediaOut, At, Goto, Return, Typed, Local
  <2>2. h'[c].out = h[c].out /\ h'[c].next = h[c].next
    BY <1>24 DEF AddMediaOut, At, Goto, Return, Typed, Local
  <2>3. h'[c].deferred = h[c].deferred
    BY <1>24 DEF AddMediaOut, At, Goto, Return, Typed, Local
  <2> QED BY <2>1, <2>2, <2>3 DEF OutSound, Answering, Labels
<1>25. CASE Ack(c)
  BY <1>25, AckAlternatives, AckLocal, ConfAssumption DEF OutSound, Answering, Labels,
     Legs, NoLeg, Keeps
<1>26. CASE CallerDone(c)
  BY <1>26, CallerDoneAlternatives DEF OutSound, Answering, Labels, Keeps
<1>27. CASE CalleeEnded(c)
  BY <1>27, ConfAssumption DEF Typed, OutSound, Answering, Local, Labels, Legs, NoLeg,
     CalleeEnded, At, Goto, Return, SetCaller, SetLeg, shared, dialogs
<1>28. CASE Unwind(c)
  BY <1>28, UnwindAlternatives, UnwindLocal, ConfAssumption DEF OutSound, Answering,
     Labels, Legs, NoLeg, Keeps
<1>29. CASE SixHours(c)
  BY <1>29, ConfAssumption DEF Typed, OutSound, Answering, Local, Labels, Legs, NoLeg,
     SixHours, At, Goto, Return, SetCaller, SetLeg, shared, dialogs
<1>30. CASE AgentAnswers(c)
  BY <1>30, ConfAssumption DEF Typed, OutSound, Answering, Local, Labels, Legs, NoLeg,
     AgentAnswers, At, Goto, Return, SetCaller, SetLeg, shared, dialogs
<1>31. CASE CallerConfirms(c)
  BY <1>31, ConfAssumption DEF Typed, OutSound, Answering, Local, Labels, Legs, NoLeg,
     CallerConfirms, At, Goto, Return, SetCaller, SetLeg, shared, dialogs
<1>32. CASE CallerHangsUp(c)
  BY <1>32, ConfAssumption DEF Typed, OutSound, Answering, Local, Labels, Legs, NoLeg,
     CallerHangsUp, At, Goto, Return, SetCaller, SetLeg, shared, dialogs
<1>33. ASSUME NEW l \in Legs, CalleeHangsUp(c, l) PROVE OutSound(c)'
  BY <1>33, ConfAssumption DEF Typed, OutSound, Answering, Local, Labels, Legs, NoLeg,
     CalleeHangsUp, At, Goto, Return, SetCaller, SetLeg, shared, dialogs
<1> QED BY <1>1, <1>2, <1>3, <1>4, <1>5, <1>6, <1>7, <1>8, <1>9, <1>10, <1>11, <1>12,
   <1>13, <1>14, <1>15, <1>16, <1>17, <1>18, <1>19, <1>20, <1>21, <1>22, <1>23, <1>24,
   <1>25, <1>26, <1>27, <1>28, <1>29, <1>30, <1>31, <1>32, <1>33 DEF CallStep,
   Goroutine, Setup, Dialling, Bridging, CalleeDone, ClosedCalleeDone, Parties

----------------------------------------------------------------------------
(* What a step does to the call's own state                                 *)

\* The call's leg l is now in state s, the others are as they were.
Rings(c, l, s) == \A k \in Legs : leg'[c][k] = IF k = l THEN s ELSE leg[c][k]

Talking == {"record", "addin", "addout", "ack", "talk"}
SettingUp == {"idle", "limits", "checks", "route", "flow", "dial", "newdialog"}

Moves(c, P, Q) == h[c].pc \in P /\ h'[c].pc \in Q
Fresh(c) == /\ h'[c].answered = h[c].answered /\ h'[c].bridged = h[c].bridged
            /\ h'[c].recorded = h[c].recorded /\ h'[c].media = h[c].media
            /\ confirmed'[c] = confirmed[c] /\ cdrs'[c] = cdrs[c]

\* Nobody is called yet (src/pbx.go:78-190, 300-640).
SetupEffect(c) ==
  /\ Moves(c, SettingUp, SettingUp \union {"unwind", "done"})
  /\ Fresh(c) /\ leg'[c] = leg[c] /\ h'[c].out = h[c].out
  /\ h'[c].deferred \in {h[c].deferred, 1, 2, 4, 5}
  /\ h'[c].pc = "flow" => Flows
  /\ caller'[c] \in {caller[c], "inviting", "ended"}

\* The callees are called (src/pbx.go:640-800, 1000-1047).
DialEffect(c) ==
  /\ Fresh(c)
  /\ h'[c].deferred = IF h[c].pc = "newdialog" THEN 8 ELSE h[c].deferred
  /\ caller'[c] \in {caller[c], "early"}
  /\ \/ /\ Moves(c, {"newdialog"}, {"invite"})
        /\ h'[c].out = 0 /\ Rings(c, 0, "inviting")
     \/ /\ h'[c].out = h[c].out
        /\ \/ /\ Moves(c, {"invite", "waitanswer"}, {"answer"})
              /\ Rings(c, 0, "answered")
           \/ /\ Moves(c, {"invite"}, {"waitanswer", "unwind"})
              /\ Rings(c, 0, "early")
           \/ /\ Moves(c, {"invite", "waitanswer"}, {"nextfallback", "unwind"})
              /\ Rings(c, 0, "ended")
           \/ /\ Moves(c, {"nextfallback"}, {"fallback"})
              /\ h'[c].next = h[c].next /\ Rings(c, h[c].next, "inviting")
           \/ /\ Moves(c, {"fallback"}, {"nextfallback"})
              /\ Rings(c, h[c].next, "ended")
     \/ /\ Moves(c, {"nextfallback"}, {"unwind"})
        /\ leg'[c] = leg[c]
     \/ /\ Moves(c, {"fallback"}, {"unwind"})
        /\ Rings(c, h[c].next, "ended") \/ Rings(c, h[c].next, "early")
     \/ /\ Moves(c, {"fallback"}, {"answer"})
        /\ h'[c].out = h[c].next /\ Rings(c, h[c].next, "answered")

\* A callee has answered (src/pbx.go:800-1000).
BridgeEffect(c) ==
  /\ Moves(c, Answering, (Answering \ {"answer"}) \union {"unwind"})
  /\ h'[c].deferred = h[c].deferred /\ h'[c].out = h[c].out
  /\ confirmed'[c] = confirmed[c] /\ cdrs'[c] = cdrs[c]
  /\ \/ caller'[c] = caller[c]
     \/ caller'[c] = "answered" /\ Moves(c, {"answer"}, {"answering"})
  /\ \/ h'[c].answered = h[c].answered /\ (h'[c].pc \in Talking => h[c].pc \in Talking)
     \/ h'[c].answered /\ confirmed[c] 
  /\ h'[c].bridged = h[c].bridged \/ h[c].pc = "ack"
  /\ \/ h'[c].media = h[c].media
     \/ h'[c].media # Both
     \/ h'[c].pc = "ack"
  /\ h[c].pc \in {"ack", "talk"} =>
       h'[c].pc \in {"talk", "unwind"} /\ h'[c].media = h[c].media
  /\ \/ leg'[c] = leg[c]
     \/ Rings(c, h[c].out, "ended")
     \/ leg[c][h[c].out] \in Up /\ Rings(c, h[c].out, "confirmed")

\* The defers run (src/pbx.go:103-186, 640-700).
UnwindEffect(c) ==
  /\ h[c].pc = "unwind" /\ h'[c].out = h[c].out
  /\ h'[c].answered = h[c].answered /\ h'[c].bridged = h[c].bridged
  /\ h'[c].recorded = h[c].recorded /\ confirmed'[c] = confirmed[c]
  /\ h'[c].media = h[c].media
  /\ h[c].lost \subseteq h'[c].lost /\ (h[c].lostIn => h'[c].lostIn)
  /\ \/ /\ h[c].deferred = 0 /\ h'[c].deferred = 0 /\ h'[c].pc = "done"
        /\ leg'[c] = leg[c] /\ caller'[c] = caller[c] /\ cdrs'[c] = cdrs[c]
     \/ /\ h[c].deferred \in 1..8 /\ h'[c].deferred = h[c].deferred - 1
        /\ h'[c].pc = "unwind"
        /\ \/ leg'[c] = leg[c] /\ (h[c].deferred = 7 => 0 \in h'[c].lost)
           \/ h[c].deferred = 7 /\ Rings(c, 0, "ended")
        /\ \/ caller'[c] = caller[c] /\ (h[c].deferred = 4 => h'[c].lostIn)
           \/ h[c].deferred = 4 /\ caller'[c] = "ended"
        /\ h[c].deferred \notin {3, 8} => cdrs'[c] = cdrs[c]
        /\ h[c].deferred = 8 => WriteOut(c)
        /\ h[c].deferred = 3 => WriteIn(c)

\* The caller, the agent and the callees.
PartyEffect(c) ==
  /\ h'[c] = h[c] /\ cdrs'[c] = cdrs[c]
  /\ \/ /\ leg'[c] = leg[c]
        /\ \/ /\ h[c].pc = "flow" /\ caller'[c] = "answered"
              /\ confirmed'[c] = confirmed[c]
           \/ caller[c] = "answered" /\ caller'[c] = "confirmed" /\ confirmed'[c]
           \/ caller'[c] = "ended" /\ confirmed'[c] = confirmed[c]
     \/ /\ caller'[c] = caller[c] /\ confirmed'[c] = confirmed[c]
        /\ \E l \in Legs : leg[c][l] \in Up /\ Rings(c, l, "ended")

Effect(c) == \/ SetupEffect(c) \/ DialEffect(c) \/ BridgeEffect(c)
             \/ UnwindEffect(c) \/ PartyEffect(c)

\* Every step is one of these (src/pbx.go:78-1047).
LEMMA EffectStep ==
  ASSUME NEW c \in Calls, Typed, OutSound(c), CallStep(c)
  PROVE  Effect(c)
<1>1. CASE Arrive(c)
  BY <1>1 DEF Arrive, SetupEffect, SettingUp, Moves, Fresh, At, Goto, Return, Typed,
     Local, shared, dialogs, SetCaller, Effect
<1>2. CASE Refuse(c)
  BY <1>2 DEF Refuse, SetupEffect, SettingUp, Moves, Fresh, At, Goto, Return, Typed,
     Local, shared, dialogs, SetCaller, Effect
<1>3. CASE Admit(c)
  BY <1>3 DEF Admit, Limiter!Admit, SetupEffect, SettingUp, Moves, Fresh, At, Goto,
     Return, Typed, Local, shared, dialogs, SetCaller, Effect
<1>4. CASE Check(c)
  BY <1>4 DEF Check, SetupEffect, SettingUp, Moves, Fresh, At, Goto, Return, Typed,
     Local, shared, dialogs, SetCaller, Effect
<1>5. CASE Unauthorized(c)
  BY <1>5 DEF Unauthorized, Respond, SetupEffect, SettingUp, Moves, Fresh, At, Goto,
     Return, Typed, Local, shared, dialogs, SetCaller, Effect
<1>6. CASE RejectRoute(c)
  BY <1>6 DEF RejectRoute, Respond, SetupEffect, SettingUp, Moves, Fresh, At, Goto,
     Return, Typed, Local, shared, dialogs, SetCaller, Effect
<1>7. CASE MatchRoute(c)
  BY <1>7 DEF MatchRoute, SetupEffect, SettingUp, Moves, Fresh, At, Goto, Return, Typed,
     Local, shared, dialogs, SetCaller, Effect
<1>8. CASE AgentLeaves(c)
  BY <1>8 DEF AgentLeaves, SetupEffect, SettingUp, Moves, Fresh, At, Goto, Return,
     Typed, Local, shared, dialogs, SetCaller, Effect
<1>9. CASE RejectDial(c)
  BY <1>9 DEF RejectDial, Respond, SetupEffect, SettingUp, Moves, Fresh, At, Goto,
     Return, Typed, Local, shared, dialogs, SetCaller, Effect
<1>10. CASE StoreBridge(c)
  BY <1>10 DEF StoreBridge, SetupEffect, SettingUp, Moves, Fresh, At, Goto, Return,
     Typed, Local, shared, dialogs, SetCaller, Effect
<1>11. CASE DialPrimary(c)
  <2>1. CASE Return(c) /\ UNCHANGED leg
    BY <1>11, <2>1 DEF DialPrimary, SetupEffect, SettingUp, Moves, Fresh, At, Goto,
       Return, Typed, Local, shared, dialogs, Effect
  <2>2. CASE /\ h' = [h EXCEPT ![c].pc = "invite", ![c].deferred = 8, ![c].out = 0]
             /\ SetLeg(c, 0, "inviting")
    <3>1. Rings(c, 0, "inviting")
      BY <2>2, Counts, LegSet DEF Rings
    <3> QED BY <1>11, <2>2, <3>1 DEF DialPrimary, DialEffect, Moves, Fresh, At, Goto,
       Return, Typed, Local, shared, dialogs, Effect
  <2> QED BY <1>11, <2>1, <2>2 DEF DialPrimary
<1>12. CASE PrimaryAnswers(c)
  <2>1. 0 \in Legs
    BY <1>12, ConfAssumption DEF Legs
  <2>2. Rings(c, 0, "answered")
    BY <1>12, <2>1, LegSet DEF PrimaryAnswers, Rings
  <2> QED BY <1>12, <2>1, <2>2 DEF PrimaryAnswers, DialEffect, Moves, Fresh, At, Goto,
     Return, Typed, Local, shared, dialogs, SetCaller, Effect
<1>13. CASE EarlyMedia(c)
  <2>1. 0 \in Legs
    BY <1>13, ConfAssumption DEF Legs
  <2>2. Rings(c, 0, "early")
    BY <1>13, <2>1, LegSet DEF EarlyMedia, Rings
  <2> QED BY <1>13, <2>1, <2>2 DEF EarlyMedia, DialEffect, Moves, Fresh, At, Goto,
     Return, Typed, Local, shared, dialogs, SetCaller, Effect
<1>14. CASE PrimaryFails(c)
  <2>1. 0 \in Legs
    BY <1>14, ConfAssumption DEF Legs
  <2>2. Rings(c, 0, "ended")
    BY <1>14, <2>1, LegSet DEF PrimaryFails, Rings
  <2> QED BY <1>14, <2>1, <2>2 DEF PrimaryFails, DialEffect, Moves, Fresh, At, Goto,
     Return, Typed, Local, shared, dialogs, SetCaller, Effect
<1>15. CASE NextFallback(c)
  <2>1. CASE FallbackError(c) /\ UNCHANGED leg
    BY <1>15, <2>1 DEF NextFallback, FallbackError, DialEffect, Moves, Fresh, At, Goto,
       Return, Typed, Local, shared, dialogs, Effect
  <2>2. CASE /\ h[c].next <= Fallbacks /\ Goto(c, "fallback")
             /\ SetLeg(c, h[c].next, "inviting")
    <3>1. h[c].next \in Legs
      BY <2>2, ConfAssumption DEF Typed, Local, Legs
    <3>2. Rings(c, h[c].next, "inviting")
      BY <2>2, <3>1, LegSet DEF Rings
    <3> QED BY <1>15, <2>2, <3>1, <3>2 DEF NextFallback, DialEffect, Moves, Fresh, At,
       Goto, Return, Typed, Local, shared, dialogs, Effect
  <2> QED BY <1>15, <2>1, <2>2 DEF NextFallback, Effect
<1>16. CASE FallbackFails(c)
  <2>1. h[c].next \in Legs
    BY <1>16, ConfAssumption DEF OutSound, At, FallbackFails
  <2>2. Rings(c, h[c].next, "ended")
    BY <1>16, <2>1, LegSet DEF FallbackFails, Rings
  <2> QED BY <1>16, <2>1, <2>2 DEF FallbackFails, FallbackError, DialEffect, Moves,
     Fresh, At, Goto, Return, Typed, Local, shared, dialogs, SetCaller, Effect
<1>17. CASE FallbackEarlyMedia(c)
  <2>1. h[c].next \in Legs
    BY <1>17, ConfAssumption DEF OutSound, At, FallbackEarlyMedia
  <2>2. Rings(c, h[c].next, "early")
    BY <1>17, <2>1, LegSet DEF FallbackEarlyMedia, Rings
  <2> QED BY <1>17, <2>1, <2>2 DEF FallbackEarlyMedia, FallbackError, DialEffect, Moves,
     Fresh, At, Goto, Return, Typed, Local, shared, dialogs, SetCaller, Effect
<1>18. CASE FallbackAnswers(c)
  <2>1. h[c].next \in Legs
    BY <1>18, ConfAssumption DEF OutSound, At, FallbackAnswers
  <2>2. Rings(c, h[c].next, "answered")
    BY <1>18, <2>1, LegSet DEF FallbackAnswers, Rings
  <2> QED BY <1>18, <2>1, <2>2 DEF FallbackAnswers, DialEffect, Moves, Fresh, At, Goto,
     Return, Typed, Local, shared, dialogs, SetCaller, Effect
<1>19. CASE AnswerFails(c)
  BY <1>19 DEF AnswerFails, BridgeEffect, Answering, Talking, Both, Moves, Fresh, At,
     Goto, Return, Typed, Local, shared, dialogs, SetCaller, Effect
<1>20. CASE SendAnswer(c)
  BY <1>20 DEF SendAnswer, BridgeEffect, Answering, Talking, Both, Moves, Fresh, At,
     Goto, Return, Typed, Local, shared, dialogs, SetCaller, Effect
<1>21. CASE AnswerReturns(c)
  BY <1>21 DEF AnswerReturns, BridgeEffect, Answering, Talking, Both, Moves, Fresh, At,
     Goto, Return, Typed, Local, shared, dialogs, SetCaller, Effect
<1>22. CASE StartRecording(c)
  BY <1>22 DEF StartRecording, BridgeEffect, Answering, Talking, Both, Moves, Fresh, At,
     Goto, Return, Typed, Local, shared, dialogs, SetCaller, Effect
<1>23. CASE AddMediaIn(c)
  BY <1>23 DEF AddMediaIn, BridgeEffect, Answering, Talking, Both, Moves, Fresh, At,
     Goto, Return, Typed, Local, shared, dialogs, SetCaller, Effect
<1>24. CASE AddMediaOut(c)
  BY <1>24 DEF AddMediaOut, BridgeEffect, Answering, Talking, Both, Moves, Fresh, At,
     Goto, Return, Typed, Local, shared, dialogs, SetCaller, Effect
<1>25. CASE Ack(c)
  <2>0. h[c].out \in Legs
    BY <1>25, AckAlternatives
  <2>1. CASE leg' = leg
    BY <1>25, <2>1, AckAlternatives, AckLocal
       DEF Ack, BridgeEffect, Keeps, Moves, Answering, Talking, dialogs, Effect
  <2>2. CASE SetLeg(c, h[c].out, IF leg[c][h[c].out] = "answered" THEN "confirmed"
                                 ELSE leg[c][h[c].out])
    <3>1. CASE leg[c][h[c].out] = "answered"
      <4>1. SetLeg(c, h[c].out, "confirmed")
        BY <2>2, <3>1
      <4>2. Rings(c, h[c].out, "confirmed")
        BY <2>0, <4>1, LegSet DEF Rings
      <4> QED BY <1>25, <3>1, <4>2, AckAlternatives, AckLocal
           DEF Ack, BridgeEffect, Keeps, Moves, Answering, Talking, Up, Effect
    <3>2. CASE leg[c][h[c].out] # "answered"
      <4>1. leg' = leg
        BY <1>25, <2>2, <3>2, AckAlternatives DEF SetLeg, Typed
      <4> QED BY <2>1, <4>1
    <3> QED BY <3>1, <3>2
  <2> QED BY <1>25, <2>1, <2>2, AckAlternatives DEF Effect
<1>26. CASE CallerDone(c)
  <2>1. leg' = leg \/ Rings(c, h[c].out, "ended")
    BY <1>26, CallerDoneAlternatives, LegSet DEF Rings
  <2> QED BY <1>26, <2>1, CallerDoneAlternatives DEF BridgeEffect, Answering, Talking,
     Moves, Keeps, Effect
<1>27. CASE CalleeEnded(c)
  BY <1>27 DEF CalleeEnded, BridgeEffect, Answering, Talking, Both, Moves, Fresh, At,
     Goto, Return, Typed, Local, shared, dialogs, SetCaller, Effect
<1>28. CASE Unwind(c)
  <2>1. h[c].pc = "unwind" /\ confirmed' = confirmed
    BY <1>28, UnwindAlternatives DEF dialogs
  <2>2. \/ leg'[c] = leg[c] /\ (h[c].deferred = 7 => 0 \in h'[c].lost)
        \/ h[c].deferred = 7 /\ Rings(c, 0, "ended")
    <3>1. CASE h[c].deferred = 7 /\ SetLeg(c, 0, "ended")
      BY <3>1, Counts, LegSet DEF Rings
    <3>2. h[c].deferred # 7 => leg' = leg
      BY <1>28, UnwindLost
    <3> QED BY <1>28, <3>1, <3>2, UnwindLost
  <2>3. \/ caller'[c] = caller[c] /\ (h[c].deferred = 4 => h'[c].lostIn)
        \/ h[c].deferred = 4 /\ caller'[c] = "ended"
    <3>1. CASE h[c].deferred = 4 /\ SetCaller(c, "ended")
      BY <3>1 DEF SetCaller, Typed
    <3>2. h[c].deferred # 4 => caller' = caller
      BY <1>28, UnwindLost
    <3> QED BY <1>28, <3>1, <3>2, UnwindLost
  <2>4. /\ h[c].deferred \notin {3, 8} => cdrs'[c] = cdrs[c]
        /\ h[c].deferred = 8 => WriteOut(c)
        /\ h[c].deferred = 3 => WriteIn(c)
    BY <1>28, UnwindLost
  <2>5. h[c].deferred = 0 => /\ leg'[c] = leg[c] /\ caller'[c] = caller[c]
                             /\ cdrs'[c] = cdrs[c]
    BY <1>28, UnwindLost
  <2>6. h[c].lost \subseteq h'[c].lost /\ (h[c].lostIn => h'[c].lostIn)
    BY <1>28, UnwindLost
  <2> QED BY <1>28, <2>1, <2>2, <2>3, <2>4, <2>5, <2>6, UnwindLocal
       DEF UnwindEffect, Keeps, Effect
<1>29. CASE SixHours(c)
  BY <1>29 DEF SixHours, BridgeEffect, Answering, Talking, Both, Moves, Fresh, At, Goto,
     Return, Typed, Local, shared, dialogs, SetCaller, Effect
<1>30. CASE AgentAnswers(c)
  BY <1>30 DEF AgentAnswers, PartyEffect, Moves, Fresh, At, Goto, Return, Typed, Local,
     shared, dialogs, SetCaller, Effect
<1>31. CASE CallerConfirms(c)
  BY <1>31 DEF CallerConfirms, PartyEffect, Moves, Fresh, At, Goto, Return, Typed,
     Local, shared, dialogs, SetCaller, Effect
<1>32. CASE CallerHangsUp(c)
  BY <1>32 DEF CallerHangsUp, PartyEffect, Moves, Fresh, At, Goto, Return, Typed, Local,
     shared, dialogs, SetCaller, Effect
<1>33. ASSUME NEW l \in Legs, CalleeHangsUp(c, l) PROVE Effect(c)
  <2>1. Rings(c, l, "ended")
    BY <1>33, LegSet DEF CalleeHangsUp, Rings
  <2> QED BY <1>33, <2>1 DEF CalleeHangsUp, PartyEffect, Moves, Fresh, At, Goto, Return,
     Typed, Local, shared, dialogs, SetCaller, Effect
<1> QED BY <1>1, <1>2, <1>3, <1>4, <1>5, <1>6, <1>7, <1>8, <1>9, <1>10, <1>11, <1>12,
   <1>13, <1>14, <1>15, <1>16, <1>17, <1>18, <1>19, <1>20, <1>21, <1>22, <1>23, <1>24,
   <1>25, <1>26, <1>27, <1>28, <1>29, <1>30, <1>31, <1>32, <1>33 DEF CallStep,
   Goroutine, Setup, Dialling, Bridging, CalleeDone, ClosedCalleeDone, Parties

\* One callee is dialled after the other (src/pbx.go:699-800).
LEMMA LegStep ==
  ASSUME NEW c \in Calls, Typed, OutSound(c), LegSound(c), Effect(c)
  PROVE  LegSound(c)'
<1>1. CASE SetupEffect(c)
  BY <1>1, Counts DEF SetupEffect, LegSound, OutSound, Live, Up, Moves, Fresh, Rings,
     SettingUp, Answering, Talking
<1>2. CASE DialEffect(c)
  BY <1>2, Counts DEF DialEffect, LegSound, OutSound, Live, Up, Moves, Fresh, Rings,
     SettingUp, Answering, Talking
<1>3. CASE BridgeEffect(c)
  BY <1>3, Counts DEF BridgeEffect, LegSound, OutSound, Live, Up, Moves, Fresh, Rings,
     SettingUp, Answering, Talking
<1>4. CASE UnwindEffect(c)
  BY <1>4, Counts DEF UnwindEffect, LegSound, OutSound, Live, Up, Moves, Fresh, Rings,
     SettingUp, Answering, Talking
<1>5. CASE PartyEffect(c)
  BY <1>5, Counts DEF PartyEffect, LegSound, OutSound, Live, Up, Moves, Fresh, Rings,
     SettingUp, Answering, Talking
<1> QED BY <1>1, <1>2, <1>3, <1>4, <1>5 DEF Effect

\* The caller is answered after a callee has (src/pbx.go:645-860).
LEMMA AnswerStep ==
  ASSUME NEW c \in Calls, Typed, OutSound(c), OutSound(c)', AnswerSound(c), Effect(c)
  PROVE  AnswerSound(c)'
<1>1. CASE SetupEffect(c)
  BY <1>1, Counts DEF SetupEffect, AnswerSound, OutSound, Up, Moves, Fresh, Rings,
     SettingUp, Answering, Talking
<1>2. CASE DialEffect(c)
  BY <1>2, Counts DEF DialEffect, AnswerSound, OutSound, Up, Moves, Fresh, Rings,
     SettingUp, Answering, Talking
<1>3. CASE BridgeEffect(c)
  BY <1>3, Counts DEF BridgeEffect, AnswerSound, OutSound, Up, Moves, Fresh, Rings,
     SettingUp, Answering, Talking
<1>4. CASE UnwindEffect(c)
  BY <1>4, Counts DEF UnwindEffect, AnswerSound, OutSound, Up, Moves, Fresh, Rings,
     SettingUp, Answering, Talking
<1>5. CASE PartyEffect(c)
  BY <1>5, Counts DEF PartyEffect, AnswerSound, OutSound, Up, Moves, Fresh, Rings,
     SettingUp, Answering, Talking
<1> QED BY <1>1, <1>2, <1>3, <1>4, <1>5 DEF Effect

\* The defers hang up the caller and the first callee (src/pbx.go:130-186, 676-700).
LEMMA GoneStep ==
  ASSUME NEW c \in Calls, Typed, DefersSound(c), DefersSound(c)', LegSound(c), GoneSound(c), Effect(c)
  PROVE  GoneSound(c)'
<1>1. CASE SetupEffect(c)
  BY <1>1, Counts DEF SetupEffect, GoneSound, DefersSound, LegSound, Live, Up, Moves,
     Fresh, Rings, SettingUp, Answering, Talking
<1>2. CASE DialEffect(c)
  BY <1>2, Counts DEF DialEffect, GoneSound, DefersSound, LegSound, Live, Up, Moves,
     Fresh, Rings, SettingUp, Answering, Talking
<1>3. CASE BridgeEffect(c)
  BY <1>3, Counts DEF BridgeEffect, GoneSound, DefersSound, LegSound, Live, Up, Moves,
     Fresh, Rings, SettingUp, Answering, Talking
<1>4. CASE UnwindEffect(c)
  BY <1>4, Counts DEF UnwindEffect, GoneSound, DefersSound, LegSound, Live, Up, Moves,
     Fresh, Rings, SettingUp, Answering, Talking
<1>5. CASE PartyEffect(c)
  BY <1>5, Counts DEF PartyEffect, GoneSound, DefersSound, LegSound, Live, Up, Moves,
     Fresh, Rings, SettingUp, Answering, Talking
<1> QED BY <1>1, <1>2, <1>3, <1>4, <1>5 DEF Effect

\* bridged after answered after confirmed (src/pbx.go:820-960).
LEMMA BridgedStep ==
  ASSUME NEW c \in Calls, Typed, BridgedSound(c), Effect(c)
  PROVE  BridgedSound(c)'
<1>1. CASE SetupEffect(c)
  BY <1>1 DEF SetupEffect, BridgedSound, Moves, Fresh, Rings, SettingUp, Answering,
     Talking
<1>2. CASE DialEffect(c)
  BY <1>2 DEF DialEffect, BridgedSound, Moves, Fresh, Rings, SettingUp, Answering, Talking
<1>3. CASE BridgeEffect(c)
  BY <1>3 DEF BridgeEffect, BridgedSound, Moves, Fresh, Rings, SettingUp, Answering,
     Talking
<1>4. CASE UnwindEffect(c)
  BY <1>4 DEF UnwindEffect, BridgedSound, Moves, Fresh, Rings, SettingUp, Answering,
     Talking
<1>5. CASE PartyEffect(c)
  BY <1>5 DEF PartyEffect, BridgedSound, Moves, Fresh, Rings, SettingUp, Answering,
     Talking
<1> QED BY <1>1, <1>2, <1>3, <1>4, <1>5 DEF Effect

\* The records written so far (src/pbx.go:130-186, 676-700).
NewRecord(c, dir, answered) ==
  [dir |-> dir, answered |-> answered, bridged |-> dir = "out" /\ h[c].bridged,
   recorded |-> h[c].recorded]

\* What Write adds (src/pbx.go:130-186, 676-700).
LEMMA Written ==
  ASSUME NEW c \in Calls, Typed, NEW dir \in {"in", "out"}, NEW answered \in BOOLEAN,
         Write(c, dir, answered)
  PROVE  /\ cdrs'[c] = Append(cdrs[c], NewRecord(c, dir, answered))
         /\ cdrs'[c] # <<>> /\ Len(cdrs'[c]) = Len(cdrs[c]) + 1
         /\ cdrs'[c][Len(cdrs'[c])] = NewRecord(c, dir, answered)
         /\ \A i \in 1..Len(cdrs[c]) : cdrs'[c][i] = cdrs[c][i]
<1> DEFINE r == NewRecord(c, dir, answered)
<1>1. cdrs'[c] = Append(cdrs[c], r)
  BY DEF Write, NewRecord, Typed
<1>2. h[c].bridged \in BOOLEAN /\ h[c].recorded \in BOOLEAN
  BY DEF Typed, Local
<1>3. r \in Record /\ cdrs[c] \in Seq(Record)
  BY <1>2 DEF NewRecord, Record, Typed
<1> HIDE DEF r
<1>4. /\ Append(cdrs[c], r) # <<>> /\ Len(Append(cdrs[c], r)) = Len(cdrs[c]) + 1
      /\ Append(cdrs[c], r)[Len(cdrs[c]) + 1] = r
      /\ \A i \in 1..Len(cdrs[c]) : Append(cdrs[c], r)[i] = cdrs[c][i]
  BY <1>3
<1> QED BY <1>1, <1>4 DEF r

\* The outgoing record, then the incoming one (src/pbx.go:130-186, 676-700).
LEMMA RecordsStep ==
  ASSUME NEW c \in Calls, Typed, Effect(c), GoneSound(c), BridgedSound(c),
         RecordsSound(c)
  PROVE  RecordsSound(c)'
<1>0. h[c].pc \notin {"unwind", "done"} => cdrs[c] = <<>>
  BY DEF RecordsSound
<1>1. CASE SetupEffect(c)
  BY <1>0, <1>1 DEF SetupEffect, Moves, Fresh, SettingUp, RecordsSound
<1>2. CASE DialEffect(c)
  BY <1>0, <1>2 DEF DialEffect, Moves, Fresh, RecordsSound
<1>3. CASE BridgeEffect(c)
  BY <1>0, <1>3 DEF BridgeEffect, Moves, Answering, RecordsSound
<1>4. CASE UnwindEffect(c)
  <2>1. CASE cdrs'[c] = cdrs[c] /\ h[c].deferred # 3
    BY <1>4, <2>1 DEF UnwindEffect, RecordsSound, OutRecord, InRecord
  <2>2. CASE h[c].deferred = 8 /\ WriteOut(c) /\ cdrs'[c] # cdrs[c]
    <3>1. CDREnable /\ Write(c, "out", h[c].answered) /\ h[c].answered \in BOOLEAN
      BY <2>2 DEF WriteOut, Typed, Local
    <3>2. cdrs[c] = <<>> /\ Len(cdrs[c]) = 0
      BY <2>2 DEF RecordsSound
    <3>a. /\ Len(cdrs'[c]) = Len(cdrs[c]) + 1
          /\ cdrs'[c][Len(cdrs'[c])] = NewRecord(c, "out", h[c].answered)
      BY <3>1, Written
    <3>3. Len(cdrs'[c]) = 1 /\ cdrs'[c][1] = NewRecord(c, "out", h[c].answered)
      BY <3>a, <3>2
    <3>4. OutRecord(c, NewRecord(c, "out", h[c].answered))'
      <4>1. /\ h'[c].recorded = h[c].recorded /\ confirmed'[c] = confirmed[c]
            /\ h[c].bridged => h[c].answered
            /\ h[c].answered => confirmed[c]
        BY <1>4 DEF UnwindEffect, BridgedSound
      <4>2. h'[c].answered = h[c].answered /\ h'[c].bridged = h[c].bridged
        BY <1>4 DEF UnwindEffect
      <4> QED BY <4>1, <4>2 DEF OutRecord, NewRecord
    <3>5. NewRecord(c, "out", h[c].answered)' = NewRecord(c, "out", h[c].answered)
      BY <1>4 DEF UnwindEffect, NewRecord
    <3>6. h'[c].deferred = 7 /\ h'[c].pc = "unwind"
      BY <1>4, <2>2 DEF UnwindEffect
    <3> QED BY <3>1, <3>3, <3>4, <3>5, <3>6 DEF RecordsSound
  <2>3. CASE h[c].deferred = 3 /\ WriteIn(c)
    <3>1. /\ h'[c].deferred = 2 /\ h'[c].pc = "unwind"
          /\ caller'[c] = "ended" \/ h'[c].lostIn
          /\ h'[c].recorded = h[c].recorded /\ confirmed'[c] = confirmed[c]
          /\ h'[c].answered = h[c].answered /\ (h[c].answered => confirmed[c])
      BY <1>4, <2>3 DEF UnwindEffect, GoneSound, BridgedSound
    <3>2. CASE ~CDREnable
      BY <2>3, <3>2 DEF WriteIn, RecordsSound
    <3>3. CASE CDREnable
      <4>1. Write(c, "in", confirmed[c]) /\ confirmed[c] \in BOOLEAN
        BY <2>3, <3>3 DEF WriteIn, Typed
      <4>2. /\ Len(cdrs'[c]) = Len(cdrs[c]) + 1
            /\ cdrs'[c][Len(cdrs'[c])] = NewRecord(c, "in", confirmed[c])
            /\ \A i \in 1..Len(cdrs[c]) : cdrs'[c][i] = cdrs[c][i]
        BY <4>1, Written
      <4>3. \/ Len(cdrs[c]) = 0
            \/ Len(cdrs[c]) = 1 /\ OutRecord(c, cdrs[c][1])
        BY <2>3 DEF RecordsSound
      <4>4. InRecord(c, cdrs[c][Len(cdrs[c])])'
        BY <3>1, <4>2 DEF InRecord, NewRecord
      <4>5. Len(cdrs'[c]) = 2 => OutRecord(c, cdrs[c][1])'
        <5>1. ASSUME Len(cdrs'[c]) = 2 PROVE OutRecord(c, cdrs[c][1])'
          <6>a. Len(cdrs'[c]) = Len(cdrs[c]) + 1
            BY <4>2
          <6>b. ASSUME Len(cdrs[c]) = 0 PROVE FALSE
            <7>1. Len(cdrs'[c]) = 1
              BY <6>a, <6>b
            <7> QED BY <5>1, <7>1
          <6>1. Len(cdrs[c]) = 1 /\ OutRecord(c, cdrs[c][1])
            BY <4>3, <6>b
          <6>2. cdrs'[c][1] = cdrs[c][1]
            BY <4>2, <6>1
          <6>3. cdrs[c][1].answered => h'[c].answered /\ confirmed'[c]
            <7>1. cdrs[c][1].answered => h[c].answered /\ confirmed[c]
              BY <6>1 DEF OutRecord
            <7>2. h'[c].answered = h[c].answered /\ confirmed'[c] = confirmed[c]
              BY <3>1
            <7> QED BY <7>1, <7>2
          <6> QED BY <3>1, <6>1, <6>2, <6>3 DEF OutRecord
        <5> QED BY <5>1
      <4>6. Len(cdrs'[c]) \in {1, 2}
        BY <4>2, <4>3
      <4>7. h'[c].deferred = 2 /\ h'[c].pc = "unwind" /\ (caller'[c] = "ended" \/ h'[c].lostIn)
        BY <3>1
      <4> QED BY <3>3, <4>4, <4>5, <4>6, <4>7 DEF RecordsSound
    <3> QED BY <3>2, <3>3
  <2>4. \/ cdrs'[c] = cdrs[c] /\ h[c].deferred # 3
        \/ h[c].deferred = 8 /\ WriteOut(c)
        \/ h[c].deferred = 3 /\ WriteIn(c)
    BY <1>4 DEF UnwindEffect
  <2> QED BY <2>1, <2>2, <2>3, <2>4
<1>5. CASE PartyEffect(c)
  BY <1>0, <1>5 DEF PartyEffect, RecordsSound, OutRecord, InRecord
<1> QED BY <1>1, <1>2, <1>3, <1>4, <1>5 DEF Effect

\* A call whose parties were joined is billed (src/pbx.go:130-186, 890-960).
LEMMA MediaStep ==
  ASSUME NEW c \in Calls, Typed, DefersSound(c), RecordsSound(c), MediaSound(c), Effect(c)
  PROVE  MediaSound(c)'
<1>1. CASE SetupEffect(c)
  BY <1>1 DEF SetupEffect, MediaSound, DefersSound, RecordsSound, Moves, Fresh, Rings,
     SettingUp, Answering, Talking
<1>2. CASE DialEffect(c)
  BY <1>2 DEF DialEffect, MediaSound, DefersSound, RecordsSound, Moves, Fresh, Rings,
     SettingUp, Answering, Talking
<1>3. CASE BridgeEffect(c)
  BY <1>3 DEF BridgeEffect, MediaSound, DefersSound, RecordsSound, Moves, Fresh, Rings,
     SettingUp, Answering, Talking
<1>4. CASE UnwindEffect(c)
  <2>1. CASE h[c].deferred = 3 /\ CDREnable
    <3>1. Write(c, "in", confirmed[c]) /\ confirmed[c] \in BOOLEAN
      BY <1>4, <2>1 DEF UnwindEffect, WriteIn, Typed
    <3>2. cdrs'[c] # <<>>
      BY <3>1, Written
    <3> QED BY <1>4, <3>2 DEF UnwindEffect, MediaSound
  <2>2. CASE ~(h[c].deferred = 3 /\ CDREnable)
    BY <1>4, <2>2 DEF UnwindEffect, MediaSound
  <2> QED BY <2>1, <2>2
<1>5. CASE PartyEffect(c)
  BY <1>5 DEF PartyEffect, MediaSound, DefersSound, RecordsSound, Moves, Fresh, Rings,
     SettingUp, Answering, Talking
<1> QED BY <1>1, <1>2, <1>3, <1>4, <1>5 DEF Effect

\* What a step takes of what the calls share (src/pbx.go:89-128, 640-646).
Booked(c) ==
  /\ holders' = IF h'[c].deferred >= 1 THEN holders \union {c} ELSE holders \ {c}
  /\ bridges' = IF h'[c].deferred >= 5 THEN bridges \union {c} ELSE bridges \ {c}
  /\ gauge' = gauge + (IF h'[c].deferred >= 2 THEN 1 ELSE 0)
                    - (IF h[c].deferred >= 2 THEN 1 ELSE 0)
  /\ h[c].deferred = 0 /\ h'[c].deferred # 0 => h[c].pc = "limits" /\ Limiter!Room

\* What is shared follows the installed defers (src/pbx.go:89-128, 640-646).
LEMMA Member ==
  ASSUME NEW c \in Calls, SharedAccounted
  PROVE  /\ (c \in holders) <=> h[c].deferred >= 1
         /\ (c \in bridges) <=> h[c].deferred >= 5
         /\ gauge \in Int
<1>1. gauge \in Nat
  BY CallsAssumption, FS_Subset, FS_CardinalityType DEF SharedAccounted
<1> QED BY <1>1 DEF SharedAccounted, Served

\* Each step books what it takes and gives back (src/pbx.go:89-128, 640-646).
LEMMA BookedStep ==
  ASSUME NEW c \in Calls, Typed, OutSound(c), DefersSound(c), SharedAccounted, CallStep(c)
  PROVE  Booked(c)
<1>1. CASE Arrive(c)
  <2>1. UNCHANGED <<holders, gauge, bridges>>
    BY <1>1 DEF Arrive, shared
  <2>2. h'[c].deferred = h[c].deferred
    BY <1>1 DEF Arrive, Goto, Return, Typed, Local
  <2> QED BY <2>1, <2>2, Member DEF Booked
<1>2. CASE Refuse(c)
  <2>1. UNCHANGED <<holders, gauge, bridges>>
    BY <1>2 DEF Refuse, shared
  <2>2. h'[c].deferred = h[c].deferred
    BY <1>2 DEF Refuse, Goto, Return, Typed, Local
  <2> QED BY <2>1, <2>2, Member DEF Booked
<1>3. CASE Admit(c)
  BY <1>3, Member DEF Admit, Limiter!Admit, At, Goto, Typed, Local, DefersSound, Booked
<1>4. CASE Check(c)
  BY <1>4, Member DEF Check, At, Goto, Typed, Local, DefersSound, Booked
<1>5. CASE Unauthorized(c)
  <2>1. UNCHANGED <<holders, gauge, bridges>>
    BY <1>5 DEF Unauthorized, shared
  <2>2. h'[c].deferred = h[c].deferred
    BY <1>5 DEF Unauthorized, Respond, Goto, Return, Typed, Local
  <2> QED BY <2>1, <2>2, Member DEF Booked
<1>6. CASE RejectRoute(c)
  <2>1. UNCHANGED <<holders, gauge, bridges>>
    BY <1>6 DEF RejectRoute, shared
  <2>2. h'[c].deferred = h[c].deferred
    BY <1>6 DEF RejectRoute, Respond, Goto, Return, Typed, Local
  <2> QED BY <2>1, <2>2, Member DEF Booked
<1>7. CASE MatchRoute(c)
  <2>1. UNCHANGED <<holders, gauge, bridges>>
    BY <1>7 DEF MatchRoute, shared
  <2>2. h'[c].deferred = h[c].deferred
    BY <1>7 DEF MatchRoute, Goto, Return, Typed, Local
  <2> QED BY <2>1, <2>2, Member DEF Booked
<1>8. CASE AgentLeaves(c)
  <2>1. UNCHANGED <<holders, gauge, bridges>>
    BY <1>8 DEF AgentLeaves, shared
  <2>2. h'[c].deferred = h[c].deferred
    BY <1>8 DEF AgentLeaves, Goto, Return, Typed, Local
  <2> QED BY <2>1, <2>2, Member DEF Booked
<1>9. CASE RejectDial(c)
  <2>1. UNCHANGED <<holders, gauge, bridges>>
    BY <1>9 DEF RejectDial, shared
  <2>2. h'[c].deferred = h[c].deferred
    BY <1>9 DEF RejectDial, Respond, Goto, Return, Typed, Local
  <2> QED BY <2>1, <2>2, Member DEF Booked
<1>10. CASE StoreBridge(c)
  BY <1>10, Member DEF StoreBridge, At, Goto, Typed, Local, DefersSound, Booked
<1>11. CASE DialPrimary(c)
  <2>1. UNCHANGED <<holders, gauge, bridges>>
    BY <1>11 DEF DialPrimary, shared
  <2>2. h[c].deferred = 5 /\ h'[c].deferred \in {5, 8}
    BY <1>11 DEF DialPrimary, DefersSound, At, Return, Goto, Typed, Local
  <2> QED BY <2>1, <2>2, Member DEF Booked
<1>12. CASE PrimaryAnswers(c)
  <2>1. UNCHANGED <<holders, gauge, bridges>>
    BY <1>12 DEF PrimaryAnswers, shared
  <2>2. h'[c].deferred = h[c].deferred
    BY <1>12 DEF PrimaryAnswers, Goto, Return, Typed, Local
  <2> QED BY <2>1, <2>2, Member DEF Booked
<1>13. CASE EarlyMedia(c)
  <2>1. UNCHANGED <<holders, gauge, bridges>>
    BY <1>13 DEF EarlyMedia, shared
  <2>2. h'[c].deferred = h[c].deferred
    BY <1>13 DEF EarlyMedia, Goto, Return, Typed, Local
  <2> QED BY <2>1, <2>2, Member DEF Booked
<1>14. CASE PrimaryFails(c)
  <2>1. UNCHANGED <<holders, gauge, bridges>>
    BY <1>14 DEF PrimaryFails, shared
  <2>2. h'[c].deferred = h[c].deferred
    BY <1>14 DEF PrimaryFails, Goto, Return, Typed, Local
  <2> QED BY <2>1, <2>2, Member DEF Booked
<1>15. CASE NextFallback(c)
  <2>1. UNCHANGED <<holders, gauge, bridges>>
    BY <1>15 DEF NextFallback, shared
  <2>2. h'[c].deferred = h[c].deferred
    BY <1>15 DEF NextFallback, FallbackError, Goto, Return, Typed, Local
  <2> QED BY <2>1, <2>2, Member DEF Booked
<1>16. CASE FallbackFails(c)
  <2>1. UNCHANGED <<holders, gauge, bridges>>
    BY <1>16 DEF FallbackFails, shared
  <2>2. h'[c].deferred = h[c].deferred
    BY <1>16 DEF FallbackFails, FallbackError, Goto, Return, Typed, Local
  <2> QED BY <2>1, <2>2, Member DEF Booked
<1>17. CASE FallbackEarlyMedia(c)
  <2>1. UNCHANGED <<holders, gauge, bridges>>
    BY <1>17 DEF FallbackEarlyMedia, shared
  <2>2. h'[c].deferred = h[c].deferred
    BY <1>17 DEF FallbackEarlyMedia, FallbackError, Goto, Return, Typed, Local
  <2> QED BY <2>1, <2>2, Member DEF Booked
<1>18. CASE FallbackAnswers(c)
  <2>1. UNCHANGED <<holders, gauge, bridges>>
    BY <1>18 DEF FallbackAnswers, shared
  <2>2. h'[c].deferred = h[c].deferred
    BY <1>18 DEF FallbackAnswers, Goto, Return, Typed, Local
  <2> QED BY <2>1, <2>2, Member DEF Booked
<1>19. CASE AnswerFails(c)
  <2>1. UNCHANGED <<holders, gauge, bridges>>
    BY <1>19 DEF AnswerFails, shared
  <2>2. h'[c].deferred = h[c].deferred
    BY <1>19 DEF AnswerFails, Goto, Return, Typed, Local
  <2> QED BY <2>1, <2>2, Member DEF Booked
<1>20. CASE SendAnswer(c)
  <2>1. UNCHANGED <<holders, gauge, bridges>>
    BY <1>20 DEF SendAnswer, shared
  <2>2. h'[c].deferred = h[c].deferred
    BY <1>20 DEF SendAnswer, Goto, Return, Typed, Local
  <2> QED BY <2>1, <2>2, Member DEF Booked
<1>21. CASE AnswerReturns(c)
  <2>1. UNCHANGED <<holders, gauge, bridges>>
    BY <1>21 DEF AnswerReturns, shared
  <2>2. h'[c].deferred = h[c].deferred
    BY <1>21 DEF AnswerReturns, Goto, Return, Typed, Local
  <2> QED BY <2>1, <2>2, Member DEF Booked
<1>22. CASE StartRecording(c)
  <2>1. UNCHANGED <<holders, gauge, bridges>>
    BY <1>22 DEF StartRecording, shared
  <2>2. h'[c].deferred = h[c].deferred
    BY <1>22 DEF StartRecording, Goto, Return, Typed, Local
  <2> QED BY <2>1, <2>2, Member DEF Booked
<1>23. CASE AddMediaIn(c)
  <2>1. UNCHANGED <<holders, gauge, bridges>>
    BY <1>23 DEF AddMediaIn, shared
  <2>2. h'[c].deferred = h[c].deferred
    BY <1>23 DEF AddMediaIn, Goto, Return, Typed, Local
  <2> QED BY <2>1, <2>2, Member DEF Booked
<1>24. CASE AddMediaOut(c)
  <2>1. UNCHANGED <<holders, gauge, bridges>>
    BY <1>24 DEF AddMediaOut, shared
  <2>2. h'[c].deferred = h[c].deferred
    BY <1>24 DEF AddMediaOut, Goto, Return, Typed, Local
  <2> QED BY <2>1, <2>2, Member DEF Booked
<1>25. CASE Ack(c)
  <2>1. UNCHANGED <<holders, gauge, bridges>>
    BY <1>25 DEF Ack, shared
  <2>2. h'[c].deferred = h[c].deferred
    BY <1>25, AckLocal
  <2> QED BY <2>1, <2>2, Member DEF Booked
<1>26. CASE CallerDone(c)
  <2>1. UNCHANGED <<holders, gauge, bridges>>
    BY <1>26 DEF CallerDone, shared
  <2>2. h'[c].deferred = h[c].deferred
    BY <1>26, CallerDoneAlternatives
  <2> QED BY <2>1, <2>2, Member DEF Booked
<1>27. CASE CalleeEnded(c)
  <2>1. UNCHANGED <<holders, gauge, bridges>>
    BY <1>27 DEF CalleeEnded, shared
  <2>2. h'[c].deferred = h[c].deferred
    BY <1>27 DEF CalleeEnded, Goto, Return, Typed, Local
  <2> QED BY <2>1, <2>2, Member DEF Booked
<1>28. CASE Unwind(c)
  <2>1. /\ h[c].deferred \in 0..8
        /\ h'[c].deferred = IF h[c].deferred = 0 THEN 0 ELSE h[c].deferred - 1
    BY <1>28, UnwindLocal
  <2>3. CASE h[c].deferred = 0
    BY <2>1, Member, <2>3, <1>28 DEF Unwind, shared, Booked
  <2>5. CASE DeferFails(c, Defers[h[c].deferred]) /\ h[c].deferred # 0
    <3>a. Defers[h[c].deferred] \in {"hangupOut", "hangupIn"} /\ h[c].deferred \in 1..8
      BY <2>1, <2>3, <2>5 DEF DeferFails
    <3>1. h[c].deferred \in {4, 7}
      BY <3>a DEF Defers
    <3>2. UNCHANGED <<holders, gauge, bridges>>
      BY <2>5 DEF DeferFails, shared
    <3>4. h'[c].deferred \in {3, 6} /\ h'[c].deferred = h[c].deferred - 1
      BY <2>1, <3>1
    <3>3. /\ (h'[c].deferred >= 1) <=> (h[c].deferred >= 1)
          /\ (h'[c].deferred >= 2) <=> (h[c].deferred >= 2)
          /\ (h'[c].deferred >= 5) <=> (h[c].deferred >= 5)
      BY <3>4, <3>1
    <3> QED BY <3>1, <3>2, <3>3, Member DEF Booked
  <2>4. CASE RunDefer(c, Defers[h[c].deferred]) /\ h[c].deferred # 0
    <3>1. RunDefer(c, Defers[h[c].deferred])
      BY <2>4
    <3>2. CASE h[c].deferred \in {8, 7, 6, 4, 3}
      BY <2>1, Member, <3>1, <3>2 DEF RunDefer, Defers, shared, Booked
    <3>3. CASE h[c].deferred = 5
      BY <2>1, Member, <3>1, <3>3 DEF RunDefer, Defers, Booked
    <3>4. CASE h[c].deferred = 2
      BY <2>1, Member, <3>1, <3>4 DEF RunDefer, Defers, Booked
    <3>5. CASE h[c].deferred = 1
      BY <2>1, Member, <3>1, <3>5 DEF RunDefer, Defers, Booked, Limiter!Leave
    <3> QED BY <2>1, <2>4, <3>2, <3>3, <3>4, <3>5
  <2> QED BY <1>28, <2>1, <2>3, <2>4, <2>5 DEF Unwind
<1>29. CASE SixHours(c)
  <2>1. UNCHANGED <<holders, gauge, bridges>>
    BY <1>29 DEF SixHours, shared
  <2>2. h'[c].deferred = h[c].deferred
    BY <1>29 DEF SixHours, Goto, Return, Typed, Local
  <2> QED BY <2>1, <2>2, Member DEF Booked
<1>30. CASE AgentAnswers(c)
  <2>1. UNCHANGED <<holders, gauge, bridges>>
    BY <1>30 DEF AgentAnswers, shared
  <2>2. h'[c].deferred = h[c].deferred
    BY <1>30 DEF AgentAnswers, Goto, Return, Typed, Local
  <2> QED BY <2>1, <2>2, Member DEF Booked
<1>31. CASE CallerConfirms(c)
  <2>1. UNCHANGED <<holders, gauge, bridges>>
    BY <1>31 DEF CallerConfirms, shared
  <2>2. h'[c].deferred = h[c].deferred
    BY <1>31 DEF CallerConfirms, Goto, Return, Typed, Local
  <2> QED BY <2>1, <2>2, Member DEF Booked
<1>32. CASE CallerHangsUp(c)
  <2>1. UNCHANGED <<holders, gauge, bridges>>
    BY <1>32 DEF CallerHangsUp, shared
  <2>2. h'[c].deferred = h[c].deferred
    BY <1>32 DEF CallerHangsUp, Goto, Return, Typed, Local
  <2> QED BY <2>1, <2>2, Member DEF Booked
<1>33. ASSUME NEW l \in Legs, CalleeHangsUp(c, l) PROVE Booked(c)
  <2>1. UNCHANGED <<holders, gauge, bridges>>
    BY <1>33 DEF CalleeHangsUp, shared
  <2>2. h'[c].deferred = h[c].deferred
    BY <1>33 DEF CalleeHangsUp, Goto, Return, Typed, Local
  <2> QED BY <2>1, <2>2, Member DEF Booked
<1> QED BY <1>1, <1>2, <1>3, <1>4, <1>5, <1>6, <1>7, <1>8, <1>9, <1>10, <1>11, <1>12,
   <1>13, <1>14, <1>15, <1>16, <1>17, <1>18, <1>19, <1>20, <1>21, <1>22, <1>23, <1>24,
   <1>25, <1>26, <1>27, <1>28, <1>29, <1>30, <1>31, <1>32, <1>33 DEF CallStep,
   Goroutine, Setup, Dialling, Bridging, CalleeDone, ClosedCalleeDone, Parties

\* SharedAccounted is kept (src/pbx.go:89-128, 640-646).
LEMMA SharedStep ==
  ASSUME NEW c \in Calls, Booked(c), Others(c), SharedAccounted
  PROVE  SharedAccounted'
<1>1. \A d \in Calls \ {c} : h'[d].deferred = h[d].deferred
  BY DEF Others
<1>2. holders' = {d \in Calls : h'[d].deferred >= 1}
  BY <1>1 DEF Booked, SharedAccounted, Served
<1>3. bridges' = {d \in Calls : h'[d].deferred >= 5}
  BY <1>1 DEF Booked, SharedAccounted
<1> DEFINE S == {d \in Calls : h[d].deferred >= 2}
           T == {d \in Calls : h'[d].deferred >= 2}
<1>4. gauge' = Cardinality(T)
  <2>1. IsFiniteSet(S) /\ IsFiniteSet(T) /\ gauge = Cardinality(S)
    BY CallsAssumption, FS_Subset DEF SharedAccounted, Metered
  <2>2. Cardinality(S) \in Nat /\ Cardinality(T) \in Nat
    BY <2>1, FS_CardinalityType
  <2>3. CASE c \in S <=> c \in T
    <3>1. S = T
      BY <1>1, <2>3
    <3>2. gauge' = gauge
      BY <2>1, <2>2, <2>3 DEF Booked
    <3> QED BY <2>1, <3>1, <3>2
  <2>4. CASE c \notin S /\ c \in T
    <3>1. T = S \union {c}
      BY <1>1, <2>4
    <3>2. gauge' = gauge + 1
      BY <2>1, <2>2, <2>4 DEF Booked
    <3>3. Cardinality(S \union {c}) = Cardinality(S) + 1
      BY <2>1, <2>4, FS_AddElement
    <3> QED BY <2>1, <3>1, <3>2, <3>3
  <2>5. CASE c \in S /\ c \notin T
    <3>1. T = S \ {c}
      BY <1>1, <2>5
    <3>2. gauge' = gauge - 1
      BY <2>1, <2>2, <2>5 DEF Booked
    <3>3. Cardinality(S \ {c}) = Cardinality(S) - 1
      BY <2>1, <2>5, FS_RemoveElement
    <3> QED BY <2>1, <3>1, <3>2, <3>3
  <2> QED BY <2>3, <2>4, <2>5
<1> QED BY <1>2, <1>3, <1>4 DEF SharedAccounted, Served, Metered

----------------------------------------------------------------------------
(* Theorems                                                                 *)

\* The invariant is inductive (src/pbx.go:78-1047).
LEMMA Inductive == IInv /\ [Next]_vars => IInv'
<1> SUFFICES ASSUME IInv, [Next]_vars PROVE IInv'
  OBVIOUS
<1>1. CASE UNCHANGED vars
  BY <1>1 DEF vars, IInv, Typed, SharedAccounted, Served, Metered, CallSound, DefersSound,
     OutSound, LegSound, AnswerSound, GoneSound, BridgedSound, RecordsSound, MediaSound,
     OutRecord, InRecord
<1>2. CASE Next
  <2>1. PICK c \in Calls : CallStep(c)
    BY <1>2 DEF Next, CallStep
  <2>2. Typed /\ SharedAccounted /\ CallSound(c)
    BY DEF IInv
  <2>3. Typed' /\ Others(c) /\ OutSound(c)' /\ DefersSound(c)'
    BY <2>1, <2>2, TypedStep, Frame, OutStep, DefersStep DEF CallSound
  <2>4. Effect(c)
    BY <2>1, <2>2, EffectStep DEF CallSound
  <2>5. LegSound(c)' /\ AnswerSound(c)' /\ GoneSound(c)' /\ BridgedSound(c)'
    BY <2>2, <2>3, <2>4, LegStep, AnswerStep, GoneStep, BridgedStep DEF CallSound
  <2>6. RecordsSound(c)' /\ MediaSound(c)'
    BY <2>2, <2>4, RecordsStep, MediaStep DEF CallSound
  <2>7. SharedAccounted'
    BY <2>1, <2>2, <2>3, BookedStep, SharedStep DEF CallSound
  <2>8. ASSUME NEW d \in Calls \ {c} PROVE CallSound(d)'
    <3>1. CallSound(d)
      BY DEF IInv
    <3>2. /\ h'[d] = h[d] /\ caller'[d] = caller[d] /\ leg'[d] = leg[d]
          /\ confirmed'[d] = confirmed[d] /\ cdrs'[d] = cdrs[d]
      BY <2>3 DEF Others
    <3>3. DefersSound(d)' /\ OutSound(d)' /\ LegSound(d)' /\ AnswerSound(d)'
      BY <3>1, <3>2 DEF CallSound, DefersSound, OutSound, LegSound, AnswerSound
    <3>4. GoneSound(d)' /\ BridgedSound(d)' /\ MediaSound(d)'
      BY <3>1, <3>2 DEF CallSound, GoneSound, BridgedSound, MediaSound
    <3>5. RecordsSound(d)'
      BY <3>1, <3>2 DEF CallSound, RecordsSound, OutRecord, InRecord
    <3> QED BY <3>3, <3>4, <3>5 DEF CallSound
  <2> QED BY <2>3, <2>5, <2>6, <2>7, <2>8 DEF IInv, CallSound
<1> QED BY <1>1, <1>2 DEF vars

\* It holds before the first INVITE (src/pbx.go:78).
LEMMA Initial == Init => IInv
<1> SUFFICES ASSUME Init PROVE IInv
  OBVIOUS
<1>1. Typed
  BY EightDefers, ConfAssumption DEF Init, Typed, Local, Labels, NoLeg
<1>2. SharedAccounted
  <2>1. {c \in Calls : Served(c)} = {} /\ {c \in Calls : h[c].deferred >= 5} = {}
        /\ {c \in Calls : Metered(c)} = {}
    BY DEF Init, Served, Metered
  <2> QED BY <2>1, FS_EmptySet DEF Init, SharedAccounted
<1>3. ASSUME NEW c \in Calls PROVE CallSound(c)
  <2>1. /\ h[c].pc = "idle" /\ h[c].deferred = 0 /\ h[c].out = NoLeg /\ h[c].media = {}
        /\ ~h[c].answered /\ ~h[c].bridged /\ caller[c] = "none" /\ cdrs[c] = <<>>
        /\ \A l \in Legs : leg[c][l] = "none"
    BY DEF Init
  <2>2. {} # Both
    BY DEF Both
  <2> QED BY <2>1, <2>2 DEF CallSound, DefersSound, OutSound, LegSound, AnswerSound,
       GoneSound, BridgedSound, RecordsSound, MediaSound, Answering, Live, Up
<1> QED BY <1>1, <1>2, <1>3 DEF IInv

\* IInv is an invariant: every goroutine of handler has installed the defers of
\* the place it is in, and what it shares follows from them (src/pbx.go:78-1047).
THEOREM Invariance == Spec => []IInv
  BY Initial, Inductive, PTL DEF Spec

\* All variables keep their types; no call has more than two records
\* (src/pbx.go:78-1047).
THEOREM TypeCorrect == Spec => []TypeOK
<1>1. IInv => TypeOK
  <2> SUFFICES ASSUME IInv PROVE TypeOK
    OBVIOUS
  <2>1. holders \subseteq Calls /\ bridges \subseteq Calls
    BY DEF IInv, SharedAccounted
  <2>2. gauge \in 0..Cardinality(Calls)
    <3>1. {c \in Calls : Metered(c)} \subseteq Calls
      OBVIOUS
    <3>2. Cardinality({c \in Calls : Metered(c)}) <= Cardinality(Calls)
      BY <3>1, CallsAssumption, FS_Subset
    <3>3. Cardinality({c \in Calls : Metered(c)}) \in Nat /\ Cardinality(Calls) \in Nat
      BY <3>1, CallsAssumption, FS_Subset, FS_CardinalityType
    <3> QED BY <3>2, <3>3 DEF IInv, SharedAccounted
  <2>3. ASSUME NEW c \in Calls PROVE Len(cdrs[c]) <= 2
    <3>0. Len(cdrs[c]) \in Nat
      BY DEF IInv, Typed
    <3>1. RecordsSound(c) /\ h[c].deferred \in 0..8
      BY EightDefers DEF IInv, CallSound, Typed, Local
    <3>2. CASE cdrs[c] = <<>>
      BY <3>2
    <3>3. CASE cdrs[c] # <<>> /\ h[c].deferred >= 3
      <4>1. Len(cdrs[c]) = 1
        BY <3>1, <3>3 DEF RecordsSound
      <4> QED BY <3>0, <4>1
    <3>4. CASE cdrs[c] # <<>> /\ h[c].deferred <= 2
      <4>1. Len(cdrs[c]) = 1 \/ Len(cdrs[c]) = 2
        BY <3>1, <3>4 DEF RecordsSound
      <4>2. CASE Len(cdrs[c]) = 1
        BY <4>2
      <4>3. CASE Len(cdrs[c]) = 2
        BY <4>3
      <4> QED BY <4>1, <4>2, <4>3
    <3> QED BY <3>1, <3>2, <3>3, <3>4
  <2> QED BY <2>1, <2>2, <2>3 DEF IInv, Typed, TypeOK
<1> QED BY <1>1, Invariance, PTL

\* No path out of handler, BridgeCall or bridgeAnswer leaves a place of the
\* limiter, a dialog of the gauge or a bridge behind (src/pbx.go:89-128,
\* 640-646).
THEOREM SharedCorrect == Spec => []SharedAccounted
<1>1. IInv => SharedAccounted
  BY DEF IInv
<1> QED BY <1>1, Invariance, PTL

\* Once the incoming record is written, the caller or the routed endpoint is on
\* the line only if its Hangup failed (src/pbx.go:130-186, 672, 676-700).
THEOREM WaitsCorrect == Spec => []NobodyWaits
<1>1. IInv => NobodyWaits
  <2> SUFFICES ASSUME IInv, NEW c \in Billed
               PROVE  /\ caller[c] = "ended" \/ h[c].lostIn
                      /\ leg[c][0] \in {"none", "ended"} \/ 0 \in h[c].lost
    BY DEF NobodyWaits
  <2>1. c \in Calls /\ RecordsSound(c) /\ GoneSound(c) /\ h[c].deferred \in 0..8
    BY EightDefers DEF IInv, CallSound, Typed, Local, Billed
  <2>2. PICK i \in 1..Len(cdrs[c]) : cdrs[c][i].dir = "in"
    BY DEF Billed
  <2>3. cdrs[c] \in Seq(Record)
    BY <2>1 DEF IInv, Typed
  <2>4. cdrs[c] # <<>>
    BY <2>2, <2>3
  <2>5. h[c].deferred <= 2
    <3> SUFFICES ASSUME h[c].deferred >= 3 PROVE FALSE
      BY <2>1
    <3>1. Len(cdrs[c]) = 1 /\ OutRecord(c, cdrs[c][1])
      BY <2>1, <2>4 DEF RecordsSound
    <3>2. i = 1
      BY <3>1
    <3> QED BY <2>2, <3>1, <3>2 DEF OutRecord
  <2>6. (caller[c] = "ended" \/ h[c].lostIn) /\ h[c].pc \in {"unwind", "done"}
    BY <2>1, <2>4, <2>5 DEF RecordsSound
  <2>7. leg[c][0] \notin Live \/ 0 \in h[c].lost
    BY <2>1, <2>5, <2>6 DEF GoneSound
  <2>8. leg[c][0] \in {"none", "ended"} \union Live
    BY <2>1, Counts DEF IInv, Typed
  <2> QED BY <2>6, <2>7, <2>8
<1> QED BY <1>1, Invariance, PTL

\* No answer to the caller before a callee's, one callee after the other
\* (src/pbx.go:645-860).
THEOREM HuntCorrect == Spec => []HuntsInOrder
<1>1. IInv => HuntsInOrder
  <2> SUFFICES ASSUME IInv, NEW c \in Calls
               PROVE  /\ (caller[c] \in Up /\ ~Flows) =>
                           /\ h[c].out # NoLeg
                           /\ leg[c][h[c].out] \in Up \union {"ended"}
                      /\ Cardinality({l \in Legs : leg[c][l] \in Live}) <= 1
    BY DEF HuntsInOrder
  <2>1. AnswerSound(c) /\ LegSound(c)
    BY DEF IInv, CallSound
  <2>2. (caller[c] \in Up /\ ~Flows) => /\ h[c].out # NoLeg
                                        /\ leg[c][h[c].out] \in Up \union {"ended"}
    BY <2>1, ConfAssumption DEF AnswerSound, Legs, NoLeg
  <2> DEFINE L == {l \in Legs : leg[c][l] \in Live}
  <2>3. Cardinality(L) <= 1
    <3>1. CASE L = {}
      BY <3>1, FS_EmptySet
    <3>2. CASE L # {}
      <4>1. PICK l \in L : TRUE
        BY <3>2
      <4>2. L = {l}
        BY <2>1 DEF LegSound
      <4> QED BY <4>2, FS_Singleton
    <3> QED BY <3>1, <3>2
  <2> QED BY <2>2, <2>3
<1> QED BY <1>1, Invariance, PTL

\* The records of a call that is over tell what happened (src/pbx.go:130-186,
\* 676-700).
THEOREM RecordsCorrect == Spec => []RecordsAgree
<1>1. IInv => RecordsAgree
  <2> SUFFICES ASSUME IInv, NEW c \in Calls, CDREnable, At(c, "done"), cdrs[c] # <<>>
               PROVE  LET in == cdrs[c][Len(cdrs[c])] IN
                        /\ in.dir = "in" /\ in.answered => confirmed[c]
                        /\ confirmed[c] => in.answered \/ h[c].lostIn
                        /\ \A i \in 1..(Len(cdrs[c]) - 1) :
                             LET out == cdrs[c][i] IN
                               /\ out.dir = "out"
                               /\ out.bridged => out.answered
                               /\ out.answered => in.answered
                               /\ out.recorded = in.recorded
    BY DEF RecordsAgree
  <2>1. RecordsSound(c) /\ h[c].deferred = 0
    BY DEF IInv, CallSound, DefersSound, At
  <2>2. /\ Len(cdrs[c]) \in {1, 2} /\ InRecord(c, cdrs[c][Len(cdrs[c])])
        /\ Len(cdrs[c]) = 2 => OutRecord(c, cdrs[c][1])
    BY <2>1 DEF RecordsSound
  <2>3. \A i \in 1..(Len(cdrs[c]) - 1) : i = 1 /\ Len(cdrs[c]) = 2
    BY <2>2
  <2> QED BY <2>2, <2>3 DEF InRecord, OutRecord
<1> QED BY <1>1, Invariance, PTL

----------------------------------------------------------------------------
(* Only fallbacks are at fault                                              *)

\* Whether there is a fallback is decided by the route, and it is tried only if
\* there is one (src/pbx.go:440-520, 757-790).
LEMMA FallbackKept ==
  ASSUME NEW c \in Calls, Typed, OutSound(c), CallStep(c)
  PROVE  /\ h'[c].fallback = h[c].fallback \/ Moves(c, {"route"}, {"flow", "dial"})
         /\ Moves(c, {"invite", "waitanswer"}, {"nextfallback"}) => h[c].fallback
<1> USE DEF Typed, Local, Moves
<1>1. CASE Arrive(c)
  BY <1>1 DEF Arrive, At, Goto, Return
<1>2. CASE Refuse(c)
  BY <1>2 DEF Refuse, At, Goto, Return
<1>3. CASE Admit(c)
  BY <1>3 DEF Admit, At, Goto, Return
<1>4. CASE Check(c)
  BY <1>4 DEF Check, At, Goto, Return
<1>5. CASE Unauthorized(c)
  BY <1>5 DEF Unauthorized, At, Goto, Return
<1>6. CASE RejectRoute(c)
  BY <1>6 DEF RejectRoute, At, Goto, Return
<1>7. CASE AgentLeaves(c)
  BY <1>7 DEF AgentLeaves, At, Goto, Return
<1>8. CASE RejectDial(c)
  BY <1>8 DEF RejectDial, At, Goto, Return
<1>9. CASE StoreBridge(c)
  BY <1>9 DEF StoreBridge, At, Goto, Return
<1>10. CASE DialPrimary(c)
  BY <1>10 DEF DialPrimary, At, Goto, Return
<1>11. CASE PrimaryAnswers(c)
  BY <1>11 DEF PrimaryAnswers, At, Goto, Return
<1>12. CASE EarlyMedia(c)
  BY <1>12 DEF EarlyMedia, At, Goto, Return
<1>13. CASE PrimaryFails(c)
  BY <1>13 DEF PrimaryFails, At, Goto, Return
<1>14. CASE NextFallback(c)
  BY <1>14 DEF NextFallback, At, Goto, Return, FallbackError
<1>15. CASE FallbackFails(c)
  BY <1>15 DEF FallbackFails, At, Goto, Return, FallbackError
<1>16. CASE FallbackEarlyMedia(c)
  BY <1>16 DEF FallbackEarlyMedia, At, Goto, Return, FallbackError
<1>17. CASE FallbackAnswers(c)
  BY <1>17 DEF FallbackAnswers, At, Goto, Return
<1>18. CASE AnswerFails(c)
  BY <1>18 DEF AnswerFails, At, Goto, Return
<1>19. CASE SendAnswer(c)
  BY <1>19 DEF SendAnswer, At, Goto, Return
<1>20. CASE AnswerReturns(c)
  BY <1>20 DEF AnswerReturns, At, Goto, Return
<1>21. CASE StartRecording(c)
  BY <1>21 DEF StartRecording, At, Goto, Return
<1>22. CASE AddMediaIn(c)
  BY <1>22 DEF AddMediaIn, At, Goto, Return
<1>23. CASE AddMediaOut(c)
  BY <1>23 DEF AddMediaOut, At, Goto, Return
<1>24. CASE CallerDone(c)
  BY <1>24, CallerDoneAlternatives
<1>25. CASE CalleeEnded(c)
  BY <1>25 DEF CalleeEnded, At, Goto, Return
<1>26. CASE SixHours(c)
  BY <1>26 DEF SixHours, At, Goto, Return
<1>27. CASE MatchRoute(c)
  BY <1>27 DEF MatchRoute, At, Moves
<1>28. CASE Ack(c)
  <2>0. h[c].pc = "ack"
    BY <1>28, AckAlternatives
  <2>1. CASE h' = [h EXCEPT ![c].pc = "unwind"]
    BY <2>0, <2>1
  <2>2. CASE h' = [h EXCEPT ![c].pc = "talk", ![c].bridged = TRUE]
    BY <2>0, <2>2
  <2>3. CASE h' = [h EXCEPT ![c].pc = "unwind", ![c].bridged = TRUE]
    BY <2>0, <2>3
  <2> QED BY <1>28, <2>1, <2>2, <2>3, AckAlternatives
<1>29. CASE Unwind(c)
  BY <1>29 DEF Unwind, DeferFails, At, Goto
<1>30. CASE Parties(c)
  BY <1>30 DEF Parties, AgentAnswers, CallerConfirms, CallerHangsUp, CalleeHangsUp
<1> QED BY <1>1, <1>2, <1>3, <1>4, <1>5, <1>6, <1>7, <1>8, <1>9, <1>10, <1>11, <1>12,
   <1>13, <1>14, <1>15, <1>16, <1>17, <1>18, <1>19, <1>20, <1>21, <1>22, <1>23, <1>24,
   <1>25, <1>26, <1>27, <1>28, <1>29, <1>30 DEF CallStep, Goroutine, Setup, Dialling,
   Bridging, CalleeDone, ClosedCalleeDone

\* What a call without a fallback, and the records of a call with one, come to
\* (src/pbx.go:640-700, 757-800).
FaultSound(c) ==
  /\ h[c].pc \in SettingUp => leg[c][0] = "none" /\ h[c].out = NoLeg
  /\ h[c].deferred \in {7, 8} => leg[c][0] # "none"
  /\ \A l \in Legs : leg[c][l] \in Up => l = h[c].out
  /\ h[c].pc \in {"nextfallback", "fallback"} => h[c].fallback
  /\ h[c].out \notin {0, NoLeg} => h[c].fallback
  /\ h[c].out = NoLeg /\ leg[c][0] # "none" => h[c].fallback
  /\ CDREnable /\ leg[c][0] # "none" /\ h[c].pc \in {"unwind", "done"} =>
       /\ h[c].deferred \in 3..7 => Len(cdrs[c]) = IF h[c].out = NoLeg THEN 0 ELSE 1
       /\ h[c].deferred <= 2 => Len(cdrs[c]) = IF h[c].out = NoLeg THEN 1 ELSE 2

\* Every step keeps it (src/pbx.go:78-1047).
LEMMA FaultStep ==
  ASSUME NEW c \in Calls, Typed, Typed', CallSound(c), FaultSound(c), CallStep(c)
  PROVE  FaultSound(c)'
<1>1. Effect(c)
  BY EffectStep DEF CallSound
<1>2. /\ h[c].deferred \in 0..8 /\ h'[c].deferred \in 0..8
      /\ 0 \in Legs /\ NoLeg \notin Legs
  BY EightDefers, ConfAssumption DEF Typed, Local, Legs, NoLeg
<1>3. /\ h'[c].fallback = h[c].fallback \/ Moves(c, {"route"}, {"flow", "dial"})
      /\ Moves(c, {"invite", "waitanswer"}, {"nextfallback"}) => h[c].fallback
  BY FallbackKept DEF CallSound
<1>4. CASE SetupEffect(c)
  <2>1. /\ leg'[c] = leg[c] /\ h'[c].out = h[c].out /\ h[c].pc \in SettingUp
        /\ h'[c].pc \in SettingUp \union {"unwind", "done"}
        /\ h[c].deferred \notin {7, 8} /\ h'[c].deferred \notin {7, 8}
    BY <1>4 DEF SetupEffect, Moves, SettingUp, CallSound, DefersSound
  <2>2. leg[c][0] = "none" /\ h[c].out = NoLeg
    BY <2>1 DEF FaultSound
  <2> QED BY <2>1, <2>2 DEF FaultSound, SettingUp
<1>5. CASE DialEffect(c)
  <2>1. /\ h[c].pc \in {"newdialog", "invite", "waitanswer", "nextfallback", "fallback"}
        /\ h'[c].pc \in {"invite", "waitanswer", "nextfallback", "fallback", "answer",
                         "unwind"}
        /\ h'[c].deferred = 8
    BY <1>5 DEF DialEffect, Moves, CallSound, DefersSound
  <2>2. h'[c].fallback = h[c].fallback
    BY <1>3, <2>1 DEF Moves
  <2>3. leg'[c][0] # "none"
    BY <1>2, <1>5 DEF DialEffect, Moves, Rings, CallSound, DefersSound, FaultSound
  <2>4. ASSUME NEW l \in Legs, leg'[c][l] \in Up PROVE l = h'[c].out
    BY <1>2, <1>5, <2>4 DEF DialEffect, Moves, Rings, CallSound, OutSound, LegSound, Live,
       Up, FaultSound
  <2>5. h'[c].pc \in {"nextfallback", "fallback"} => h'[c].fallback
    BY <1>3, <1>5, <2>2 DEF DialEffect, Moves, FaultSound
  <2>6. h'[c].out # 0 => h'[c].fallback
    <3>1. CASE h[c].pc \in {"newdialog", "invite", "waitanswer"}
      BY <1>5, <3>1 DEF DialEffect, Moves, CallSound, OutSound
    <3>2. CASE h[c].pc \in {"nextfallback", "fallback"}
      BY <2>2, <3>2 DEF FaultSound
    <3> QED BY <2>1, <3>1, <3>2
  <2> QED BY <1>2, <2>1, <2>3, <2>4, <2>5, <2>6 DEF FaultSound, SettingUp
<1>6. CASE BridgeEffect(c)
  <2>1. /\ h[c].pc \in Answering /\ h'[c].pc \in Answering \union {"unwind"}
        /\ h'[c].deferred = 8 /\ h[c].deferred = 8 /\ h'[c].out = h[c].out
        /\ h[c].out \in Legs
    BY <1>6 DEF BridgeEffect, Moves, CallSound, DefersSound, OutSound
  <2>2. h'[c].fallback = h[c].fallback
    BY <1>3, <2>1 DEF Moves, Answering
  <2>3. leg'[c][0] # "none" /\ \A l \in Legs : leg'[c][l] \in Up => l = h'[c].out
    BY <1>2, <1>6, <2>1 DEF BridgeEffect, Rings, FaultSound, Up
  <2> QED BY <1>2, <2>1, <2>2, <2>3 DEF FaultSound, SettingUp, Answering
<1>7. CASE UnwindEffect(c)
  <2>1. /\ h[c].pc = "unwind" /\ h'[c].pc \in {"unwind", "done"}
        /\ h'[c].out = h[c].out
        /\ h'[c].deferred = IF h[c].deferred = 0 THEN 0 ELSE h[c].deferred - 1
    BY <1>2, <1>7 DEF UnwindEffect
  <2>2. h'[c].fallback = h[c].fallback
    BY <1>3, <2>1 DEF Moves
  <2>3. leg'[c][0] # "none" <=> leg[c][0] # "none"
    BY <1>2, <1>7 DEF UnwindEffect, Rings, FaultSound
  <2>4. \A l \in Legs : leg'[c][l] \in Up => l = h'[c].out
    BY <1>7, <2>1 DEF UnwindEffect, Rings, FaultSound, Up
  <2>5. ASSUME CDREnable, leg[c][0] # "none"
        PROVE  /\ h'[c].deferred \in 3..7 =>
                    Len(cdrs'[c]) = IF h[c].out = NoLeg THEN 0 ELSE 1
               /\ h'[c].deferred <= 2 =>
                    Len(cdrs'[c]) = IF h[c].out = NoLeg THEN 1 ELSE 2
    <3>1. CASE h[c].deferred = 8
      <4>1. cdrs[c] = <<>> /\ WriteOut(c) /\ h'[c].deferred = 7
        BY <1>7, <2>1, <3>1 DEF UnwindEffect, CallSound, RecordsSound
      <4>2. CASE h[c].out = NoLeg
        <5>1. Len(cdrs'[c]) = 0
          BY <4>1, <4>2 DEF WriteOut
        <5> QED BY <4>1, <4>2, <5>1
      <4>3. CASE h[c].out # NoLeg
        <5>1. Write(c, "out", h[c].answered) /\ h[c].answered \in BOOLEAN
          BY <2>5, <4>1, <4>3 DEF WriteOut, Typed, Local
        <5>2. Len(cdrs'[c]) = Len(cdrs[c]) + 1
          BY <5>1, Written
        <5>3. Len(cdrs'[c]) = 1
          BY <4>1, <5>2
        <5> QED BY <4>1, <4>3, <5>3
      <4> QED BY <4>2, <4>3
    <3>2. CASE h[c].deferred = 3
      <4>1. WriteIn(c) /\ h'[c].deferred = 2
        BY <1>7, <2>1, <3>2 DEF UnwindEffect
      <4>2. Write(c, "in", confirmed[c]) /\ confirmed[c] \in BOOLEAN
        BY <2>5, <4>1 DEF WriteIn, Typed
      <4>3. Len(cdrs'[c]) = Len(cdrs[c]) + 1
        BY <4>2, Written
      <4>4. Len(cdrs[c]) = IF h[c].out = NoLeg THEN 0 ELSE 1
        BY <2>1, <2>5, <3>2 DEF FaultSound
      <4> QED BY <4>1, <4>3, <4>4
    <3>3. CASE h[c].deferred \notin {3, 8}
      <4>1. cdrs'[c] = cdrs[c]
        BY <1>7, <3>3 DEF UnwindEffect
      <4>2. /\ h[c].deferred \in 3..7 => Len(cdrs[c]) = IF h[c].out = NoLeg THEN 0 ELSE 1
            /\ h[c].deferred <= 2 => Len(cdrs[c]) = IF h[c].out = NoLeg THEN 1 ELSE 2
        BY <2>1, <2>5 DEF FaultSound
      <4>3. /\ h'[c].deferred \in 3..7 => h[c].deferred \in 3..7
            /\ h'[c].deferred <= 2 => h[c].deferred <= 2
        BY <1>2, <2>1, <3>3
      <4> QED BY <4>1, <4>2, <4>3
    <3> QED BY <3>1, <3>2, <3>3
  <2>6. h'[c].deferred \in {7, 8} => leg[c][0] # "none"
    BY <1>2, <2>1 DEF FaultSound
  <2> QED BY <2>1, <2>2, <2>3, <2>4, <2>5, <2>6 DEF FaultSound, SettingUp
<1>8. CASE PartyEffect(c)
  <2>1. h'[c] = h[c] /\ cdrs'[c] = cdrs[c]
    BY <1>8 DEF PartyEffect
  <2>2. /\ leg'[c][0] # "none" <=> leg[c][0] # "none"
        /\ \A l \in Legs : leg'[c][l] \in Up => leg[c][l] \in Up
    BY <1>2, <1>8 DEF PartyEffect, Rings, Up
  <2> QED BY <2>1, <2>2 DEF FaultSound
<1> QED BY <1>1, <1>4, <1>5, <1>6, <1>7, <1>8 DEF Effect

\* For any number of fallbacks, hang ups that fail aside: without a fallback both
\* records are written and no callee is left; with one, one of the two may be
\* amiss, never both (src/pbx.go:672-700, 780-800).
THEOREM FaultsCorrect == Spec => []OnlyFallbacksAtFault
<1> DEFINE FInv == \A c \in Calls : FaultSound(c)
<1>1. Init => FInv
  <2> SUFFICES ASSUME Init, NEW c \in Calls PROVE FaultSound(c)
    OBVIOUS
  <2>1. /\ h[c].pc = "idle" /\ h[c].deferred = 0 /\ h[c].out = NoLeg
        /\ \A l \in Legs : leg[c][l] = "none"
    BY DEF Init
  <2>2. 0 \in Legs
    BY ConfAssumption DEF Legs
  <2> QED BY <2>1, <2>2 DEF FaultSound, SettingUp, Up
<1>2. IInv /\ IInv' /\ FInv /\ [Next]_vars => FInv'
  <2> SUFFICES ASSUME IInv, IInv', FInv, [Next]_vars, NEW d \in Calls
               PROVE  FaultSound(d)'
    OBVIOUS
  <2>1. FaultSound(d) /\ CallSound(d) /\ Typed /\ Typed'
    BY DEF IInv
  <2>2. CASE UNCHANGED vars
    BY <2>1, <2>2 DEF vars, FaultSound
  <2>3. CASE Next
    <3>1. PICK c \in Calls : CallStep(c)
      BY <2>3 DEF Next, CallStep
    <3>2. CASE c = d
      BY <2>1, <3>1, <3>2, FaultStep
    <3>3. CASE c # d
      <4>1. h'[d] = h[d] /\ leg'[d] = leg[d] /\ cdrs'[d] = cdrs[d]
        BY <2>1, <3>1, <3>3, Frame DEF Others
      <4> QED BY <2>1, <4>1 DEF FaultSound
    <3> QED BY <3>2, <3>3
  <2> QED BY <2>2, <2>3
<1>3. IInv /\ FInv => OnlyFallbacksAtFault
  <2> SUFFICES ASSUME IInv, FInv, NEW c \in Calls, At(c, "done")
               PROVE  /\ \A l \in Legs \ h[c].lost : leg[c][l] \in Up =>
                           l = h[c].out /\ l # 0 /\ h[c].fallback
                      /\ CDREnable /\ leg[c][0] # "none" =>
                           \/ Len(cdrs[c]) = 2
                           \/ /\ Len(cdrs[c]) = 1 /\ h[c].fallback
                              /\ \A l \in Legs : leg[c][l] \notin Up
    BY DEF OnlyFallbacksAtFault
  <2>1. FaultSound(c) /\ CallSound(c) /\ NoLeg \notin Legs
    BY ConfAssumption DEF IInv, Legs, NoLeg
  <2>2. h[c].pc = "done" /\ h[c].deferred = 0
    BY <2>1 DEF At, CallSound, DefersSound
  <2>3. leg[c][0] \notin Up \/ 0 \in h[c].lost
    BY <2>1, <2>2 DEF CallSound, GoneSound, Live, Up
  <2>4. \A l \in Legs \ h[c].lost :
          leg[c][l] \in Up => l = h[c].out /\ l # 0 /\ h[c].fallback
    BY <2>1, <2>3 DEF FaultSound
  <2>5. ASSUME CDREnable, leg[c][0] # "none"
        PROVE  \/ Len(cdrs[c]) = 2
               \/ /\ Len(cdrs[c]) = 1 /\ h[c].fallback
                  /\ \A l \in Legs : leg[c][l] \notin Up
    <3>1. Len(cdrs[c]) = IF h[c].out = NoLeg THEN 1 ELSE 2
      BY <2>1, <2>2, <2>5 DEF FaultSound
    <3> QED BY <2>1, <2>4, <2>5, <3>1 DEF FaultSound
  <2> QED BY <2>4, <2>5
<1> QED BY <1>1, <1>2, <1>3, Invariance, PTL DEF Spec

----------------------------------------------------------------------------
(* Handlers come to their end                                               *)

\* The defers run one after the other, each of them once (src/pbx.go:103-186,
\* 640-700).
LEMMA UnwindEnds ==
  ASSUME NEW c \in Calls, Typed, Unwind(c)
  PROVE  Left(c) \in Nat /\ Left(c)' < Left(c)
<1>1. h[c].deferred \in 0..8 /\ h[c].pc = "unwind"
  BY EightDefers DEF Typed, Local, Unwind, At
<1>2. CASE h[c].deferred > 0 /\ h' = [h EXCEPT ![c].deferred = @ - 1]
  <2>1. h'[c].pc = "unwind" /\ h'[c].deferred = h[c].deferred - 1
    BY <1>1, <1>2 DEF Typed, Local
  <2> QED BY <1>1, <2>1 DEF Left, At
<1>3. CASE Goto(c, "done")
  <2>1. h'[c].pc = "done"
    BY <1>3 DEF Goto, Typed, Local
  <2> QED BY <1>1, <2>1 DEF Left, At
<1>4. CASE h[c].deferred > 0 /\ DeferFails(c, Defers[h[c].deferred])
  <2>1. h'[c].pc = "unwind" /\ h'[c].deferred = h[c].deferred - 1
    BY <1>1, <1>4 DEF DeferFails, Typed, Local
  <2> QED BY <1>1, <2>1 DEF Left, At
<1> QED BY <1>2, <1>3, <1>4 DEF Unwind

\* The tries and the number of defers stay what they may be.
Steady(c) == h'[c].next = h[c].next /\ h'[c].deferred \in 0..8

\* Going on or returning is steady (src/pbx.go:78-1047).
LEMMA GotoSteady ==
  ASSUME NEW c \in Calls, Typed, NEW label, Goto(c, label)
  PROVE  Steady(c)
<1>1. h[c] \in Local /\ h \in [Calls -> Local]
  BY DEF Typed
<1>2. h'[c] = [h[c] EXCEPT !.pc = label]
  BY <1>1 DEF Goto
<1> QED BY <1>1, <1>2, EightDefers DEF Local, Steady

\* The ways from a label to one that is nearer to the end (src/pbx.go:78-1047).
Onward(c) ==
  \/ Moves(c, {"idle"}, {"limits"})
  \/ Moves(c, {"limits"}, {"checks", "done"})
  \/ Moves(c, {"checks"}, {"route", "unwind"})
  \/ Moves(c, {"route"}, {"flow", "dial", "unwind"})
  \/ Moves(c, {"flow"}, {"dial", "unwind"})
  \/ Moves(c, {"dial"}, {"newdialog", "unwind"})
  \/ Moves(c, {"newdialog"}, {"invite", "unwind"})
  \/ Moves(c, {"invite"}, {"waitanswer", "nextfallback", "answer", "unwind"})
  \/ Moves(c, {"waitanswer"}, {"nextfallback", "answer", "unwind"})
  \/ Moves(c, {"nextfallback"}, {"fallback", "unwind"})
  \/ Moves(c, {"fallback"}, {"answer", "unwind"})
  \/ Moves(c, {"answer"}, {"answering", "unwind"})
  \/ Moves(c, {"answering"}, {"record", "unwind"})
  \/ Moves(c, {"record"}, {"addin", "unwind"})
  \/ Moves(c, {"addin"}, {"addout", "unwind"})
  \/ Moves(c, {"addout"}, {"ack", "unwind"})
  \/ Moves(c, {"ack"}, {"talk", "unwind"})
  \/ Moves(c, {"talk"}, {"unwind"})

\* A step along one of these ways leads on (src/pbx.go:78-1047).
LEMMA Nearer ==
  ASSUME NEW c \in Calls, h[c] \in Local, Tries(c) \in Nat, Steady(c),
         h[c].pc = "fallback" => Tries(c) >= 2,
         Onward(c)
  PROVE  Left(c) \in Nat /\ Left(c)' < Left(c)
<1>1. Tries(c)' = Tries(c)
  BY DEF Steady, Tries
<1>2. CASE h'[c].pc = "unwind"
  <2>1. Left(c)' \in 1..9
    BY <1>2 DEF Left, At, Steady
  <2>2. h[c].pc \in Labels \ {"unwind", "done"}
    BY DEF Onward, Moves, Labels
  <2>3. Left(c) \in Nat /\ Left(c) >= 10
    <3>1. CASE h[c].pc = "idle"
      BY <3>1 DEF Left, At
    <3>2. CASE h[c].pc = "limits"
      BY <3>2 DEF Left, At
    <3>3. CASE h[c].pc = "checks"
      BY <3>3 DEF Left, At
    <3>4. CASE h[c].pc = "route"
      BY <3>4 DEF Left, At
    <3>5. CASE h[c].pc = "flow"
      BY <3>5 DEF Left, At
    <3>6. CASE h[c].pc = "dial"
      BY <3>6 DEF Left, At
    <3>7. CASE h[c].pc = "newdialog"
      BY <3>7 DEF Left, At
    <3>8. CASE h[c].pc = "invite"
      BY <3>8 DEF Left, At
    <3>9. CASE h[c].pc = "waitanswer"
      BY <3>9 DEF Left, At
    <3>10. CASE h[c].pc = "nextfallback"
      BY <3>10 DEF Left, At
    <3>11. CASE h[c].pc = "fallback"
      BY <3>11 DEF Left, At
    <3>12. CASE h[c].pc = "answer"
      BY <3>12 DEF Left, At
    <3>13. CASE h[c].pc = "answering"
      BY <3>13 DEF Left, At
    <3>14. CASE h[c].pc = "record"
      BY <3>14 DEF Left, At
    <3>15. CASE h[c].pc = "addin"
      BY <3>15 DEF Left, At
    <3>16. CASE h[c].pc = "addout"
      BY <3>16 DEF Left, At
    <3>17. CASE h[c].pc = "ack"
      BY <3>17 DEF Left, At
    <3>18. CASE h[c].pc = "talk"
      BY <3>18 DEF Left, At
    <3> QED BY <2>2, <3>1, <3>2, <3>3, <3>4, <3>5, <3>6, <3>7, <3>8, <3>9,
       <3>10, <3>11, <3>12, <3>13, <3>14, <3>15, <3>16, <3>17, <3>18 DEF Labels
  <2> QED BY <2>1, <2>3
<1>3. CASE h'[c].pc = "done"
  <2>1. h[c].pc = "limits"
    BY <1>3 DEF Onward, Moves
  <2> QED BY <1>3, <2>1 DEF Left, At
<1>4. CASE h[c].pc \in {"idle", "limits", "checks", "route", "flow", "dial", "newdialog"} /\ h'[c].pc \notin {"unwind", "done"}
  <2>1. CASE h[c].pc = "idle"
    <3>1. h'[c].pc \in {"limits"}
      BY <1>4, <2>1 DEF Onward, Moves
    <3> QED BY <1>1, <2>1, <3>1 DEF Left, At
  <2>2. CASE h[c].pc = "limits"
    <3>1. h'[c].pc \in {"checks"}
      BY <1>4, <2>2 DEF Onward, Moves
    <3> QED BY <1>1, <2>2, <3>1 DEF Left, At
  <2>3. CASE h[c].pc = "checks"
    <3>1. h'[c].pc \in {"route"}
      BY <1>4, <2>3 DEF Onward, Moves
    <3> QED BY <1>1, <2>3, <3>1 DEF Left, At
  <2>4. CASE h[c].pc = "route"
    <3>1. h'[c].pc \in {"flow", "dial"}
      BY <1>4, <2>4 DEF Onward, Moves
    <3> QED BY <1>1, <2>4, <3>1 DEF Left, At
  <2>5. CASE h[c].pc = "flow"
    <3>1. h'[c].pc \in {"dial"}
      BY <1>4, <2>5 DEF Onward, Moves
    <3> QED BY <1>1, <2>5, <3>1 DEF Left, At
  <2>6. CASE h[c].pc = "dial"
    <3>1. h'[c].pc \in {"newdialog"}
      BY <1>4, <2>6 DEF Onward, Moves
    <3> QED BY <1>1, <2>6, <3>1 DEF Left, At
  <2>7. CASE h[c].pc = "newdialog"
    <3>1. h'[c].pc \in {"invite"}
      BY <1>4, <2>7 DEF Onward, Moves
    <3> QED BY <1>1, <2>7, <3>1 DEF Left, At
  <2> QED BY <1>4, <2>1, <2>2, <2>3, <2>4, <2>5, <2>6, <2>7
<1>5. CASE h[c].pc \in {"invite", "waitanswer", "nextfallback", "fallback"} /\ h'[c].pc \notin {"unwind", "done"}
  <2>1. CASE h[c].pc = "invite"
    <3>1. h'[c].pc \in {"waitanswer", "nextfallback", "answer"}
      BY <1>5, <2>1 DEF Onward, Moves
    <3> QED BY <1>1, <2>1, <3>1 DEF Left, At
  <2>2. CASE h[c].pc = "waitanswer"
    <3>1. h'[c].pc \in {"nextfallback", "answer"}
      BY <1>5, <2>2 DEF Onward, Moves
    <3> QED BY <1>1, <2>2, <3>1 DEF Left, At
  <2>3. CASE h[c].pc = "nextfallback"
    <3>1. h'[c].pc \in {"fallback"}
      BY <1>5, <2>3 DEF Onward, Moves
    <3> QED BY <1>1, <2>3, <3>1 DEF Left, At
  <2>4. CASE h[c].pc = "fallback"
    <3>1. h'[c].pc \in {"answer"}
      BY <1>5, <2>4 DEF Onward, Moves
    <3> QED BY <1>1, <2>4, <3>1 DEF Left, At
  <2> QED BY <1>5, <2>1, <2>2, <2>3, <2>4
<1>6. CASE h[c].pc \in {"answer", "answering", "record", "addin", "addout", "ack"} /\ h'[c].pc \notin {"unwind", "done"}
  <2>1. CASE h[c].pc = "answer"
    <3>1. h'[c].pc \in {"answering"}
      BY <1>6, <2>1 DEF Onward, Moves
    <3> QED BY <1>1, <2>1, <3>1 DEF Left, At
  <2>2. CASE h[c].pc = "answering"
    <3>1. h'[c].pc \in {"record"}
      BY <1>6, <2>2 DEF Onward, Moves
    <3> QED BY <1>1, <2>2, <3>1 DEF Left, At
  <2>3. CASE h[c].pc = "record"
    <3>1. h'[c].pc \in {"addin"}
      BY <1>6, <2>3 DEF Onward, Moves
    <3> QED BY <1>1, <2>3, <3>1 DEF Left, At
  <2>4. CASE h[c].pc = "addin"
    <3>1. h'[c].pc \in {"addout"}
      BY <1>6, <2>4 DEF Onward, Moves
    <3> QED BY <1>1, <2>4, <3>1 DEF Left, At
  <2>5. CASE h[c].pc = "addout"
    <3>1. h'[c].pc \in {"ack"}
      BY <1>6, <2>5 DEF Onward, Moves
    <3> QED BY <1>1, <2>5, <3>1 DEF Left, At
  <2>6. CASE h[c].pc = "ack"
    <3>1. h'[c].pc \in {"talk"}
      BY <1>6, <2>6 DEF Onward, Moves
    <3> QED BY <1>1, <2>6, <3>1 DEF Left, At
  <2> QED BY <1>6, <2>1, <2>2, <2>3, <2>4, <2>5, <2>6
<1> QED BY <1>2, <1>3, <1>4, <1>5, <1>6 DEF Onward, Moves

\* Before a callee is called (src/pbx.go:78-190, 300-640).
LEMMA SetupEnds ==
  ASSUME NEW c \in Calls, Typed, Arrive(c) \/ Setup(c)
  PROVE  Left(c) \in Nat /\ Left(c)' < Left(c)
<1> USE EightDefers DEF Typed, Local
<1>0. h[c] \in Local /\ Tries(c) \in Nat
  BY ConfAssumption DEF Tries
<1>1. CASE Arrive(c)
  <2>1. Moves(c, {"idle"}, {"limits"})
    BY <1>1 DEF Arrive, Moves, At, Goto, Return, FallbackError
  <2>2. Steady(c)
    BY <1>1 DEF Arrive, Steady, Goto, Return, FallbackError
  <2>3. Onward(c)
    BY <2>1 DEF Onward, Moves
  <2>4. h[c].pc # "fallback"
    BY <2>1 DEF Moves
  <2> QED BY <1>0, <2>2, <2>3, <2>4, Nearer
<1>2. CASE Refuse(c)
  <2>1. Moves(c, {"limits"}, {"done"})
    BY <1>2 DEF Refuse, Moves, At, Goto, Return, FallbackError
  <2>2. Steady(c)
    BY <1>2 DEF Refuse, Steady, Goto, Return, FallbackError
  <2>3. Onward(c)
    BY <2>1 DEF Onward, Moves
  <2>4. h[c].pc # "fallback"
    BY <2>1 DEF Moves
  <2> QED BY <1>0, <2>2, <2>3, <2>4, Nearer
<1>3. CASE Admit(c)
  <2>1. Moves(c, {"limits"}, {"checks"})
    BY <1>3 DEF Admit, Limiter!Admit, Moves, At, Goto, Return, FallbackError
  <2>2. Steady(c)
    BY <1>3 DEF Admit, Limiter!Admit, Steady, Goto, Return, FallbackError
  <2>3. Onward(c)
    BY <2>1 DEF Onward, Moves
  <2>4. h[c].pc # "fallback"
    BY <2>1 DEF Moves
  <2> QED BY <1>0, <2>2, <2>3, <2>4, Nearer
<1>4. CASE Check(c)
  <2>1. Moves(c, {"checks"}, {"route", "unwind"})
    BY <1>4 DEF Check, Moves, At, Goto, Return, FallbackError
  <2>2. Steady(c)
    BY <1>4 DEF Check, Steady, Goto, Return, FallbackError
  <2>3. Onward(c)
    BY <2>1 DEF Onward, Moves
  <2>4. h[c].pc # "fallback"
    BY <2>1 DEF Moves
  <2> QED BY <1>0, <2>2, <2>3, <2>4, Nearer
<1>5. CASE Unauthorized(c)
  <2>1. Moves(c, {"route"}, {"unwind"})
    BY <1>5 DEF Unauthorized, Moves, At, Goto, Return, FallbackError
  <2>2. Steady(c)
    BY <1>5 DEF Unauthorized, Steady, Goto, Return, FallbackError
  <2>3. Onward(c)
    BY <2>1 DEF Onward, Moves
  <2>4. h[c].pc # "fallback"
    BY <2>1 DEF Moves
  <2> QED BY <1>0, <2>2, <2>3, <2>4, Nearer
<1>6. CASE RejectRoute(c)
  <2>1. Moves(c, {"route"}, {"unwind"})
    BY <1>6 DEF RejectRoute, Moves, At, Goto, Return, FallbackError
  <2>2. Steady(c)
    BY <1>6 DEF RejectRoute, Steady, Goto, Return, FallbackError
  <2>3. Onward(c)
    BY <2>1 DEF Onward, Moves
  <2>4. h[c].pc # "fallback"
    BY <2>1 DEF Moves
  <2> QED BY <1>0, <2>2, <2>3, <2>4, Nearer
<1>7. CASE MatchRoute(c)
  <2>1. Moves(c, {"route"}, {"flow", "dial"})
    BY <1>7 DEF MatchRoute, Moves, At, Goto, Return, FallbackError
  <2>2. Steady(c)
    BY <1>7 DEF MatchRoute, Steady, Goto, Return, FallbackError
  <2>3. Onward(c)
    BY <2>1 DEF Onward, Moves
  <2>4. h[c].pc # "fallback"
    BY <2>1 DEF Moves
  <2> QED BY <1>0, <2>2, <2>3, <2>4, Nearer
<1>8. CASE AgentLeaves(c)
  <2>1. Moves(c, {"flow"}, {"dial", "unwind"})
    BY <1>8 DEF AgentLeaves, Moves, At, Goto, Return, FallbackError
  <2>2. Steady(c)
    BY <1>8, GotoSteady DEF AgentLeaves, Return
  <2>3. Onward(c)
    BY <2>1 DEF Onward, Moves
  <2>4. h[c].pc # "fallback"
    BY <2>1 DEF Moves
  <2> QED BY <1>0, <2>2, <2>3, <2>4, Nearer
<1>9. CASE RejectDial(c)
  <2>1. Moves(c, {"dial"}, {"unwind"})
    BY <1>9 DEF RejectDial, Moves, At, Goto, Return, FallbackError
  <2>2. Steady(c)
    BY <1>9 DEF RejectDial, Steady, Goto, Return, FallbackError
  <2>3. Onward(c)
    BY <2>1 DEF Onward, Moves
  <2>4. h[c].pc # "fallback"
    BY <2>1 DEF Moves
  <2> QED BY <1>0, <2>2, <2>3, <2>4, Nearer
<1>10. CASE StoreBridge(c)
  <2>1. Moves(c, {"dial"}, {"newdialog"})
    BY <1>10 DEF StoreBridge, Moves, At, Goto, Return, FallbackError
  <2>2. Steady(c)
    BY <1>10 DEF StoreBridge, Steady, Goto, Return, FallbackError
  <2>3. Onward(c)
    BY <2>1 DEF Onward, Moves
  <2>4. h[c].pc # "fallback"
    BY <2>1 DEF Moves
  <2> QED BY <1>0, <2>2, <2>3, <2>4, Nearer
<1>11. CASE DialPrimary(c)
  <2>1. Moves(c, {"newdialog"}, {"invite", "unwind"})
    BY <1>11 DEF DialPrimary, Moves, At, Goto, Return, FallbackError
  <2>2. Steady(c)
    <3>1. CASE Return(c)
      BY <3>1, GotoSteady DEF Return
    <3>2. CASE h' = [h EXCEPT ![c].pc = "invite", ![c].deferred = 8, ![c].out = 0]
      BY <3>2 DEF Steady
    <3> QED BY <1>11, <3>1, <3>2 DEF DialPrimary
  <2>3. Onward(c)
    BY <2>1 DEF Onward, Moves
  <2>4. h[c].pc # "fallback"
    BY <2>1 DEF Moves
  <2> QED BY <1>0, <2>2, <2>3, <2>4, Nearer
<1> QED BY <1>1, <1>2, <1>3, <1>4, <1>5, <1>6, <1>7, <1>8, <1>9, <1>10, <1>11 DEF Setup

\* While callees are called: a fallback that fails is not tried again
\* (src/pbx.go:640-800, 1002-1047).
LEMMA DialEnds ==
  ASSUME NEW c \in Calls, Typed, OutSound(c), Dialling(c)
  PROVE  Left(c) \in Nat /\ Left(c)' < Left(c)
<1> USE EightDefers DEF Typed, Local
<1>0. h[c] \in Local /\ Tries(c) \in Nat /\ (h[c].pc = "fallback" /\ OutSound(c) => Tries(c) >= 2)
  BY ConfAssumption DEF Tries, OutSound, Legs
<1>1. CASE PrimaryAnswers(c)
  <2>1. Moves(c, {"invite", "waitanswer"}, {"answer"})
    BY <1>1 DEF PrimaryAnswers, Moves, At, Goto, Return, FallbackError
  <2>2. Steady(c)
    BY <1>1 DEF PrimaryAnswers, Steady, Goto, Return, FallbackError
  <2>3. Onward(c)
    BY <2>1 DEF Onward, Moves
  <2> QED BY <1>0, <2>2, <2>3, Nearer
<1>2. CASE EarlyMedia(c)
  <2>1. Moves(c, {"invite"}, {"waitanswer", "unwind"})
    BY <1>2 DEF EarlyMedia, Moves, At, Goto, Return, FallbackError
  <2>2. Steady(c)
    BY <1>2, GotoSteady DEF EarlyMedia, Return
  <2>3. Onward(c)
    BY <2>1 DEF Onward, Moves
  <2> QED BY <1>0, <2>2, <2>3, Nearer
<1>3. CASE PrimaryFails(c)
  <2>1. Moves(c, {"invite", "waitanswer"}, {"nextfallback", "unwind"})
    BY <1>3 DEF PrimaryFails, Moves, At, Goto, Return, FallbackError
  <2>2. Steady(c)
    BY <1>3, GotoSteady DEF PrimaryFails, Return
  <2>3. Onward(c)
    BY <2>1 DEF Onward, Moves
  <2> QED BY <1>0, <2>2, <2>3, Nearer
<1>4. CASE NextFallback(c)
  <2>1. Moves(c, {"nextfallback"}, {"fallback", "unwind"})
    BY <1>4 DEF NextFallback, Moves, At, Goto, Return, FallbackError
  <2>2. Steady(c)
    <3>1. CASE FallbackError(c)
      BY <3>1 DEF FallbackError, Steady
    <3>2. CASE Goto(c, "fallback")
      BY <3>2, GotoSteady
    <3> QED BY <1>4, <3>1, <3>2 DEF NextFallback
  <2>3. Onward(c)
    BY <2>1 DEF Onward, Moves
  <2> QED BY <1>0, <2>2, <2>3, Nearer
<1>5. CASE FallbackEarlyMedia(c)
  <2>1. Moves(c, {"fallback"}, {"unwind"})
    BY <1>5 DEF FallbackEarlyMedia, Moves, At, Goto, Return, FallbackError
  <2>2. Steady(c)
    BY <1>5 DEF FallbackEarlyMedia, Steady, Goto, Return, FallbackError
  <2>3. Onward(c)
    BY <2>1 DEF Onward, Moves
  <2> QED BY <1>0, <2>2, <2>3, Nearer
<1>6. CASE FallbackAnswers(c)
  <2>1. Moves(c, {"fallback"}, {"answer"})
    BY <1>6 DEF FallbackAnswers, Moves, At, Goto, Return, FallbackError
  <2>2. Steady(c)
    BY <1>6 DEF FallbackAnswers, Steady, Goto, Return, FallbackError
  <2>3. Onward(c)
    BY <2>1 DEF Onward, Moves
  <2> QED BY <1>0, <2>2, <2>3, Nearer
<1>7. CASE FallbackFails(c)
  <2>1. CASE FallbackError(c)
    <3>1. Onward(c) /\ Steady(c)
      BY <1>7, <2>1 DEF FallbackFails, FallbackError, Onward, Moves, Steady, At
    <3> QED BY <1>0, <3>1, Nearer
  <2>2. CASE h' = [h EXCEPT ![c].pc = "nextfallback", ![c].next = @ + 1]
    <3>1. h[c].pc = "fallback" /\ h'[c].pc = "nextfallback" /\ h'[c].next = h[c].next + 1
      BY <1>7, <2>2 DEF FallbackFails, At
    <3>2. Tries(c)' = Tries(c) - 2
      BY <1>0, <3>1, ConfAssumption DEF Tries
    <3> QED BY <1>0, <3>1, <3>2 DEF Left, At
  <2> QED BY <1>7, <2>1, <2>2 DEF FallbackFails
<1> QED BY <1>1, <1>2, <1>3, <1>4, <1>5, <1>6, <1>7 DEF Dialling

\* Once a callee has answered (src/pbx.go:800-1000).
LEMMA BridgeEnds ==
  ASSUME NEW c \in Calls, Typed, OutSound(c),
         Bridging(c) \/ SixHours(c) \/ ClosedCalleeDone(c)
  PROVE  Left(c) \in Nat /\ Left(c)' < Left(c)
<1> USE EightDefers DEF Typed, Local
<1>0. h[c] \in Local /\ Tries(c) \in Nat
  BY ConfAssumption DEF Tries
<1>1. CASE AnswerFails(c)
  <2>1. Moves(c, {"answer"}, {"unwind"})
    BY <1>1 DEF AnswerFails, Moves, At, Goto, Return, FallbackError
  <2>2. Steady(c)
    BY <1>1 DEF AnswerFails, Steady, Goto, Return, FallbackError
  <2>3. Onward(c)
    BY <2>1 DEF Onward, Moves
  <2>4. h[c].pc # "fallback"
    BY <2>1 DEF Moves
  <2> QED BY <1>0, <2>2, <2>3, <2>4, Nearer
<1>2. CASE SendAnswer(c)
  <2>1. Moves(c, {"answer"}, {"answering"})
    BY <1>2 DEF SendAnswer, Moves, At, Goto, Return, FallbackError
  <2>2. Steady(c)
    BY <1>2 DEF SendAnswer, Steady, Goto, Return, FallbackError
  <2>3. Onward(c)
    BY <2>1 DEF Onward, Moves
  <2>4. h[c].pc # "fallback"
    BY <2>1 DEF Moves
  <2> QED BY <1>0, <2>2, <2>3, <2>4, Nearer
<1>3. CASE AnswerReturns(c)
  <2>1. Moves(c, {"answering"}, {"record", "unwind"})
    BY <1>3 DEF AnswerReturns, Moves, At, Goto, Return, FallbackError
  <2>2. Steady(c)
    <3>1. CASE Return(c)
      BY <3>1 DEF Steady, Goto, Return
    <3>2. CASE h' = [h EXCEPT ![c].pc = "record", ![c].answered = TRUE]
      BY <3>2 DEF Steady
    <3> QED BY <1>3, <3>1, <3>2 DEF AnswerReturns
  <2>3. Onward(c)
    BY <2>1 DEF Onward, Moves
  <2>4. h[c].pc # "fallback"
    BY <2>1 DEF Moves
  <2> QED BY <1>0, <2>2, <2>3, <2>4, Nearer
<1>4. CASE StartRecording(c)
  <2>1. Moves(c, {"record"}, {"addin", "unwind"})
    BY <1>4 DEF StartRecording, Moves, At, Goto, Return, FallbackError
  <2>2. Steady(c)
    <3>1. CASE Return(c)
      BY <3>1, GotoSteady DEF Return
    <3>2. CASE \E recording \in BOOLEAN :
                 h' = [h EXCEPT ![c].pc = "addin", ![c].recorded = recording]
      <4>1. h'[c].next = h[c].next /\ h'[c].deferred = h[c].deferred
        BY <3>2
      <4> QED BY <4>1 DEF Steady
    <3> QED BY <1>4, <3>1, <3>2 DEF StartRecording
  <2>3. Onward(c)
    BY <2>1 DEF Onward, Moves
  <2>4. h[c].pc # "fallback"
    BY <2>1 DEF Moves
  <2> QED BY <1>0, <2>2, <2>3, <2>4, Nearer
<1>5. CASE AddMediaIn(c)
  <2>1. Moves(c, {"addin"}, {"addout", "unwind"})
    BY <1>5 DEF AddMediaIn, Moves, At, Goto, Return, FallbackError
  <2>2. Steady(c)
    <3>1. CASE Return(c)
      BY <3>1, GotoSteady DEF Return
    <3>2. CASE h' = [h EXCEPT ![c].pc = "addout", ![c].media = {"in"}]
      <4>1. h'[c] = [h[c] EXCEPT !.pc = "addout", !.media = {"in"}]
        BY <3>2
      <4> QED BY <1>0, <4>1 DEF Steady
    <3> QED BY <1>5, <3>1, <3>2 DEF AddMediaIn
  <2>3. Onward(c)
    BY <2>1 DEF Onward, Moves
  <2>4. h[c].pc # "fallback"
    BY <2>1 DEF Moves
  <2> QED BY <1>0, <2>2, <2>3, <2>4, Nearer
<1>6. CASE AddMediaOut(c)
  <2>1. Moves(c, {"addout"}, {"ack", "unwind"})
    BY <1>6 DEF AddMediaOut, Moves, At, Goto, Return, FallbackError
  <2>2. Steady(c)
    <3>1. CASE Return(c)
      BY <3>1, GotoSteady DEF Return
    <3>2. CASE h' = [h EXCEPT ![c].pc = "ack", ![c].media = {"in", "out"}]
      <4>1. h'[c] = [h[c] EXCEPT !.pc = "ack", !.media = {"in", "out"}]
        BY <3>2
      <4> QED BY <1>0, <4>1 DEF Steady
    <3> QED BY <1>6, <3>1, <3>2 DEF AddMediaOut
  <2>3. Onward(c)
    BY <2>1 DEF Onward, Moves
  <2>4. h[c].pc # "fallback"
    BY <2>1 DEF Moves
  <2> QED BY <1>0, <2>2, <2>3, <2>4, Nearer
<1>7. CASE Ack(c)
  <2>1. Moves(c, {"ack"}, {"talk", "unwind"})
    BY <1>7, AckAlternatives, AckLocal DEF Moves
  <2>2. Steady(c)
    <3>1. h'[c].deferred = h[c].deferred /\ Keeps(c)
      BY <1>7, AckLocal
    <3> QED BY <1>0, <3>1 DEF Steady, Keeps
  <2>3. Onward(c)
    BY <2>1 DEF Onward, Moves
  <2>4. h[c].pc # "fallback"
    BY <2>1 DEF Moves
  <2> QED BY <1>0, <2>2, <2>3, <2>4, Nearer
<1>8. CASE CallerDone(c)
  <2>1. Moves(c, {"talk"}, {"unwind"})
    BY <1>8, CallerDoneAlternatives DEF Moves
  <2>2. Steady(c)
    BY <1>0, <1>8, CallerDoneAlternatives DEF Steady, Keeps
  <2>3. Onward(c)
    BY <2>1 DEF Onward, Moves
  <2>4. h[c].pc # "fallback"
    BY <2>1 DEF Moves
  <2> QED BY <1>0, <2>2, <2>3, <2>4, Nearer
<1>9. CASE CalleeEnded(c)
  <2>1. Moves(c, {"talk"}, {"unwind"})
    BY <1>9 DEF CalleeEnded, Moves, At, Goto, Return, FallbackError
  <2>2. Steady(c)
    BY <1>9 DEF CalleeEnded, Steady, Goto, Return, FallbackError
  <2>3. Onward(c)
    BY <2>1 DEF Onward, Moves
  <2>4. h[c].pc # "fallback"
    BY <2>1 DEF Moves
  <2> QED BY <1>0, <2>2, <2>3, <2>4, Nearer
<1>10. CASE SixHours(c)
  <2>1. Moves(c, {"talk"}, {"unwind"})
    BY <1>10 DEF SixHours, Moves, At, Goto, Return, FallbackError
  <2>2. Steady(c)
    BY <1>10 DEF SixHours, Steady, Goto, Return, FallbackError
  <2>3. Onward(c)
    BY <2>1 DEF Onward, Moves
  <2>4. h[c].pc # "fallback"
    BY <2>1 DEF Moves
  <2> QED BY <1>0, <2>2, <2>3, <2>4, Nearer
<1> QED BY <1>1, <1>2, <1>3, <1>4, <1>5, <1>6, <1>7, <1>8, <1>9, <1>10
   DEF Bridging, CalleeDone, ClosedCalleeDone

\* For any number of fallbacks and however the parties behave, a handler makes a
\* bounded number of steps (src/pbx.go:78-190, 1002-1047).
THEOREM HandlersCorrect == Spec => HandlersEnd
<1>1. IInv /\ [Next]_vars =>
        [\A c \in Calls : h'[c] # h[c] => Left(c) \in Nat /\ Left(c)' < Left(c)]_vars
  <2> SUFFICES ASSUME IInv, Next, NEW c \in Calls, h'[c] # h[c]
               PROVE  Left(c) \in Nat /\ Left(c)' < Left(c)
    OBVIOUS
  <2>1. Typed /\ OutSound(c)
    BY DEF IInv, CallSound
  <2>2. PICK d \in Calls : CallStep(d)
    BY DEF Next, CallStep
  <2>3. d = c
    BY <2>1, <2>2, Frame DEF Others
  <2>4. ~Parties(c)
    BY DEF Parties, AgentAnswers, CallerConfirms, CallerHangsUp, CalleeHangsUp
  <2> QED BY <2>1, <2>2, <2>3, <2>4, SetupEnds, DialEnds, BridgeEnds, UnwindEnds
          DEF CallStep, Goroutine
<1> QED BY <1>1, Invariance, PTL DEF Spec, HandlersEnd

----------------------------------------------------------------------------
(* CallBridge implements CallService                                        *)

\* Whether a call is billed depends on its records only (src/pbx.go:130-186).
InBill(c) == \E i \in 1..Len(cdrs[c]) : cdrs[c][i].dir = "in"

\* Records are only ever appended, an incoming one by the third defer alone
\* (src/pbx.go:130-186, 676-700).
LEMMA BillStep ==
  ASSUME NEW c \in Calls, Typed, Effect(c), RecordsSound(c)
  PROVE  InBill(c)' <=> \/ InBill(c)
                        \/ UnwindEffect(c) /\ h[c].deferred = 3 /\ CDREnable
<1>1. CASE UnwindEffect(c) /\ h[c].deferred = 8
  <2>1. WriteOut(c)
    BY <1>1 DEF UnwindEffect
  <2>2. CASE cdrs' = cdrs
    BY <1>1, <2>2 DEF InBill
  <2>3. CASE Write(c, "out", h[c].answered)
    <3>1. h[c].answered \in BOOLEAN
      BY DEF Typed, Local
    <3>2. /\ Len(cdrs'[c]) = Len(cdrs[c]) + 1
          /\ cdrs'[c][Len(cdrs'[c])] = NewRecord(c, "out", h[c].answered)
          /\ \A i \in 1..Len(cdrs[c]) : cdrs'[c][i] = cdrs[c][i]
      BY <2>3, <3>1, Written
    <3>3. Len(cdrs[c]) \in Nat
      BY DEF Typed
    <3>4. NewRecord(c, "out", h[c].answered).dir = "out"
      BY DEF NewRecord
    <3>5. cdrs'[c][Len(cdrs[c]) + 1].dir = "out"
      BY <3>2, <3>4
    <3>6. \A i \in 1..(Len(cdrs[c]) + 1) : i \in 1..Len(cdrs[c]) \/ i = Len(cdrs[c]) + 1
      BY <3>3
    <3>7. 1..Len(cdrs[c]) \subseteq 1..(Len(cdrs[c]) + 1)
      BY <3>3
    <3>8. InBill(c) => InBill(c)'
      BY <3>2, <3>7 DEF InBill
    <3>9. InBill(c)' => InBill(c)
      BY <3>2, <3>5, <3>6 DEF InBill
    <3> QED BY <1>1, <3>8, <3>9
  <2> QED BY <2>1, <2>2, <2>3 DEF WriteOut
<1>2. CASE UnwindEffect(c) /\ h[c].deferred = 3 /\ CDREnable
  <2>1. Write(c, "in", confirmed[c]) /\ confirmed[c] \in BOOLEAN
    BY <1>2 DEF UnwindEffect, WriteIn, Typed
  <2>2. /\ Len(cdrs'[c]) = Len(cdrs[c]) + 1
        /\ cdrs'[c][Len(cdrs'[c])] = NewRecord(c, "in", confirmed[c])
    BY <2>1, Written
  <2>3. Len(cdrs[c]) \in Nat
    BY DEF Typed
  <2>4. NewRecord(c, "in", confirmed[c]).dir = "in"
    BY DEF NewRecord
  <2>5. Len(cdrs'[c]) \in 1..Len(cdrs'[c]) /\ cdrs'[c][Len(cdrs'[c])].dir = "in"
    BY <2>2, <2>3, <2>4
  <2> QED BY <1>2, <2>5 DEF InBill, UnwindEffect
<1>3. CASE UnwindEffect(c) /\ h[c].deferred = 3 /\ ~CDREnable
  BY <1>3 DEF UnwindEffect, WriteIn, InBill
<1>4. CASE UnwindEffect(c) /\ h[c].deferred \notin {3, 8}
  BY <1>4 DEF UnwindEffect, InBill
<1>5. CASE ~UnwindEffect(c)
  <2>1. cdrs'[c] = cdrs[c]
    BY <1>5 DEF Effect, SetupEffect, DialEffect, BridgeEffect, PartyEffect, Fresh
  <2> QED BY <1>5, <2>1 DEF InBill
<1> QED BY <1>1, <1>2, <1>3, <1>4, <1>5

\* What the service sees of one call (src/pbx.go:89-186, 640-700).
LEMMA Seen ==
  ASSUME NEW c \in Calls, SharedAccounted
  PROVE  /\ (c \in holders) <=> h[c].deferred >= 1
         /\ (c \in Joined) <=> h[c].deferred >= 5 /\ h[c].media = Both
         /\ (c \in Parted) <=> ~(h[c].deferred >= 5) /\ h[c].media = Both
         /\ (c \in Billed) <=> InBill(c)
  BY DEF SharedAccounted, Served, Joined, Parted, Billed, InBill, Both

\* A step of one call changes nothing the service sees of the others
\* (src/pbx.go:78-1047).
LEMMA SeenOthers ==
  ASSUME NEW c \in Calls, NEW d \in Calls \ {c}, Others(c), SharedAccounted,
         SharedAccounted'
  PROVE  /\ (d \in holders') <=> (d \in holders)
         /\ (d \in Joined') <=> (d \in Joined)
         /\ (d \in Parted') <=> (d \in Parted)
         /\ (d \in Billed') <=> (d \in Billed)
<1>1. h'[d] = h[d] /\ cdrs'[d] = cdrs[d]
  BY DEF Others
<1>2. (d \in holders') <=> (d \in holders)
  BY <1>1 DEF SharedAccounted, Served
<1>3. (d \in bridges') <=> (d \in bridges)
  BY <1>1 DEF SharedAccounted
<1> QED BY <1>1, <1>2, <1>3 DEF Joined, Parted, Billed

\* The cardinality of Admission and CallService is that of the standard module.
LEMMA SameCardinality ==
  ASSUME NEW S
  PROVE  Limiter!Cardinality(S) = Cardinality(S) /\ Service!Cardinality(S) = Cardinality(S)
  BY DEF Cardinality, Limiter!Cardinality, Service!Cardinality

\* Every step of a call is a step of the service or none (src/pbx.go:78-1047).
LEMMA ServiceStep ==
  ASSUME IInv, IInv', NEW c \in Calls, CallStep(c)
  PROVE  [Service!Next]_Service!vars
<1>1. /\ Typed /\ SharedAccounted /\ SharedAccounted'
      /\ DefersSound(c) /\ OutSound(c) /\ RecordsSound(c) /\ MediaSound(c) /\ MediaSound(c)'
  BY DEF IInv, CallSound
<1>2. Others(c) /\ Effect(c) /\ Booked(c)
  BY <1>1, Frame, EffectStep, BookedStep
<1>3. h[c].deferred \in 0..8 /\ h'[c].deferred \in 0..8
  BY EightDefers DEF IInv, Typed, Local
<1>4. /\ holders \subseteq Calls /\ holders' \subseteq Calls
      /\ Joined \subseteq Calls /\ Joined' \subseteq Calls
      /\ Parted \subseteq Calls /\ Parted' \subseteq Calls
      /\ Billed \subseteq Calls /\ Billed' \subseteq Calls
  BY <1>1 DEF SharedAccounted, Joined, Parted, Billed
<1>5. \A d \in Calls \ {c} : /\ (d \in holders') <=> (d \in holders)
                             /\ (d \in Joined') <=> (d \in Joined)
                             /\ (d \in Parted') <=> (d \in Parted)
                             /\ (d \in Billed') <=> (d \in Billed)
  BY <1>1, <1>2, SeenOthers
<1>6. /\ (c \in holders) <=> h[c].deferred >= 1
      /\ (c \in Joined) <=> h[c].deferred >= 5 /\ h[c].media = Both
      /\ (c \in Parted) <=> ~(h[c].deferred >= 5) /\ h[c].media = Both
      /\ (c \in Billed) <=> InBill(c)
  BY <1>1, Seen
<1>7. /\ (c \in holders') <=> h'[c].deferred >= 1
      /\ (c \in Joined') <=> h'[c].deferred >= 5 /\ h'[c].media = Both
      /\ (c \in Parted') <=> ~(h'[c].deferred >= 5) /\ h'[c].media = Both
      /\ (c \in Billed') <=> InBill(c)'
  BY <1>1 DEF SharedAccounted, Served, Joined, Parted, Billed, InBill, Both
<1>8. InBill(c)' <=> \/ InBill(c)
                     \/ UnwindEffect(c) /\ h[c].deferred = 3 /\ CDREnable
  BY <1>1, <1>2, BillStep
<1>9. ASSUME /\ (c \in holders') <=> (c \in holders)
             /\ (c \in Joined') <=> (c \in Joined)
             /\ (c \in Parted') <=> (c \in Parted)
             /\ (c \in Billed') <=> (c \in Billed)
      PROVE  [Service!Next]_Service!vars
  <2>1. holders' = holders /\ Joined' = Joined /\ Parted' = Parted /\ Billed' = Billed
    BY <1>4, <1>5, <1>9
  <2> QED BY <2>1 DEF Service!vars
<1>10. CASE SetupEffect(c)
  <2>1. h[c].media # Both /\ h'[c].media # Both /\ (InBill(c)' <=> InBill(c)) /\ ~InBill(c)
    <3>1. h[c].pc \in SettingUp /\ h'[c].media = h[c].media
      BY <1>10 DEF SetupEffect, Moves, Fresh
    <3>2. cdrs[c] = <<>>
      BY <1>1, <3>1 DEF RecordsSound, SettingUp
    <3>3. ~InBill(c)
      BY <3>2 DEF InBill
    <3> QED BY <1>1, <1>8, <3>1, <3>3 DEF MediaSound, SettingUp, UnwindEffect
  <2>2. CASE h[c].deferred = 0 /\ h'[c].deferred # 0
    <3>1. Limiter!Room
      BY <1>2, <2>2 DEF Booked
    <3>2. /\ holders' = holders \union {c}
          /\ Joined' = Joined /\ Parted' = Parted /\ Billed' = Billed
      BY <1>3, <1>4, <1>5, <1>6, <1>7, <2>1, <2>2
    <3>3. c \notin holders \union Parted \union Billed
      BY <1>6, <2>1, <2>2
    <3>4. Service!Serve(c)
      BY <3>1, <3>2, <3>3, SameCardinality DEF Service!Serve, Limiter!Room
    <3> QED BY <3>4 DEF Service!Next
  <2>3. CASE ~(h[c].deferred = 0 /\ h'[c].deferred # 0)
    <3>1. h'[c].deferred >= 1 <=> h[c].deferred >= 1
      BY <1>3, <1>10, <2>3 DEF SetupEffect
    <3> QED BY <1>6, <1>7, <1>9, <2>1, <3>1
  <2> QED BY <2>2, <2>3
<1>11. CASE DialEffect(c)
  <2>1. /\ h[c].pc \in {"newdialog", "invite", "waitanswer", "nextfallback", "fallback"}
        /\ h'[c].media = h[c].media
    BY <1>11 DEF DialEffect, Moves, Fresh
  <2>2. h[c].deferred >= 5 /\ h'[c].deferred >= 5
    BY <1>1, <1>11, <2>1 DEF DialEffect, DefersSound
  <2>3. InBill(c)' <=> InBill(c)
    BY <1>8, <2>1 DEF UnwindEffect
  <2>4. h[c].deferred >= 1 /\ h'[c].deferred >= 1
    BY <1>3, <2>2
  <2> QED BY <1>6, <1>7, <1>9, <2>1, <2>2, <2>3, <2>4
<1>12. CASE BridgeEffect(c)
  <2>1. /\ h[c].pc \in Answering /\ h[c].deferred = 8 /\ h'[c].deferred = 8
        /\ ~UnwindEffect(c)
    BY <1>1, <1>12 DEF BridgeEffect, Moves, DefersSound, UnwindEffect, Answering
  <2>2. InBill(c)' <=> InBill(c)
    BY <1>8, <2>1
  <2>3. CASE h'[c].media = Both <=> h[c].media = Both
    BY <1>6, <1>7, <1>9, <2>1, <2>2, <2>3
  <2>4. CASE h'[c].media = Both /\ h[c].media # Both
    <3>1. ~InBill(c)
      BY <1>1, <2>1 DEF RecordsSound, InBill, Answering
    <3>2. /\ Joined' = Joined \union {c}
          /\ holders' = holders /\ Parted' = Parted /\ Billed' = Billed
      BY <1>4, <1>5, <1>6, <1>7, <2>1, <2>2, <2>4
    <3>3. c \in holders \ (Joined \union Parted \union Billed)
      BY <1>6, <2>1, <2>4, <3>1
    <3>4. Service!Join(c)
      BY <3>2, <3>3 DEF Service!Join
    <3> QED BY <3>4 DEF Service!Next
  <2>5. CASE h'[c].media # Both /\ h[c].media = Both
    BY <1>1, <1>12, <2>1, <2>5 DEF BridgeEffect, MediaSound, Answering
  <2> QED BY <2>3, <2>4, <2>5
<1>13. CASE UnwindEffect(c)
  <2>1. /\ h[c].pc = "unwind" /\ h'[c].media = h[c].media
        /\ h'[c].deferred = IF h[c].deferred = 0 THEN 0 ELSE h[c].deferred - 1
    BY <1>13 DEF UnwindEffect
  <2>2. CASE h[c].deferred = 5 /\ h[c].media = Both
    <3>1. /\ Joined' = Joined \ {c} /\ Parted' = Parted \union {c}
          /\ holders' = holders /\ Billed' = Billed
      BY <1>4, <1>5, <1>6, <1>7, <1>8, <2>1, <2>2
    <3>2. Service!Part(c)
      BY <1>6, <2>2, <3>1 DEF Service!Part
    <3> QED BY <3>2 DEF Service!Next
  <2>3. CASE h[c].deferred = 3 /\ CDREnable
    <3>1. ~InBill(c)
      BY <1>1, <2>3 DEF RecordsSound, OutRecord, InBill
    <3>2. /\ Billed' = Billed \union {c}
          /\ holders' = holders /\ Joined' = Joined /\ Parted' = Parted
      BY <1>4, <1>5, <1>6, <1>7, <1>8, <1>13, <2>1, <2>3
    <3>3. Service!Bill(c)
      BY <1>6, <2>3, <3>1, <3>2 DEF Service!Bill
    <3> QED BY <3>3 DEF Service!Next
  <2>4. CASE h[c].deferred = 1
    <3>1. CDREnable /\ c \in Parted => c \in Billed
      <4> SUFFICES ASSUME CDREnable, c \in Parted PROVE InBill(c)
        BY <1>6
      <4>1. cdrs[c] # <<>>
        BY <1>1, <1>6, <2>4 DEF MediaSound
      <4>2. /\ Len(cdrs[c]) \in {1, 2}
            /\ cdrs[c][Len(cdrs[c])].dir = "in"
        BY <1>1, <2>4, <4>1 DEF RecordsSound, InRecord
      <4> QED BY <4>2 DEF InBill
    <3>2. /\ holders' = holders \ {c}
          /\ Joined' = Joined /\ Parted' = Parted /\ Billed' = Billed
      BY <1>4, <1>5, <1>6, <1>7, <1>8, <2>1, <2>4
    <3>3. Service!Drop(c)
      BY <1>6, <2>4, <3>1, <3>2 DEF Service!Drop
    <3> QED BY <3>3 DEF Service!Next
  <2>5. CASE /\ ~(h[c].deferred = 5 /\ h[c].media = Both)
             /\ ~(h[c].deferred = 3 /\ CDREnable) /\ h[c].deferred # 1
    <3>1. /\ h'[c].deferred >= 1 <=> h[c].deferred >= 1
          /\ h[c].media = Both => (h'[c].deferred >= 5 <=> h[c].deferred >= 5)
      BY <1>3, <2>1, <2>5
    <3>2. InBill(c)' <=> InBill(c)
      BY <1>8, <2>5
    <3> QED BY <1>6, <1>7, <1>9, <2>1, <3>1, <3>2
  <2> QED BY <2>2, <2>3, <2>4, <2>5
<1>14. CASE PartyEffect(c)
  <2>1. h'[c] = h[c] /\ (InBill(c)' <=> InBill(c))
    BY <1>14 DEF PartyEffect, InBill
  <2> QED BY <1>6, <1>7, <1>9, <2>1
<1> QED BY <1>2, <1>10, <1>11, <1>12, <1>13, <1>14 DEF Effect

\* The PBX implements the service that CallService specifies: calls are served
\* within the limit, joined once, billed once and not dropped unbilled
\* (src/pbx.go:78-1047).
THEOREM ServiceCorrect == Spec => ServiceSpec
<1>1. Init => Service!Init
  <2> SUFFICES ASSUME Init PROVE Service!Init
    OBVIOUS
  <2>1. holders = {} /\ Joined = {}
    BY DEF Init, Joined
  <2>2. ASSUME NEW c \in Calls PROVE h[c].media # {"in", "out"} /\ cdrs[c] = <<>>
    BY DEF Init
  <2>3. Parted = {}
    BY <2>2 DEF Parted
  <2>4. Billed = {}
    BY <2>2 DEF Billed
  <2> QED BY <2>1, <2>3, <2>4 DEF Service!Init
<1>2. IInv /\ IInv' /\ [Next]_vars => [Service!Next]_Service!vars
  <2> SUFFICES ASSUME IInv, IInv', [Next]_vars PROVE [Service!Next]_Service!vars
    OBVIOUS
  <2>1. CASE UNCHANGED vars
    BY <2>1 DEF vars, Service!vars, Joined, Parted, Billed
  <2>2. CASE Next
    <3>1. PICK c \in Calls : CallStep(c)
      BY <2>2 DEF Next, CallStep
    <3> QED BY <3>1, ServiceStep
  <2> QED BY <2>1, <2>2
<1> QED BY <1>1, <1>2, Invariance, PTL DEF Spec, ServiceSpec, Service!Spec

===============================================================================
