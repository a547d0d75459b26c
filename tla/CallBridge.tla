----------------------------- MODULE CallBridge -----------------------------
(***************************************************************************)
(* The life of a call in the PBX (src/pbx.go): handler, BridgeCall,        *)
(* bridgeAnswer, inviteFallback and waitDialogTermination, one goroutine   *)
(* per INVITE, with the caller and the callees as its environment.         *)
(*                                                                         *)
(* The handler is a sequence of calls that each may fail, and what it has  *)
(* to undo it has deferred: the model keeps how many of the defers are     *)
(* installed, and a return, an error or a panic runs them last to first.   *)
(*                                                                         *)
(* The dialogs are those of diago, which is not part of the repository:    *)
(* Invite, Answer, Ack and Hangup may succeed or fail at any time, and     *)
(* Hangup ends a dialog whatever its state if it succeeds.  The context of *)
(* a dialog is done as soon as the dialog has ended, unless it was closed  *)
(* before: Close sends nothing and takes the dialog out of the library's   *)
(* table, and whether its end is still noticed is left open.  The limiter  *)
(* is that of Admission, which RateLimiterProofs shows the atomic counters *)
(* to implement.                                                           *)
(***************************************************************************)
EXTENDS Integers, Sequences, FiniteSets

CONSTANTS Calls,       \* the INVITEs received, each with its goroutine
          Max,         \* RateLimiterIncomingConfig.DialogMax, 0 for no limit
          Fallbacks,   \* how many endpoints a route's fallback names
          CDREnable,   \* EnvConfig.CDREnable
          WebrtcOut,   \* may an endpoint that is called have media webrtc?
          Flows        \* may an endpoint be of match type flow?

ASSUME CallsAssumption == IsFiniteSet(Calls)
ASSUME ConfAssumption == /\ Max \in Nat /\ Fallbacks \in Nat
                         /\ {CDREnable, WebrtcOut, Flows} \subseteq BOOLEAN

VARIABLES
  h,          \* [Calls -> the handler's goroutine: label, local variables, and
              \*   as history which hang ups have failed (lost, lostIn)]
  caller,     \* [Calls -> state of inDialog]
  leg,        \* [Calls -> [Legs -> state of an outgoing dialog]]
  confirmed,  \* [Calls -> disposition of handler is "ANSWER"]
  cdrs,       \* [Calls -> the records written for the call, in order]
  holders,    \* the calls that hold a place of the incoming limiter
  gauge,      \* metricDialogsActive
  bridges     \* BridgeCache: the calls whose bridge is stored

vars == <<h, caller, leg, confirmed, cdrs, holders, gauge, bridges>>

Legs == 0..Fallbacks    \* the routed endpoint, then the fallbacks in order
NoLeg == -1             \* outDialog is nil

Labels == {"idle", "limits", "checks", "route", "flow", "dial", "newdialog",
           "invite", "waitanswer", "nextfallback", "fallback", "answer",
           "answering", "record", "addin", "addout", "ack", "talk",
           "unwind", "done"}

\* Mutants: the record is deferred after the hang up and so runs before it; the
\* bridge is deleted by handler; the hang up of the callee is forgotten.
Defers_RecordFirst == <<"activeDec", "metrics", "hangupIn", "cdrIn",
                        "bridgeDelete", "closeOut", "hangupOut", "cdrOut">>
Defers_BridgeLast == <<"activeDec", "metrics", "bridgeDelete", "cdrIn",
                       "hangupIn", "closeOut", "hangupOut", "cdrOut">>
Defers_NoHangup == <<"activeDec", "metrics", "cdrIn", "hangupIn",
                     "bridgeDelete", "closeOut", "closeOut", "cdrOut">>

\* The defers of handler and bridgeAnswer in the order they are installed.
\* The arguments of a defer are evaluated when it is installed: Hangup and
\* Close are bound to the first outgoing dialog, while the closure that writes
\* the outgoing record reads outDialog when it runs.
Defers == <<"activeDec", "metrics", "cdrIn", "hangupIn",
            "bridgeDelete", "closeOut", "hangupOut", "cdrOut">>

Live == {"inviting", "early", "answered", "confirmed"}
Up == {"answered", "confirmed"}     \* a 200 has been sent, nobody has hung up

Record == [dir : {"in", "out"}, answered : BOOLEAN, bridged : BOOLEAN,
           recorded : BOOLEAN]

Local == [pc : Labels, deferred : 0..Len(Defers), out : Legs \union {NoLeg},
          next : 1..(Fallbacks + 1), webrtc : BOOLEAN, fallback : BOOLEAN,
          media : SUBSET {"in", "out"}, answered : BOOLEAN, bridged : BOOLEAN,
          recorded : BOOLEAN, closed : BOOLEAN,
          lost : SUBSET Legs, lostIn : BOOLEAN]

TypeOK == /\ h \in [Calls -> Local]
          /\ caller \in [Calls -> {"none", "ended"} \union Live]
          /\ leg \in [Calls -> [Legs -> {"none", "ended"} \union Live]]
          /\ confirmed \in [Calls -> BOOLEAN]
          /\ cdrs \in [Calls -> Seq(Record)]
          /\ \A c \in Calls : Len(cdrs[c]) <= 2
          /\ holders \subseteq Calls
          /\ gauge \in 0..Cardinality(Calls)
          /\ bridges \subseteq Calls

Init == /\ h = [c \in Calls |->
                 [pc |-> "idle", deferred |-> 0, out |-> NoLeg, next |-> 1,
                  webrtc |-> FALSE, fallback |-> FALSE, media |-> {},
                  answered |-> FALSE, bridged |-> FALSE, recorded |-> FALSE,
                  closed |-> FALSE, lost |-> {}, lostIn |-> FALSE]]
        /\ caller = [c \in Calls |-> "none"]
        /\ leg = [c \in Calls |-> [l \in Legs |-> "none"]]
        /\ confirmed = [c \in Calls |-> FALSE]
        /\ cdrs = [c \in Calls |-> <<>>]
        /\ holders = {}
        /\ gauge = 0
        /\ bridges = {}

At(c, label) == h[c].pc = label
Goto(c, label) == h' = [h EXCEPT ![c].pc = label]
Return(c) == Goto(c, "unwind")
SetCaller(c, s) == caller' = [caller EXCEPT ![c] = s]
SetLeg(c, l, s) == leg' = [leg EXCEPT ![c][l] = s]

\* Respond with a final code: it ends a dialog that is not answered yet.
Respond(c) == SetCaller(c, IF caller[c] \in Up THEN caller[c] ELSE "ended")

shared == <<holders, gauge, bridges>>
dialogs == <<caller, leg, confirmed>>

----------------------------------------------------------------------------
(* handler                                                                  *)

Arrive(c) ==
  /\ At(c, "idle")
  /\ Goto(c, "limits")
  /\ SetCaller(c, "inviting")
  /\ UNCHANGED <<leg, confirmed, cdrs, shared>>

\* DialogRPSLimit or DialogActiveLimit answers false: return, nothing deferred.
Refuse(c) ==
  /\ At(c, "limits")
  /\ Goto(c, "done")
  /\ UNCHANGED <<dialogs, cdrs, shared>>

Limiter == INSTANCE Admission WITH Threads <- Calls

Admit(c) ==
  /\ At(c, "limits")
  /\ Limiter!Admit(c)
  /\ h' = [h EXCEPT ![c].pc = "checks", ![c].deferred = 1]
  /\ UNCHANGED <<dialogs, cdrs, gauge, bridges>>

\* Mutant: the loop check comes between the defer and the increment.
Check_NoIncrement(c) ==
  /\ At(c, "checks")
  /\ h' = [h EXCEPT ![c].pc = "unwind", ![c].deferred = 2]
  /\ UNCHANGED <<dialogs, cdrs, shared>>

\* The metrics, then the loop check (pbx.go:115-128), which returns before the
\* record and the hang up are deferred; or go on with both (130-186).
Check(c) ==
  /\ At(c, "checks")
  /\ gauge' = gauge + 1
  /\ \/ h' = [h EXCEPT ![c].pc = "unwind", ![c].deferred = 2]
     \/ h' = [h EXCEPT ![c].pc = "route", ![c].deferred = 4]
  /\ UNCHANGED <<dialogs, cdrs, holders, bridges>>

----------------------------------------------------------------------------
(* BridgeCall                                                               *)

\* authorizeInboundDialog answers 401, 403 or 503 itself.
Unauthorized(c) ==
  /\ At(c, "route")
  /\ Return(c)
  /\ Respond(c)
  /\ UNCHANGED <<leg, confirmed, cdrs, shared>>

\* No endpoint (403), no route (487), a route that hangs up, no outbound URI
\* (487): a final response; Trying fails: none.
RejectRoute(c) ==
  /\ At(c, "route")
  /\ Return(c)
  /\ Respond(c) \/ UNCHANGED caller
  /\ UNCHANGED <<leg, confirmed, cdrs, shared>>

\* Matched: which media and fallback the matched route and endpoint have.
MatchRoute(c) ==
  /\ At(c, "route")
  /\ \E fallback \in BOOLEAN, webrtc \in IF WebrtcOut THEN BOOLEAN ELSE {FALSE} :
       h' = [h EXCEPT ![c].pc = IF Flows THEN "flow" ELSE "dial",
                      ![c].fallback = fallback, ![c].webrtc = webrtc]
  /\ UNCHANGED <<dialogs, cdrs, shared>>

\* NewServerDialog: the agent may have answered the caller before it redirects
\* the call, ends it or is lost (FlowRPC has its operations).
AgentAnswers(c) ==
  /\ At(c, "flow")
  /\ caller[c] \in {"inviting", "early"}
  /\ SetCaller(c, "answered")
  /\ UNCHANGED <<h, leg, confirmed, cdrs, shared>>

AgentLeaves(c) ==
  /\ At(c, "flow")
  /\ Return(c) \/ Goto(c, "dial")
  /\ UNCHANGED <<dialogs, cdrs, shared>>

\* The URI does not parse (403), the outgoing limiter times out (429) or is
\* cancelled, Ringing fails.
RejectDial(c) ==
  /\ At(c, "dial")
  /\ Return(c)
  /\ Respond(c) \/ UNCHANGED caller
  /\ UNCHANGED <<leg, confirmed, cdrs, shared>>

\* Mutant: the bridge is stored, its deletion is not deferred.
StoreBridge_NoDefer(c) ==
  /\ At(c, "dial")
  /\ Goto(c, "newdialog")
  /\ bridges' = bridges \union {c}
  /\ UNCHANGED <<dialogs, cdrs, holders, gauge>>

\* Ringing, then bridgeAnswer stores its bridge (pbx.go:519-643).
StoreBridge(c) ==
  /\ At(c, "dial")
  /\ h' = [h EXCEPT ![c].pc = "newdialog", ![c].deferred = 5]
  /\ bridges' = bridges \union {c}
  /\ UNCHANGED <<dialogs, cdrs, holders, gauge>>

----------------------------------------------------------------------------
(* bridgeAnswer: dialling                                                   *)

\* NewDialog, then Close, Hangup and the outgoing record are deferred and the
\* INVITE is sent.
DialPrimary(c) ==
  /\ At(c, "newdialog")
  /\ \/ /\ Return(c)
        /\ UNCHANGED leg
     \/ /\ h' = [h EXCEPT ![c].pc = "invite", ![c].deferred = 8, ![c].out = 0]
        /\ SetLeg(c, 0, "inviting")
  /\ UNCHANGED <<caller, confirmed, cdrs, shared>>

\* outDialog.Invite, InviteWebrtc or WaitAnswer returns nil.
PrimaryAnswers(c) ==
  /\ At(c, "invite") \/ At(c, "waitanswer")
  /\ Goto(c, "answer")
  /\ SetLeg(c, 0, "answered")
  /\ UNCHANGED <<caller, confirmed, cdrs, shared>>

\* ErrClientEarlyMedia: ProgressMedia and the early bridge, then WaitAnswer;
\* any of these may fail, which returns while the callee still rings.
EarlyMedia(c) ==
  /\ At(c, "invite") /\ ~h[c].webrtc
  /\ SetLeg(c, 0, "early")
  /\ \/ /\ Return(c)
        /\ UNCHANGED caller
     \/ /\ caller[c] # "ended"
        /\ Goto(c, "waitanswer")
        /\ SetCaller(c, IF caller[c] = "inviting" THEN "early" ELSE caller[c])
     \/ /\ caller[c] # "ended"
        /\ Return(c)
        /\ SetCaller(c, IF caller[c] = "inviting" THEN "early" ELSE caller[c])
  /\ UNCHANGED <<confirmed, cdrs, shared>>

\* Mutant: after the 32 s the INVITE is not cancelled.
PrimaryFails_NoCancel(c) ==
  /\ At(c, "invite") \/ At(c, "waitanswer")
  /\ \/ Return(c)
     \/ /\ h[c].fallback /\ ~h[c].webrtc
        /\ Goto(c, "nextfallback")
  /\ UNCHANGED <<dialogs, cdrs, shared>>

\* The callee refuses, the 32 s are over, or the caller has hung up.  Only the
\* first two can be errors of isInviteErrFallback, and webrtc has no fallback.
PrimaryFails(c) ==
  /\ At(c, "invite") \/ At(c, "waitanswer")
  /\ SetLeg(c, 0, "ended")
  /\ \/ Return(c)
     \/ /\ h[c].fallback /\ ~h[c].webrtc
        /\ Goto(c, "nextfallback")
  /\ UNCHANGED <<caller, confirmed, cdrs, shared>>

\* inviteFallback returns nil, nil, err and outDialog is assigned from it: the
\* endpoint does not exist, its URI does not parse, NewDialog fails, the
\* invitation fails for good, or there is no endpoint left.
FallbackError(c) ==
  h' = [h EXCEPT ![c].pc = "unwind", ![c].out = NoLeg]

NextFallback(c) ==
  /\ At(c, "nextfallback")
  /\ \/ /\ FallbackError(c)
        /\ UNCHANGED leg
     \/ /\ h[c].next <= Fallbacks
        /\ Goto(c, "fallback")
        /\ SetLeg(c, h[c].next, "inviting")
  /\ UNCHANGED <<caller, confirmed, cdrs, shared>>

\* Mutant: the same endpoint is tried again.
FallbackFails_Again(c) ==
  /\ At(c, "fallback")
  /\ SetLeg(c, h[c].next, "ended")
  /\ FallbackError(c) \/ Goto(c, "nextfallback")
  /\ UNCHANGED <<caller, confirmed, cdrs, shared>>

FallbackFails(c) ==
  /\ At(c, "fallback")
  /\ SetLeg(c, h[c].next, "ended")
  /\ \/ FallbackError(c)
     \/ h' = [h EXCEPT ![c].pc = "nextfallback", ![c].next = @ + 1]
  /\ UNCHANGED <<caller, confirmed, cdrs, shared>>

\* The fallback answers with early media: inviteFallback does not know this
\* error and returns it, with the callee ringing and its dialog only closed.
FallbackEarlyMedia(c) ==
  /\ At(c, "fallback")
  /\ SetLeg(c, h[c].next, "early")
  /\ FallbackError(c)
  /\ UNCHANGED <<caller, confirmed, cdrs, shared>>

\* Mutant: outDialog is a new variable in the block that calls inviteFallback.
FallbackAnswers_Shadowed(c) ==
  /\ At(c, "fallback")
  /\ Goto(c, "answer")
  /\ SetLeg(c, h[c].next, "answered")
  /\ UNCHANGED <<caller, confirmed, cdrs, shared>>

\* outDialog becomes the fallback's dialog; nothing defers its Hangup, and its
\* Close is deferred in the closure that ends here (pbx.go:785, 793): the dialog
\* is closed before the caller is even answered.
FallbackAnswers(c) ==
  /\ At(c, "fallback")
  /\ h' = [h EXCEPT ![c].pc = "answer", ![c].out = h[c].next, ![c].closed = TRUE]
  /\ SetLeg(c, h[c].next, "answered")
  /\ UNCHANGED <<caller, confirmed, cdrs, shared>>

----------------------------------------------------------------------------
(* bridgeAnswer: answering, bridging                                        *)

\* The answered closure panics on a nil session when the media types of the two
\* endpoints differ, or Answer fails before it sends anything.
AnswerFails(c) ==
  /\ At(c, "answer")
  /\ Return(c)
  /\ UNCHANGED <<dialogs, cdrs, shared>>

\* Answer, AnswerEarlyMedia or AnswerWebrtc: the 200 goes out.
SendAnswer(c) ==
  /\ At(c, "answer")
  /\ caller[c] # "ended"
  /\ Goto(c, "answering")
  /\ SetCaller(c, IF caller[c] \in Up THEN caller[c] ELSE "answered")
  /\ UNCHANGED <<leg, confirmed, cdrs, shared>>

\* It returns once the caller's ACK is in, or fails: no ACK, no media.
AnswerReturns(c) ==
  /\ At(c, "answering")
  /\ \/ Return(c)
     \/ /\ confirmed[c]
        /\ h' = [h EXCEPT ![c].pc = "record", ![c].answered = TRUE]
  /\ UNCHANGED <<dialogs, cdrs, shared>>

\* A route with recording: the file or the monitor may fail.
StartRecording(c) ==
  /\ At(c, "record")
  /\ \/ Return(c)
     \/ \E recording \in BOOLEAN :
          h' = [h EXCEPT ![c].pc = "addin", ![c].recorded = recording]
  /\ UNCHANGED <<dialogs, cdrs, shared>>

AddMediaIn(c) ==
  /\ At(c, "addin")
  /\ \/ Return(c)
     \/ h' = [h EXCEPT ![c].pc = "addout", ![c].media = {"in"}]
  /\ UNCHANGED <<dialogs, cdrs, shared>>

AddMediaOut(c) ==
  /\ At(c, "addout")
  /\ \/ Return(c)
     \/ h' = [h EXCEPT ![c].pc = "ack", ![c].media = {"in", "out"}]
  /\ UNCHANGED <<dialogs, cdrs, shared>>

\* outDialog.Ack, then bridged is set; with webrtc media outMedia is nil and
\* the call of its RTPSession may panic.
Ack(c) ==
  /\ At(c, "ack")
  /\ \/ /\ Return(c)
        /\ UNCHANGED leg
     \/ /\ leg' = [leg EXCEPT ![c][h[c].out] = IF @ = "answered" THEN "confirmed" ELSE @]
        /\ \E label \in {"talk"} \union (IF h[c].webrtc THEN {"unwind"} ELSE {}) :
             h' = [h EXCEPT ![c].pc = label, ![c].bridged = TRUE]
  /\ UNCHANGED <<caller, confirmed, cdrs, shared>>

\* waitDialogTermination: the caller's dialog is over and the callee is hung up,
\* or its Hangup fails, which is logged and no more.
CallerDone(c) ==
  /\ At(c, "talk")
  /\ caller[c] = "ended"
  /\ \/ /\ SetLeg(c, h[c].out, "ended")
        /\ Return(c)
     \/ /\ leg[c][h[c].out] \in Live
        /\ h' = [h EXCEPT ![c].pc = "unwind", ![c].lost = @ \union {h[c].out}]
        /\ UNCHANGED leg
  /\ UNCHANGED <<caller, confirmed, cdrs, shared>>

\* Mutant: the select has lost its case for the callee's context.
CalleeDone_CallerOnly(c) ==
  /\ At(c, "talk")
  /\ leg[c][h[c].out] = "ended" /\ caller[c] = "ended"
  /\ Return(c)
  /\ UNCHANGED <<dialogs, cdrs, shared>>

CalleeEnded(c) ==
  /\ At(c, "talk")
  /\ leg[c][h[c].out] = "ended"
  /\ Return(c)
  /\ UNCHANGED <<dialogs, cdrs, shared>>

\* waitDialogTermination: the callee's dialog is over, and its context is done.
CalleeDone(c) == ~h[c].closed /\ CalleeEnded(c)

\* The same for a dialog that was closed before: it may come to light.
ClosedCalleeDone(c) == h[c].closed /\ CalleeEnded(c)

\* waitDialogTermination: the 6 hours are over.
SixHours(c) ==
  /\ At(c, "talk")
  /\ Return(c)
  /\ UNCHANGED <<dialogs, cdrs, shared>>

----------------------------------------------------------------------------
(* The defers                                                               *)

Write(c, dir, answered) ==
  cdrs' = [cdrs EXCEPT ![c] = Append(@,
             [dir |-> dir, answered |-> answered,
              bridged |-> dir = "out" /\ h[c].bridged, recorded |-> h[c].recorded])]

\* The outgoing record.  It reads the INVITE of outDialog, which is nil after
\* a fallback that failed: the panic ends this defer and the others still run.
WriteOut(c) == IF CDREnable /\ h[c].out # NoLeg
               THEN Write(c, "out", h[c].answered)
               ELSE UNCHANGED cdrs

WriteIn(c) == IF CDREnable THEN Write(c, "in", confirmed[c]) ELSE UNCHANGED cdrs

\* What the defer does, by its name, when it succeeds.
RunDefer(c, name) ==
  \/ /\ name = "cdrOut"
     /\ WriteOut(c)
     /\ UNCHANGED <<dialogs, shared>>
  \/ /\ name = "hangupOut"
     /\ SetLeg(c, 0, "ended")
     /\ UNCHANGED <<caller, confirmed, cdrs, shared>>
  \/ /\ name = "closeOut"
     /\ UNCHANGED <<dialogs, cdrs, shared>>
  \/ /\ name = "bridgeDelete"
     /\ bridges' = bridges \ {c}
     /\ UNCHANGED <<dialogs, cdrs, holders, gauge>>
  \/ /\ name = "hangupIn"
     /\ SetCaller(c, "ended")
     /\ UNCHANGED <<leg, confirmed, cdrs, shared>>
  \/ /\ name = "cdrIn"
     /\ WriteIn(c)
     /\ UNCHANGED <<dialogs, shared>>
  \/ /\ name = "metrics"
     /\ gauge' = gauge - 1
     /\ UNCHANGED <<dialogs, cdrs, holders, bridges>>
  \/ /\ name = "activeDec"
     /\ Limiter!Leave(c)
     /\ UNCHANGED <<dialogs, cdrs, gauge, bridges>>

\* The Hangup of the defer fails: that of inDialog is logged, the error of the
\* other is dropped (pbx.go:183-185, 672), and the party is left where it is.
DeferFails(c, name) ==
  /\ \/ /\ name = "hangupOut" /\ leg[c][0] \in Live
        /\ h' = [h EXCEPT ![c].deferred = @ - 1, ![c].lost = @ \union {0}]
     \/ /\ name = "hangupIn" /\ caller[c] \in Live
        /\ h' = [h EXCEPT ![c].deferred = @ - 1, ![c].lostIn = TRUE]
  /\ UNCHANGED <<dialogs, cdrs, shared>>

Unwind(c) ==
  /\ At(c, "unwind")
  /\ \/ /\ h[c].deferred > 0
        /\ h' = [h EXCEPT ![c].deferred = @ - 1]
        /\ RunDefer(c, Defers[h[c].deferred])
     \/ /\ h[c].deferred > 0
        /\ DeferFails(c, Defers[h[c].deferred])
     \/ /\ h[c].deferred = 0
        /\ Goto(c, "done")
        /\ UNCHANGED <<dialogs, cdrs, shared>>

----------------------------------------------------------------------------
(* The caller and the callees                                               *)

\* The ACK of the 200: the dialog is Confirmed and OnState is called, which
\* sets the disposition of the incoming record (pbx.go:136-141).
CallerConfirms(c) ==
  /\ caller[c] = "answered"
  /\ SetCaller(c, "confirmed")
  /\ confirmed' = [confirmed EXCEPT ![c] = TRUE]
  /\ UNCHANGED <<h, leg, cdrs, shared>>

CallerHangsUp(c) ==
  /\ caller[c] \in Live
  /\ SetCaller(c, "ended")
  /\ UNCHANGED <<h, leg, confirmed, cdrs, shared>>

CalleeHangsUp(c, l) ==
  /\ leg[c][l] \in Up
  /\ SetLeg(c, l, "ended")
  /\ UNCHANGED <<h, caller, confirmed, cdrs, shared>>

----------------------------------------------------------------------------
\* What the goroutine does by itself: every call into diago is bounded by a
\* context or by a timer of the transaction.  SixHours and ClosedCalleeDone are
\* left out, nobody can count on them.
Setup(c) == \/ Refuse(c) \/ Admit(c) \/ Check(c) \/ Unauthorized(c)
            \/ RejectRoute(c) \/ MatchRoute(c) \/ AgentLeaves(c) \/ RejectDial(c)
            \/ StoreBridge(c) \/ DialPrimary(c)
Dialling(c) == \/ PrimaryAnswers(c) \/ EarlyMedia(c) \/ PrimaryFails(c)
               \/ NextFallback(c) \/ FallbackFails(c) \/ FallbackEarlyMedia(c)
               \/ FallbackAnswers(c)
Bridging(c) == \/ AnswerFails(c) \/ SendAnswer(c) \/ AnswerReturns(c)
               \/ StartRecording(c) \/ AddMediaIn(c) \/ AddMediaOut(c)
               \/ Ack(c) \/ CallerDone(c) \/ CalleeDone(c)
Goroutine(c) == Setup(c) \/ Dialling(c) \/ Bridging(c) \/ Unwind(c)

Parties(c) == \/ AgentAnswers(c) \/ CallerConfirms(c) \/ CallerHangsUp(c)
              \/ \E l \in Legs : CalleeHangsUp(c, l)

Next == \E c \in Calls : \/ Arrive(c) \/ Goroutine(c) \/ SixHours(c)
                         \/ ClosedCalleeDone(c) \/ Parties(c)

Spec == Init /\ [][Next]_vars

FairSpec == Spec /\ \A c \in Calls : WF_vars(Goroutine(c))

----------------------------------------------------------------------------
(* Properties                                                               *)

Served(c) == h[c].deferred >= 1
Metered(c) == h[c].deferred >= 2
Billed == {c \in Calls : \E i \in 1..Len(cdrs[c]) : cdrs[c][i].dir = "in"}

\* What the goroutines share is what the installed defers will take back: no
\* path out of any of the functions, panics included, leaves a place of the
\* limiter, a dialog of the gauge or a bridge of the cache behind.
SharedAccounted ==
  /\ holders = {c \in Calls : Served(c)}
  /\ gauge = Cardinality({c \in Calls : Metered(c)})
  /\ bridges = {c \in Calls : h[c].deferred >= 5}

\* The incoming record closes the call: when it is written, by whatever path,
\* the caller and the endpoint routed to have both been hung up, and whoever of
\* them is still on the line is there because its Hangup failed.
NobodyWaits ==
  \A c \in Billed : /\ caller[c] = "ended" \/ h[c].lostIn
                    /\ leg[c][0] \in {"none", "ended"} \/ 0 \in h[c].lost

\* The caller is not answered before a callee has answered (unless an agent
\* answers), and one callee is dialled after the other: two never ring at once.
HuntsInOrder ==
  \A c \in Calls :
    /\ (caller[c] \in Up /\ ~Flows) =>
         /\ h[c].out # NoLeg
         /\ leg[c][h[c].out] \in Up \union {"ended"}
    /\ Cardinality({l \in Legs : leg[c][l] \in Live}) <= 1

\* The records of a call that is over tell what happened, though they are
\* written by defers that run between the hang ups: one incoming record, the
\* last; answered if and only if the caller ever confirmed, unless the caller
\* could not be hung up and confirmed later; an outgoing record that says bridged
\* or answered only if the incoming one says answered; and the same recording in
\* both.
RecordsAgree ==
  \A c \in Calls :
    (CDREnable /\ At(c, "done") /\ cdrs[c] # <<>>) =>
      LET in == cdrs[c][Len(cdrs[c])] IN
        /\ in.dir = "in" /\ in.answered => confirmed[c]
        /\ confirmed[c] => in.answered \/ h[c].lostIn
        /\ \A i \in 1..(Len(cdrs[c]) - 1) :
             LET out == cdrs[c][i] IN
               /\ out.dir = "out"
               /\ out.bridged => out.answered
               /\ out.answered => in.answered
               /\ out.recorded = in.recorded

\* For every call that sent an INVITE an outgoing record is written before the
\* incoming one ("No call made" is the only case without, pbx.go:689).
EveryInviteRecorded ==
  \A c \in Calls :
    (CDREnable /\ At(c, "done") /\ \E l \in Legs : leg[c][l] # "none")
      => Len(cdrs[c]) = 2

\* When handler has returned no callee is left on the line, unless a Hangup of it
\* was tried and failed.
NoCalleeLeft ==
  \A c \in Calls :
    At(c, "done") => \A l \in Legs \ h[c].lost : leg[c][l] \notin Up

\* What EveryInviteRecorded and NoCalleeLeft deny of some calls, a route without
\* a fallback does grant, and the two faults never meet: a callee whose Hangup did
\* not fail is left on the line only if it is the fallback that answered, and then
\* both records are written; the outgoing record is missing only after the last
\* fallback failed, and then nobody is left (src/pbx.go:672-700, 780-800).
OnlyFallbacksAtFault ==
  \A c \in Calls :
    At(c, "done") =>
      /\ \A l \in Legs \ h[c].lost :
           leg[c][l] \in Up => l = h[c].out /\ l # 0 /\ h[c].fallback
      /\ CDREnable /\ leg[c][0] # "none" =>
           \/ Len(cdrs[c]) = 2
           \/ /\ Len(cdrs[c]) = 1 /\ h[c].fallback
              /\ \A l \in Legs : leg[c][l] \notin Up

\* How many steps a handler has yet to take at most.  A conversation is followed
\* by the defers; every endpoint that is left to try may take two steps.
Tries(c) == 2 * (Fallbacks + 1 - h[c].next)
Left(c) ==
  CASE At(c, "done") -> 0
    [] At(c, "unwind") -> 1 + h[c].deferred
    [] At(c, "talk") -> 10
    [] At(c, "ack") -> 11
    [] At(c, "addout") -> 12
    [] At(c, "addin") -> 13
    [] At(c, "record") -> 14
    [] At(c, "answering") -> 15
    [] At(c, "answer") -> 16
    [] At(c, "fallback") -> 16 + Tries(c)
    [] At(c, "nextfallback") -> 17 + Tries(c)
    [] At(c, "waitanswer") -> 18 + Tries(c)
    [] At(c, "invite") -> 19 + Tries(c)
    [] At(c, "newdialog") -> 20 + Tries(c)
    [] At(c, "dial") -> 21 + Tries(c)
    [] At(c, "flow") -> 22 + Tries(c)
    [] At(c, "route") -> 23 + Tries(c)
    [] At(c, "checks") -> 24 + Tries(c)
    [] At(c, "limits") -> 25 + Tries(c)
    [] At(c, "idle") -> 26 + Tries(c)

\* Every step of a handler brings it nearer to its end, whatever the parties do
\* meanwhile: no path through the fallbacks, the failures and the panics goes
\* round, and a handler makes 26 steps at most and two per fallback
\* (pbx.go:78-190, 1002-1047).
HandlersEnd ==
  [][\A c \in Calls : h'[c] # h[c] => Left(c) \in Nat /\ Left(c)' < Left(c)]_vars

\* Whoever hangs up a call in conversation, the goroutine returns and has hung up
\* the caller and the routed endpoint, without the help of the timer of 6 hours.
\* Not so if it is a fallback that hangs up: its dialog is closed by then.
Hangs(c) == /\ At(c, "talk")
            /\ caller[c] = "ended" \/ (leg[c][h[c].out] = "ended" /\ ~h[c].closed)
Released(c) == /\ At(c, "done")
               /\ caller[c] = "ended" \/ h[c].lostIn
               /\ leg[c][0] \notin Up \/ 0 \in h[c].lost
HangupPropagates == \A c \in Calls : Hangs(c) ~> Released(c)

\* The PBX implements the service: a call is joined from the moment the second
\* media is in its bridge until the bridge is deleted, and billed by the
\* incoming record.
Joined == {c \in bridges : h[c].media = {"in", "out"}}
Parted == {c \in Calls \ bridges : h[c].media = {"in", "out"}}
Service == INSTANCE CallService
             WITH Billing <- CDREnable, served <- holders, joined <- Joined,
                  parted <- Parted, billed <- Billed
ServiceSpec == Service!Spec
=============================================================================
