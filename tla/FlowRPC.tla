------------------------------ MODULE FlowRPC ------------------------------
(***************************************************************************)
(* Calls handed to an agent over a websocket (src/flow_rpc.go).            *)
(*                                                                         *)
(* One goroutine reads each connection and routes what the agent sends: a  *)
(* response to the transaction that waits for it, a request to the channel *)
(* of its dialog, named by the dialog's ID or by the alias "last".  One    *)
(* goroutine per dialog (NewServerDialog, called by BridgeCall) invites    *)
(* the agent, executes its requests one by one and takes its entries back  *)
(* when it returns.  The goroutines share the pool of connections, the two *)
(* sync.Maps of a connection and the channels; one access of any of these  *)
(* is one step.                                                            *)
(*                                                                         *)
(* One endpoint is modelled: connections of different endpoints share only *)
(* the mutex.  The websocket keeps the order of its messages and is lost   *)
(* at any time; the agent sends anything it likes.                         *)
(***************************************************************************)
EXTENDS Naturals, Sequences, FiniteSets

CONSTANTS Conns,      \* connections an agent opens, in any order
          Dialogs,    \* the calls routed to the endpoint
          Last,       \* the alias "last"
          Nothing,    \* no entry
          PoolCap,    \* capacity of a pool: 2 in the code
          QueueCap,   \* capacity of a dialog's channel: 10 in the code
          MaxMsgs     \* bound: messages the agent sends in the run

ASSUME SetsAssumption == /\ IsFiniteSet(Conns)
                         /\ Last \notin Dialogs
                         /\ Nothing \notin Dialogs \union Conns
ASSUME BoundsAssumption == /\ PoolCap \in Nat \ {0}
                           /\ QueueCap \in Nat \ {0}
                           /\ MaxMsgs \in Nat

VARIABLES
  pool,     \* flowConnections.conns of the endpoint: a slice, [conns, cap]
  sock,     \* [Conns -> the websocket]
  reader,   \* [Conns -> the reading goroutine: label and what it is handing over]
  reg,      \* [Conns -> requestDialog]
  txns,     \* [Conns -> clientTransactions: the dialogs with one open]
  dlg,      \* [Dialogs -> label of NewServerDialog]
  on,       \* [Dialogs -> flowConn]
  queue,    \* [Dialogs -> length of FlowDialogChan.requests]
  resChan,  \* [Dialogs -> [invite, bye -> the code in the transaction's resChan]]
  call,     \* [Dialogs -> state of the caller's dialog]
  outcome,  \* [Dialogs -> does NewServerDialog name the next endpoint?]
  byes,     \* dialogs whose agent was sent a bye
  msgs      \* messages the agent has sent

agent == <<pool, sock, reader>>
maps == <<reg, txns>>
dialog == <<dlg, on, call, outcome, byes>>
vars == <<agent, maps, dialog, queue, resChan, msgs>>

\* What NewServerDialog does with a request.  Which operation a request asks for
\* is chosen when it is executed: the channel and the reader do not look at it.
Ops == {"ring", "answer", "hangup", "media", "listen", "redirect", "unknown"}
Codes == {200, 400}     \* final: accepted, anything else
Txn == {"invite", "bye"}

Labels == {"idle", "storeid", "storelast", "invite", "invitewait", "invited",
           "refused", "loop", "bye", "byewait", "byedone", "deletelast",
           "deleteid", "over"}

ReaderStates ==
  [at : {"off", "read", "closing", "unpooled", "done"}]
    \union [at : {"deliver"}, to : Dialogs, code : Codes, txn : Txn]
    \union [at : {"send"}, to : Dialogs]

Pooled == {pool.conns[i] : i \in DOMAIN pool.conns}

At(d, label) == dlg[d] = label
Goto(d, label) == dlg' = [dlg EXCEPT ![d] = label]
ReaderAt(k, label) == reader[k].at = label
ReaderGoto(k, label) == reader' = [reader EXCEPT ![k] = [at |-> label]]

TypeOK == /\ pool \in [conns : Seq(Conns), cap : Nat]
          /\ sock \in [Conns -> {"none", "open", "lost"}]
          /\ reader \in [Conns -> ReaderStates]
          /\ reg \in [Conns -> [Dialogs \union {Last} -> Dialogs \union {Nothing}]]
          /\ txns \in [Conns -> SUBSET Dialogs]
          /\ dlg \in [Dialogs -> Labels]
          /\ on \in [Dialogs -> Conns \union {Nothing}]
          /\ queue \in [Dialogs -> 0..QueueCap]
          /\ resChan \in [Dialogs -> [Txn -> Codes \union {0}]]
          /\ call \in [Dialogs -> {"ringing", "answered", "ended"}]
          /\ outcome \in [Dialogs -> {"none", "return", "redirect"}]
          /\ byes \subseteq Dialogs
          /\ msgs \in 0..MaxMsgs

Init == /\ pool = [conns |-> <<>>, cap |-> PoolCap]
        /\ sock = [k \in Conns |-> "none"]
        /\ reader = [k \in Conns |-> [at |-> "off"]]
        /\ reg = [k \in Conns |-> [x \in Dialogs \union {Last} |-> Nothing]]
        /\ txns = [k \in Conns |-> {}]
        /\ dlg = [d \in Dialogs |-> "idle"]
        /\ on = [d \in Dialogs |-> Nothing]
        /\ queue = [d \in Dialogs |-> 0]
        /\ resChan = [d \in Dialogs |-> [t \in Txn |-> 0]]
        /\ call = [d \in Dialogs |-> "ringing"]
        /\ outcome = [d \in Dialogs |-> "none"]
        /\ byes = {}
        /\ msgs = 0

----------------------------------------------------------------------------
(* The connection                                                           *)

\* The handshake and the append, under the mutex; when the slice has no room left
\* the answer is 400 and nothing changes.
Connect(k) ==
  /\ ReaderAt(k, "off")
  /\ Len(pool.conns) # pool.cap
  /\ sock' = [sock EXCEPT ![k] = "open"]
  /\ pool' = [pool EXCEPT !.conns = Append(@, k)]
  /\ ReaderGoto(k, "read")
  /\ UNCHANGED <<maps, dialog, queue, resChan, msgs>>

ConnectionLost(k) ==
  /\ sock[k] = "open"
  /\ sock' = [sock EXCEPT ![k] = "lost"]
  /\ UNCHANGED <<pool, reader, maps, dialog, queue, resChan, msgs>>

\* ReadClientData fails.
ReadFails(k) ==
  /\ ReaderAt(k, "read") /\ sock[k] = "lost"
  /\ ReaderGoto(k, "closing")
  /\ UNCHANGED <<pool, sock, maps, dialog, queue, resChan, msgs>>

\* A message of the agent is there to be read.
Reads(k) == /\ ReaderAt(k, "read") /\ sock[k] = "open"
            /\ msgs < MaxMsgs
            /\ msgs' = msgs + 1

\* A final response: the callback of its transaction is called with it.  A
\* response without transaction and a provisional one are dropped.
ReadResponse(k) ==
  /\ Reads(k)
  /\ \E d \in txns[k], code \in Codes :
       reader' = [reader EXCEPT ![k] =
                   [at |-> "deliver", to |-> d, code |-> code,
                    txn |-> IF d \in byes THEN "bye" ELSE "invite"]]
  /\ UNCHANGED <<pool, sock, maps, dialog, queue, resChan>>

\* Mutant: the response is handed over with no case <-ctx.Done().
Deliver_Waits(k) ==
  /\ ReaderAt(k, "deliver")
  /\ LET r == reader[k] IN
       /\ resChan[r.to][r.txn] = 0
       /\ resChan' = [resChan EXCEPT ![r.to][r.txn] = r.code]
  /\ ReaderGoto(k, "read")
  /\ UNCHANGED <<pool, sock, maps, dialog, queue, msgs>>

\* case resChan <- res, or case <-ctx.Done() of the context that doRequest was
\* given: the dialog's for invite, context.Background() for bye.
Deliver(k) ==
  /\ ReaderAt(k, "deliver")
  /\ LET r == reader[k] IN
       \/ /\ resChan[r.to][r.txn] = 0
          /\ resChan' = [resChan EXCEPT ![r.to][r.txn] = r.code]
       \/ /\ r.txn = "invite" /\ call[r.to] = "ended"
          /\ UNCHANGED resChan
  /\ ReaderGoto(k, "read")
  /\ UNCHANGED <<pool, sock, maps, dialog, queue, msgs>>

\* A request: 404 when its dialog is not registered; :requestCancel returns
\* from the loop, because lastBufferedRequest was set on a copy and is never
\* the request that is named; any other request goes to the dialog's channel.
ReadRequest(k) ==
  /\ Reads(k)
  /\ \E x \in Dialogs \union {Last} :
       LET d == reg[k][x] IN
         \/ /\ d = Nothing
            /\ UNCHANGED reader
         \/ /\ d # Nothing
            /\ reader' = [reader EXCEPT ![k] = [at |-> "send", to |-> d]]
         \/ /\ d # Nothing
            /\ ReaderGoto(k, "closing")
  /\ UNCHANGED <<pool, sock, maps, dialog, queue, resChan>>

\* Mutant: the request is queued whether or not there is room for it.
SendRequest_Unbounded(k) ==
  /\ ReaderAt(k, "send")
  /\ queue' = [queue EXCEPT ![reader[k].to] = @ + 1]
  /\ ReaderGoto(k, "read")
  /\ UNCHANGED <<pool, sock, maps, dialog, resChan, msgs>>

SendRequest(k) ==
  /\ ReaderAt(k, "send")
  /\ queue[reader[k].to] < QueueCap
  /\ queue' = [queue EXCEPT ![reader[k].to] = @ + 1]
  /\ ReaderGoto(k, "read")
  /\ UNCHANGED <<pool, sock, maps, dialog, resChan, msgs>>

\* The channel was full for 10 s: 429, and the goroutine returns.
SendTimeout(k) ==
  /\ ReaderAt(k, "send")
  /\ queue[reader[k].to] = QueueCap
  /\ ReaderGoto(k, "closing")
  /\ UNCHANGED <<pool, sock, maps, dialog, queue, resChan, msgs>>

\* append(conns[:i], conns[i+1:]...): what follows moves one place to the front,
\* in the same array.
Without(i) == [pool EXCEPT !.conns = [j \in 1..(Len(@) - 1) |->
                                       IF j < i THEN @[j] ELSE @[j + 1]]]

\* Mutant: conns[i+1:], which forgets what came before and the room it took.
LeavePool_Resliced(k) ==
  /\ ReaderAt(k, "closing")
  /\ \E i \in DOMAIN pool.conns :
       /\ pool.conns[i] = k
       /\ pool' = [conns |-> SubSeq(pool.conns, i + 1, Len(pool.conns)),
                   cap |-> pool.cap - i]
  /\ ReaderGoto(k, "unpooled")
  /\ UNCHANGED <<sock, maps, dialog, queue, resChan, msgs>>

\* The defers of the goroutine: connections.Delete, then conn.Close.
LeavePool(k) ==
  /\ ReaderAt(k, "closing")
  /\ \/ \E i \in DOMAIN pool.conns : pool.conns[i] = k /\ pool' = Without(i)
     \/ k \notin Pooled /\ UNCHANGED pool
  /\ ReaderGoto(k, "unpooled")
  /\ UNCHANGED <<sock, maps, dialog, queue, resChan, msgs>>

CloseConn(k) ==
  /\ ReaderAt(k, "unpooled")
  /\ sock' = [sock EXCEPT ![k] = "lost"]
  /\ ReaderGoto(k, "done")
  /\ UNCHANGED <<pool, maps, dialog, queue, resChan, msgs>>

----------------------------------------------------------------------------
(* NewServerDialog: registration and invitation                             *)

\* connections.Load picks any connection of the pool; without one it returns.
Begin(d) ==
  /\ At(d, "idle")
  /\ \/ /\ pool.conns = <<>>
        /\ Goto(d, "over")
        /\ outcome' = [outcome EXCEPT ![d] = "return"]
        /\ UNCHANGED on
     \/ /\ Goto(d, "storeid")
        /\ \E k \in Pooled : on' = [on EXCEPT ![d] = k]
        /\ UNCHANGED outcome
  /\ UNCHANGED <<agent, maps, queue, resChan, call, byes, msgs>>

Store(d, x, value) == reg' = [reg EXCEPT ![on[d]][x] = value]

StoreID(d) ==
  /\ At(d, "storeid")
  /\ Store(d, d, d)
  /\ Goto(d, "storelast")
  /\ UNCHANGED <<agent, txns, on, queue, resChan, call, outcome, byes, msgs>>

StoreLast(d) ==
  /\ At(d, "storelast")
  /\ Store(d, Last, d)
  /\ Goto(d, "invite")
  /\ UNCHANGED <<agent, txns, on, queue, resChan, call, outcome, byes, msgs>>

\* doRequest: the transaction is stored, then the request is written.
OpenTransaction(d, wait, failed) ==
  /\ txns' = [txns EXCEPT ![on[d]] = @ \union {d}]
  /\ Goto(d, IF sock[on[d]] = "open" THEN wait ELSE failed)
  /\ UNCHANGED <<reg, resChan>>

CloseTransaction(d) ==
  /\ txns' = [txns EXCEPT ![on[d]] = @ \ {d}]
  /\ UNCHANGED reg

Invite(d) ==
  /\ At(d, "invite")
  /\ OpenTransaction(d, "invitewait", "refused")
  /\ UNCHANGED <<agent, on, queue, call, outcome, byes, msgs>>

\* case r := <-resChan.
Receive(d, t) == /\ resChan[d][t] # 0
                 /\ resChan' = [resChan EXCEPT ![d][t] = 0]

\* The agent's answer; or no answer for 60 s; or the caller hangs up.
InviteAnswered(d) ==
  /\ At(d, "invitewait")
  /\ \/ /\ Receive(d, "invite")
        /\ Goto(d, IF resChan[d]["invite"] = 200 THEN "invited" ELSE "refused")
     \/ /\ Goto(d, "refused")
        /\ UNCHANGED resChan
  /\ UNCHANGED <<agent, maps, on, queue, call, outcome, byes, msgs>>

\* Mutant: the bye is deferred before the invitation and not after it.
InviteDone_SaysBye(d) ==
  /\ At(d, "invited") \/ At(d, "refused")
  /\ CloseTransaction(d)
  /\ \/ At(d, "invited") /\ Goto(d, "loop") /\ UNCHANGED outcome
     \/ /\ At(d, "refused") /\ Goto(d, "bye")
        /\ outcome' = [outcome EXCEPT ![d] = "return"]
  /\ UNCHANGED <<agent, on, queue, resChan, call, byes, msgs>>

\* The deferred clientTransactions.Delete of doRequest.
InviteDone(d) ==
  /\ At(d, "invited") \/ At(d, "refused")
  /\ CloseTransaction(d)
  /\ \/ At(d, "invited") /\ Goto(d, "loop") /\ UNCHANGED outcome
     \/ /\ At(d, "refused") /\ Goto(d, "deletelast")
        /\ outcome' = [outcome EXCEPT ![d] = "return"]
  /\ UNCHANGED <<agent, on, queue, resChan, call, byes, msgs>>

----------------------------------------------------------------------------
(* NewServerDialog: the requests                                            *)

\* waitRequest sees the end of the caller's dialog.  Nothing tells it that the
\* connection is lost.
CallerGone(d) ==
  /\ At(d, "loop")
  /\ call[d] = "ended"
  /\ Goto(d, "bye")
  /\ outcome' = [outcome EXCEPT ![d] = "return"]
  /\ UNCHANGED <<agent, maps, on, queue, resChan, call, byes, msgs>>

Continues(d) == UNCHANGED <<dlg, call, outcome>>
Returns(d, result) == /\ Goto(d, "bye")
                      /\ outcome' = [outcome EXCEPT ![d] = result]

\* The result of a request.  An error that is not errResponse or errAgentExit
\* (the call or the media fails, the connection is lost) is answered 500, 487
\* or 499 and ends the dialog; so does the panic of a listen without media,
\* which is recovered and returns nil.
Result(d, op) ==
  \/ /\ op \in {"ring", "answer", "media", "listen", "hangup", "unknown"}
     /\ Returns(d, "return")
     /\ UNCHANGED call
  \/ /\ op = "ring" /\ call[d] # "ended"
     /\ Continues(d)
  \/ /\ op = "answer" /\ call[d] # "ended"
     /\ call' = [call EXCEPT ![d] = "answered"]
     /\ UNCHANGED <<dlg, outcome>>
  \/ /\ op = "media" /\ call[d] # "answered"
     /\ Continues(d)
  \/ /\ op \in {"media", "listen"} /\ call[d] = "answered"
     /\ Continues(d)
  \/ /\ op = "listen" /\ call[d] # "answered"
     /\ Returns(d, "return")
     /\ UNCHANGED call
  \/ /\ op = "hangup"
     /\ Returns(d, "return")
     /\ call' = [call EXCEPT ![d] = "ended"]
  \/ /\ op = "redirect"
     /\ \/ Continues(d)
        \/ Returns(d, "redirect") /\ UNCHANGED call

Serve(d) ==
  /\ At(d, "loop")
  /\ queue[d] > 0
  /\ queue' = [queue EXCEPT ![d] = @ - 1]
  /\ \E op \in Ops : Result(d, op)
  /\ UNCHANGED <<agent, maps, on, resChan, byes, msgs>>

----------------------------------------------------------------------------
(* NewServerDialog: the defers                                              *)

\* A bye for the agent when the caller's dialog has ended.
SendBye(d) ==
  /\ At(d, "bye")
  /\ \/ /\ call[d] = "ended"
        /\ OpenTransaction(d, "byewait", "byedone")
        /\ byes' = byes \union {d}
     \/ /\ call[d] # "ended"
        /\ Goto(d, "deletelast")
        /\ UNCHANGED <<maps, resChan, byes>>
  /\ UNCHANGED <<agent, on, queue, call, outcome, msgs>>

\* Mutant: no timeout, so that the answer of the agent is awaited.
ByeAnswered_NoTimeout(d) ==
  /\ At(d, "byewait")
  /\ Receive(d, "bye")
  /\ Goto(d, "byedone")
  /\ UNCHANGED <<agent, maps, on, queue, call, outcome, byes, msgs>>

\* The agent's answer, or 10 s.
ByeAnswered(d) ==
  /\ At(d, "byewait")
  /\ Receive(d, "bye") \/ UNCHANGED resChan
  /\ Goto(d, "byedone")
  /\ UNCHANGED <<agent, maps, on, queue, call, outcome, byes, msgs>>

\* Mutant: doRequest forgets its transaction only when it was answered.
ByeDone_Kept(d) ==
  /\ At(d, "byedone")
  /\ Goto(d, "deletelast")
  /\ UNCHANGED <<agent, maps, on, queue, resChan, call, outcome, byes, msgs>>

ByeDone(d) ==
  /\ At(d, "byedone")
  /\ CloseTransaction(d)
  /\ Goto(d, "deletelast")
  /\ UNCHANGED <<agent, on, queue, resChan, call, outcome, byes, msgs>>

\* Mutant: only a dialog that was answered takes the alias back.
DeleteLast_Answered(d) ==
  /\ At(d, "deletelast")
  /\ IF call[d] = "answered" THEN Store(d, Last, Nothing) ELSE UNCHANGED reg
  /\ Goto(d, "deleteid")
  /\ UNCHANGED <<agent, txns, on, queue, resChan, call, outcome, byes, msgs>>

\* Whichever dialog the alias names by now, it is deleted.
DeleteLast(d) ==
  /\ At(d, "deletelast")
  /\ Store(d, Last, Nothing)
  /\ Goto(d, "deleteid")
  /\ UNCHANGED <<agent, txns, on, queue, resChan, call, outcome, byes, msgs>>

DeleteID(d) ==
  /\ At(d, "deleteid")
  /\ Store(d, d, Nothing)
  /\ Goto(d, "over")
  /\ UNCHANGED <<agent, txns, on, queue, resChan, call, outcome, byes, msgs>>

CallerHangsUp(d) ==
  /\ call[d] # "ended"
  /\ call' = [call EXCEPT ![d] = "ended"]
  /\ UNCHANGED <<agent, maps, dlg, on, queue, resChan, outcome, byes, msgs>>

----------------------------------------------------------------------------
Reader(k) == \/ ReadFails(k) \/ Deliver(k) \/ SendRequest(k) \/ SendTimeout(k)
             \/ LeavePool(k) \/ CloseConn(k)
Agent(k) == Connect(k) \/ ConnectionLost(k) \/ ReadResponse(k) \/ ReadRequest(k)

\* The goroutine of a dialog once BridgeCall has called NewServerDialog.
Dialog(d) == \/ StoreID(d) \/ StoreLast(d) \/ Invite(d)
             \/ InviteAnswered(d) \/ InviteDone(d) \/ CallerGone(d) \/ Serve(d)
             \/ SendBye(d) \/ ByeAnswered(d) \/ ByeDone(d)
             \/ DeleteLast(d) \/ DeleteID(d)

Next == \/ \E k \in Conns : Reader(k) \/ Agent(k)
        \/ \E d \in Dialogs : Begin(d) \/ Dialog(d) \/ CallerHangsUp(d)

Spec == Init /\ [][Next]_vars

\* The goroutines run; the agent and the caller do as they please.
FairSpec == /\ Spec
            /\ \A k \in Conns : WF_vars(Reader(k))
            /\ \A d \in Dialogs : WF_vars(Dialog(d))

----------------------------------------------------------------------------
(* Properties                                                               *)

\* The pool holds every connection whose goroutine has not begun to leave, once,
\* in whatever order connections come and go; and its slice keeps its array of
\* PoolCap places, so that the test of length and capacity refuses an agent when
\* that many are connected, and not before or after (flow_rpc.go:76-86, 165-195).
Serving(k) == reader[k].at \in {"read", "deliver", "send", "closing"}

PoolAccounted ==
  /\ Pooled = {k \in Conns : Serving(k)}
  /\ \A i, j \in DOMAIN pool.conns : pool.conns[i] = pool.conns[j] => i = j
  /\ Len(pool.conns) <= pool.cap /\ pool.cap = PoolCap

\* Between the defers that delete a dialog's ID and the store of it, which
\* includes the bye, when the dialog is in the map but takes no requests.
Registered(d) == dlg[d] \notin {"idle", "storeid", "over"}
Waiting(d) == dlg[d] \in {"invitewait", "invited", "refused", "byewait", "byedone"}

\* The agent may send requests as soon as it hears of a dialog, so its ID leads to
\* its channel from before the invitation is sent ("WE NEED TO HAVE DIALOG CHAN
\* READY Before doing this", flow_rpc.go:499) until the last defer, in the map of
\* its own connection and in no other.  A request that comes after the loop has
\* ended, while the bye is out, is queued and never served.  The alias, which all
\* dialogs of a connection overwrite, never leads to one that took it back.
Reachable ==
  \A k \in Conns :
    /\ \A d \in Dialogs : reg[k][d] # Nothing <=> on[d] = k /\ Registered(d)
    /\ \A d \in Dialogs : reg[k][Last] = d =>
                             on[d] = k /\ dlg[d] \notin {"deleteid", "over"}

\* A transaction is open only while its dialog waits for it: nothing is left
\* in the map of a connection that outlives its dialogs.
TransactionsAccounted ==
  \A k \in Conns : txns[k] = {d \in Dialogs : on[d] = k /\ Waiting(d)}

\* What becomes of a call implements the service: it is with an agent from the
\* answer to the invitation until the first defer.
StageOf(label) ==
  CASE label \in {"invited", "loop"} -> "taken"
    [] label \in {"bye", "byewait", "byedone"} -> "returned"
    [] label \in {"deletelast", "deleteid", "over"} -> "over"
    [] label \in {"idle", "storeid", "storelast", "invite", "invitewait", "refused"}
         -> "offered"
Stage == [d \in Dialogs |-> StageOf(dlg[d])]
Service == INSTANCE AgentService
             WITH Calls <- Dialogs, stage <- Stage, line <- call,
                  result <- outcome, told <- byes
\* An agent who took a call is told its end exactly once and touches the line no
\* more after giving the call back; who did not take it has no say in it and
\* hears no bye (src/flow_rpc.go:470-540).
ServiceSpec == Service!Spec

\* When the caller hangs up NewServerDialog returns, wherever it is, even with
\* its connection lost or an agent that answers nothing.
CallerReleased ==
  \A d \in Dialogs : call[d] = "ended" /\ ~At(d, "idle") ~> At(d, "over")

\* A reader that holds a response for a call that has ended comes back to its
\* connection, on which other dialogs wait ("making it a bit buffer to avoid
\* blockers on read routine", flow_rpc.go:427).  Not so for a second response
\* to a bye that was given up: the buffer has the first and nobody takes it.
Holds(k, d, t) == ReaderAt(k, "deliver") /\ reader[k].to = d /\ reader[k].txn = t

ReaderFreed ==
  \A k \in Conns, d \in Dialogs, t \in Txn :
    Holds(k, d, t) /\ call[d] = "ended" ~> ~Holds(k, d, t)

\* However many responses the agent sends to one invite, the reader that holds
\* the next is freed when the caller has gone (flow_rpc.go:432-436).
InviteReaderFreed ==
  \A k \in Conns, d \in Dialogs :
    Holds(k, d, "invite") /\ call[d] = "ended" ~> ~Holds(k, d, "invite")
=============================================================================
