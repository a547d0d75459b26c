---------------------------- MODULE FlowRPCProofs ----------------------------
(***************************************************************************)
(* Proofs about FlowRPC, for any number of connections, dialogs and        *)
(* messages and any capacities.                                            *)
(***************************************************************************)
EXTENDS FlowRPC, FiniteSetTheorems, TLAPS

----------------------------------------------------------------------------
(* The inductive invariant                                                  *)

\* A dialog has its connection from connections.Load until it returns
\* (src/flow_rpc.go:381-402).
OnSound == \A d \in Dialogs : /\ dlg[d] = "idle" => on[d] = Nothing
                              /\ dlg[d] \notin {"idle", "over"} => on[d] \in Conns

\* The agent is told bye only of a call that has ended, and whatever it asked
\* for before: a call it redirects goes on without one (src/flow_rpc.go:513-534).
ByeOnlyWhenEnded == \A d \in byes : call[d] = "ended"

IInv == /\ TypeOK /\ OnSound /\ PoolAccounted /\ Reachable
        /\ TransactionsAccounted /\ ByeOnlyWhenEnded

----------------------------------------------------------------------------
(* Each part is preserved                                                   *)

\* What a response leaves in a transaction's channel (src/flow_rpc.go:426-437).
LEMMA ChannelType ==
  ASSUME resChan \in [Dialogs -> [Txn -> Codes \union {0}]],
         NEW d \in Dialogs, NEW t \in Txn, NEW c \in Codes \union {0}
  PROVE  [resChan EXCEPT ![d][t] = c] \in [Dialogs -> [Txn -> Codes \union {0}]]
  OBVIOUS

\* connections.Load picks a connection (src/flow_rpc.go:88-100).
LEMMA PooledConns ==
  ASSUME pool \in [conns : Seq(Conns), cap : Nat]
  PROVE  Pooled \subseteq Conns
  BY DEF Pooled

\* A connection taken out of the slice leaves the others, each once
\* (src/flow_rpc.go:76-86).
LEMMA WithoutOne ==
  ASSUME pool \in [conns : Seq(Conns), cap : Nat], NEW i \in DOMAIN pool.conns,
         \A a, b \in DOMAIN pool.conns : pool.conns[a] = pool.conns[b] => a = b
  PROVE  /\ Without(i) \in [conns : Seq(Conns), cap : Nat]
         /\ Without(i).cap = pool.cap
         /\ Len(Without(i).conns) \in Nat /\ Len(pool.conns) \in Nat
         /\ Len(Without(i).conns) <= Len(pool.conns)
         /\ {Without(i).conns[a] : a \in DOMAIN Without(i).conns}
              = Pooled \ {pool.conns[i]}
         /\ \A a, b \in DOMAIN Without(i).conns :
              Without(i).conns[a] = Without(i).conns[b] => a = b
<1> DEFINE n == Len(pool.conns)
           At0(j) == IF j < i THEN j ELSE j + 1
           rest == [j \in 1..(n - 1) |-> pool.conns[At0(j)]]
<1>1. /\ n \in Nat /\ i \in 1..n /\ DOMAIN pool.conns = 1..n
      /\ \A j \in 1..n : pool.conns[j] \in Conns
  OBVIOUS
<1>2. \A j \in 1..(n - 1) : At0(j) \in 1..n /\ At0(j) # i
  BY <1>1
<1>3. Without(i) = [pool EXCEPT !.conns = rest]
  <2>1. rest = [j \in 1..(n - 1) |-> IF j < i THEN pool.conns[j] ELSE pool.conns[j + 1]]
    BY <1>1
  <2> QED BY <2>1 DEF Without
<1>4. Without(i).conns = rest /\ Without(i).cap = pool.cap
  BY <1>3
<1>5. rest \in Seq(Conns) /\ Len(rest) = n - 1 /\ DOMAIN rest = 1..(n - 1)
  <2>1. rest \in [1..(n - 1) -> Conns]
    BY <1>1, <1>2
  <2>2. n - 1 \in Nat
    BY <1>1
  <2> QED BY <2>1, <2>2
<1>6. {rest[a] : a \in 1..(n - 1)} = Pooled \ {pool.conns[i]}
  <2>1. ASSUME NEW a \in 1..(n - 1) PROVE rest[a] \in Pooled \ {pool.conns[i]}
    BY <1>1, <1>2 DEF Pooled
  <2>2. ASSUME NEW x \in Pooled \ {pool.conns[i]}
        PROVE  \E a \in 1..(n - 1) : rest[a] = x
    <3>1. PICK j \in 1..n : pool.conns[j] = x /\ j # i
      BY <1>1 DEF Pooled
    <3>2. CASE j < i
      <4>1. j \in 1..(n - 1) /\ At0(j) = j
        BY <1>1, <3>2
      <4> QED BY <3>1, <4>1
    <3>3. CASE j > i
      <4>1. j - 1 \in 1..(n - 1) /\ At0(j - 1) = j
        BY <1>1, <3>3
      <4> QED BY <3>1, <4>1
    <3>4. j < i \/ j > i
      BY <1>1, <3>1
    <3> QED BY <3>2, <3>3, <3>4
  <2>3. \A a \in 1..(n - 1) : rest[a] \in Pooled \ {pool.conns[i]}
    BY <2>1
  <2>4. \A x \in Pooled \ {pool.conns[i]} : \E a \in 1..(n - 1) : rest[a] = x
    BY <2>2
  <2> HIDE DEF rest
  <2> QED BY <2>3, <2>4
<1>7. \A a, b \in 1..(n - 1) : rest[a] = rest[b] => a = b
  <2>1. ASSUME NEW a \in 1..(n - 1), NEW b \in 1..(n - 1), rest[a] = rest[b] PROVE a = b
    <3>1. At0(a) = At0(b)
      BY <1>1, <1>2, <2>1
    <3> QED BY <1>1, <3>1
  <2> QED BY <2>1
<1>8. Without(i) \in [conns : Seq(Conns), cap : Nat]
  BY <1>3, <1>5
<1>9. /\ Len(rest) \in Nat /\ n \in Nat /\ Len(rest) <= n
  BY <1>1, <1>5
<1> HIDE DEF rest
<1>10. {Without(i).conns[a] : a \in DOMAIN Without(i).conns} = Pooled \ {pool.conns[i]}
  BY <1>4, <1>5, <1>6
<1>11. \A a, b \in DOMAIN Without(i).conns :
         Without(i).conns[a] = Without(i).conns[b] => a = b
  BY <1>4, <1>5, <1>7
<1> QED BY <1>4, <1>8, <1>9, <1>10, <1>11

\* Readers and dialogs keep types (src/flow_rpc.go:165-539).
LEMMA TypeStep ==
  ASSUME TypeOK, OnSound, PoolAccounted, [Next]_vars
  PROVE  TypeOK'
<1>1. ASSUME NEW k \in Conns, Connect(k)
      PROVE  TypeOK'
  <2>1. reader' = [reader EXCEPT ![k] = [at |-> "read"]]
    BY <1>1 DEF Connect, ReaderGoto
  <2>2. reader' \in [Conns -> ReaderStates]
    BY <2>1 DEF TypeOK, ReaderStates
  <2>3. pool' \in [conns : Seq(Conns), cap : Nat]
    <3>1. Append(pool.conns, k) \in Seq(Conns)
      BY DEF TypeOK
    <3>2. pool' = [pool EXCEPT !.conns = Append(pool.conns, k)]
      BY <1>1 DEF Connect
    <3> QED BY <3>1, <3>2 DEF TypeOK
  <2> QED BY <1>1, <2>2, <2>3 DEF TypeOK, Connect, maps, dialog
<1>2. ASSUME NEW k \in Conns, ConnectionLost(k)
      PROVE  TypeOK'
  BY <1>2 DEF TypeOK, ConnectionLost, maps, dialog
<1>3. ASSUME NEW k \in Conns, ReadFails(k)
      PROVE  TypeOK'
  <2>1. [at |-> "closing"] \in ReaderStates
    BY DEF ReaderStates
  <2> QED BY <1>3, <2>1 DEF TypeOK, ReadFails, ReaderGoto, maps, dialog
<1>4. ASSUME NEW k \in Conns, ReadResponse(k)
      PROVE  TypeOK'
  <2>1. PICK d \in txns[k], code \in Codes :
          reader' = [reader EXCEPT ![k] = [at |-> "deliver", to |-> d, code |-> code,
                      txn |-> IF d \in byes THEN "bye" ELSE "invite"]]
    BY <1>4 DEF ReadResponse
  <2>2. [at |-> "deliver", to |-> d, code |-> code,
         txn |-> IF d \in byes THEN "bye" ELSE "invite"] \in ReaderStates
    BY DEF TypeOK, ReaderStates, Txn
  <2>3. reader' \in [Conns -> ReaderStates] /\ msgs' \in 0..MaxMsgs
    BY <1>4, <2>1, <2>2, BoundsAssumption DEF TypeOK, ReadResponse, Reads
  <2> QED BY <1>4, <2>3 DEF TypeOK, ReadResponse, maps, dialog
<1>5. ASSUME NEW k \in Conns, Deliver(k)
      PROVE  TypeOK'
  <2>1. [at |-> "read"] \in ReaderStates
    BY DEF ReaderStates
  <2>2. reader[k].to \in Dialogs /\ reader[k].code \in Codes /\ reader[k].txn \in Txn
    BY <1>5 DEF TypeOK, ReaderStates, Deliver, ReaderAt
  <2>3. resChan' \in [Dialogs -> [Txn -> Codes \union {0}]]
    <3>1. CASE resChan' = resChan
      BY <3>1 DEF TypeOK
    <3>2. CASE resChan' = [resChan EXCEPT ![reader[k].to][reader[k].txn] = reader[k].code]
      BY <2>2, <3>2, ChannelType DEF TypeOK
    <3> QED BY <1>5, <3>1, <3>2 DEF Deliver
  <2> QED BY <1>5, <2>1, <2>3 DEF TypeOK, Deliver, ReaderGoto, maps, dialog
<1>6. ASSUME NEW k \in Conns, ReadRequest(k)
      PROVE  TypeOK'
  <2>1. reader'[k] \in ReaderStates /\ reader' = [reader EXCEPT ![k] = reader'[k]]
    <3>1. PICK x \in Dialogs \union {Last} :
            \/ reader' = reader
            \/ reg[k][x] # Nothing /\ reader' = [reader EXCEPT ![k] = [at |-> "send", to |-> reg[k][x]]]
            \/ reader' = [reader EXCEPT ![k] = [at |-> "closing"]]
      BY <1>6 DEF ReadRequest, ReaderGoto
    <3>2. reg[k][x] # Nothing => [at |-> "send", to |-> reg[k][x]] \in ReaderStates
      BY DEF TypeOK, ReaderStates
    <3>3. [at |-> "closing"] \in ReaderStates
      BY DEF ReaderStates
    <3> QED BY <3>1, <3>2, <3>3 DEF TypeOK
  <2>2. reader' \in [Conns -> ReaderStates]
    BY <2>1 DEF TypeOK
  <2>3. msgs' \in 0..MaxMsgs
    BY <1>6, BoundsAssumption DEF TypeOK, ReadRequest, Reads
  <2> QED BY <1>6, <2>2, <2>3 DEF TypeOK, ReadRequest, maps, dialog
<1>7. ASSUME NEW k \in Conns, SendRequest(k)
      PROVE  TypeOK'
  <2>1. [at |-> "read"] \in ReaderStates
    BY DEF ReaderStates
  <2>2. reader[k].to \in Dialogs
    BY <1>7 DEF TypeOK, ReaderStates, SendRequest, ReaderAt
  <2>3. queue' \in [Dialogs -> 0..QueueCap]
    BY <1>7, <2>2, BoundsAssumption DEF TypeOK, SendRequest
  <2> QED BY <1>7, <2>1, <2>3 DEF TypeOK, SendRequest, ReaderGoto, maps, dialog
<1>8. ASSUME NEW k \in Conns, SendTimeout(k)
      PROVE  TypeOK'
  <2>1. [at |-> "closing"] \in ReaderStates
    BY DEF ReaderStates
  <2> QED BY <1>8, <2>1 DEF TypeOK, SendTimeout, ReaderGoto, maps, dialog
<1>9. ASSUME NEW k \in Conns, LeavePool(k)
      PROVE  TypeOK'
  <2>1. [at |-> "unpooled"] \in ReaderStates
    BY DEF ReaderStates
  <2>2. pool' \in [conns : Seq(Conns), cap : Nat]
    BY <1>9, WithoutOne DEF TypeOK, LeavePool, PoolAccounted
  <2> QED BY <1>9, <2>1, <2>2 DEF TypeOK, LeavePool, ReaderGoto, maps, dialog
<1>10. ASSUME NEW k \in Conns, CloseConn(k)
      PROVE  TypeOK'
  <2>1. [at |-> "done"] \in ReaderStates
    BY DEF ReaderStates
  <2> QED BY <1>10, <2>1 DEF TypeOK, CloseConn, ReaderGoto, maps, dialog
<1>11. ASSUME NEW d \in Dialogs, Begin(d)
      PROVE  TypeOK'
  <2>1. dlg' \in [Dialogs -> Labels]
    BY <1>11 DEF TypeOK, Labels, Begin, Goto
  <2>2. on' \in [Dialogs -> Conns \union {Nothing}]
    <3>1. Pooled \subseteq Conns
      BY PooledConns DEF TypeOK
    <3>2. on' = on \/ \E k \in Conns : on' = [on EXCEPT ![d] = k]
      BY <1>11, <3>1 DEF Begin
    <3> QED BY <3>2 DEF TypeOK
  <2>3. outcome' \in [Dialogs -> {"none", "return", "redirect"}]
    BY <1>11 DEF TypeOK, Begin
  <2> QED BY <1>11, <2>1, <2>2, <2>3 DEF TypeOK, Begin, agent, maps
<1>12. ASSUME NEW d \in Dialogs, StoreID(d)
      PROVE  TypeOK'
  <2>1. on[d] \in Conns
    BY <1>12 DEF TypeOK, OnSound, StoreID, At
  <2>2. dlg' \in [Dialogs -> Labels]
    BY <1>12 DEF TypeOK, Labels, StoreID, At, Goto, Store
  <2> QED BY <1>12, <2>1, <2>2 DEF TypeOK, StoreID, At, Goto, Store, agent, maps
<1>13. ASSUME NEW d \in Dialogs, StoreLast(d)
      PROVE  TypeOK'
  <2>1. on[d] \in Conns
    BY <1>13 DEF TypeOK, OnSound, StoreLast, At
  <2>2. dlg' \in [Dialogs -> Labels]
    BY <1>13 DEF TypeOK, Labels, StoreLast, At, Goto, Store
  <2> QED BY <1>13, <2>1, <2>2 DEF TypeOK, StoreLast, At, Goto, Store, agent, maps
<1>14. ASSUME NEW d \in Dialogs, Invite(d)
      PROVE  TypeOK'
  <2>1. on[d] \in Conns
    BY <1>14 DEF TypeOK, OnSound, Invite, At
  <2>2. dlg' \in [Dialogs -> Labels]
    BY <1>14 DEF TypeOK, Labels, Invite, At, Goto, OpenTransaction
  <2> QED BY <1>14, <2>1, <2>2 DEF TypeOK, Invite, At, Goto, OpenTransaction, agent, maps
<1>15. ASSUME NEW d \in Dialogs, InviteAnswered(d)
      PROVE  TypeOK'
  <2>1. dlg' \in [Dialogs -> Labels]
    <3>1. \E l \in {"invited", "refused"} : dlg' = [dlg EXCEPT ![d] = l]
      BY <1>15 DEF InviteAnswered, Goto
    <3>2. dlg \in [Dialogs -> Labels] /\ {"invited", "refused"} \subseteq Labels
      BY DEF TypeOK, Labels
    <3> QED BY <3>1, <3>2
  <2>2. resChan' \in [Dialogs -> [Txn -> Codes \union {0}]]
    <3>1. CASE resChan' = resChan
      BY <3>1 DEF TypeOK
    <3>2. CASE resChan' = [resChan EXCEPT ![d]["invite"] = 0]
      BY <3>2, ChannelType DEF TypeOK, Txn
    <3> QED BY <1>15, <3>1, <3>2 DEF InviteAnswered, Receive
  <2> QED BY <1>15, <2>1, <2>2 DEF TypeOK, InviteAnswered, agent, maps
<1>16. ASSUME NEW d \in Dialogs, InviteDone(d)
      PROVE  TypeOK'
  <2>1. on[d] \in Conns
    BY <1>16 DEF TypeOK, OnSound, InviteDone, At
  <2>2. \/ dlg' = [dlg EXCEPT ![d] = "loop"] /\ outcome' = outcome
        \/ /\ dlg' = [dlg EXCEPT ![d] = "deletelast"]
           /\ outcome' = [outcome EXCEPT ![d] = "return"]
    BY <1>16 DEF InviteDone, Goto
  <2>3. /\ dlg' \in [Dialogs -> Labels]
        /\ outcome' \in [Dialogs -> {"none", "return", "redirect"}]
    <3>1. /\ dlg \in [Dialogs -> Labels] /\ "loop" \in Labels /\ "deletelast" \in Labels
          /\ outcome \in [Dialogs -> {"none", "return", "redirect"}]
      BY DEF TypeOK, Labels
    <3> QED BY <2>2, <3>1
  <2>4. txns' \in [Conns -> SUBSET Dialogs] /\ reg' = reg
    BY <1>16, <2>1 DEF TypeOK, InviteDone, CloseTransaction
  <2> QED BY <1>16, <2>3, <2>4 DEF TypeOK, InviteDone, agent
<1>17. ASSUME NEW d \in Dialogs, CallerGone(d)
      PROVE  TypeOK'
  <2>1. dlg' \in [Dialogs -> Labels]
    BY <1>17 DEF TypeOK, Labels, CallerGone, At, Goto
  <2> QED BY <1>17, <2>1 DEF TypeOK, Txn, CallerGone, At, Goto, agent, maps
<1>18. ASSUME NEW d \in Dialogs, Serve(d)
      PROVE  TypeOK'
  <2>1. PICK op \in Ops : Result(d, op)
    BY <1>18 DEF Serve
  <2>2. /\ dlg' \in [Dialogs -> Labels]
        /\ call' \in [Dialogs -> {"ringing", "answered", "ended"}]
        /\ outcome' \in [Dialogs -> {"none", "return", "redirect"}]
    <3>1. dlg' = dlg \/ dlg' = [dlg EXCEPT ![d] = "bye"]
      BY <2>1 DEF Result, Returns, Continues, Goto
    <3>2. call' \in {call, [call EXCEPT ![d] = "answered"], [call EXCEPT ![d] = "ended"]}
      BY <2>1 DEF Result, Continues
    <3>3. outcome' \in {outcome, [outcome EXCEPT ![d] = "return"], [outcome EXCEPT ![d] = "redirect"]}
      BY <2>1 DEF Result, Returns, Continues
    <3>4. dlg' \in [Dialogs -> Labels]
      BY <3>1 DEF TypeOK, Labels
    <3>5. call' \in [Dialogs -> {"ringing", "answered", "ended"}]
      BY <3>2 DEF TypeOK
    <3>6. outcome' \in [Dialogs -> {"none", "return", "redirect"}]
      BY <3>3 DEF TypeOK
    <3> QED BY <3>4, <3>5, <3>6
  <2>3. queue' \in [Dialogs -> 0..QueueCap]
    BY <1>18, BoundsAssumption DEF TypeOK, Serve
  <2> QED BY <1>18, <2>2, <2>3 DEF TypeOK, Serve, agent, maps
<1>19. ASSUME NEW d \in Dialogs, SendBye(d)
      PROVE  TypeOK'
  <2>1. on[d] \in Conns
    BY <1>19 DEF TypeOK, OnSound, SendBye, At
  <2>2. dlg' \in [Dialogs -> Labels]
    BY <1>19 DEF TypeOK, Labels, SendBye, OpenTransaction, Goto
  <2>3. txns' \in [Conns -> SUBSET Dialogs]
    <3>1. txns' = txns \/ txns' = [txns EXCEPT ![on[d]] = txns[on[d]] \union {d}]
      BY <1>19 DEF SendBye, OpenTransaction, maps
    <3>2. txns \in [Conns -> SUBSET Dialogs] /\ txns[on[d]] \union {d} \in SUBSET Dialogs
      BY <2>1 DEF TypeOK
    <3> QED BY <2>1, <3>1, <3>2
  <2>4. reg' = reg /\ resChan' = resChan /\ byes' \subseteq Dialogs
    BY <1>19 DEF TypeOK, SendBye, OpenTransaction, maps
  <2> QED BY <1>19, <2>2, <2>3, <2>4 DEF TypeOK, SendBye, agent
<1>20. ASSUME NEW d \in Dialogs, ByeAnswered(d)
      PROVE  TypeOK'
  <2>1. dlg' \in [Dialogs -> Labels]
    BY <1>20 DEF TypeOK, Labels, ByeAnswered, At, Goto, Receive
  <2>2. resChan' \in [Dialogs -> [Txn -> Codes \union {0}]]
    <3>1. CASE resChan' = resChan
      BY <3>1 DEF TypeOK
    <3>2. CASE resChan' = [resChan EXCEPT ![d]["bye"] = 0]
      BY <3>2, ChannelType DEF TypeOK, Txn
    <3> QED BY <1>20, <3>1, <3>2 DEF ByeAnswered, Receive
  <2> QED BY <1>20, <2>1, <2>2 DEF TypeOK, ByeAnswered, agent, maps
<1>21. ASSUME NEW d \in Dialogs, ByeDone(d)
      PROVE  TypeOK'
  <2>1. on[d] \in Conns
    BY <1>21 DEF TypeOK, OnSound, ByeDone, At
  <2>2. dlg' \in [Dialogs -> Labels]
    BY <1>21 DEF TypeOK, Labels, ByeDone, At, Goto, CloseTransaction
  <2> QED BY <1>21, <2>1, <2>2 DEF TypeOK, ByeDone, At, Goto, CloseTransaction, agent,
     maps
<1>22. ASSUME NEW d \in Dialogs, DeleteLast(d)
      PROVE  TypeOK'
  <2>1. on[d] \in Conns
    BY <1>22 DEF TypeOK, OnSound, DeleteLast, At
  <2>2. dlg' \in [Dialogs -> Labels]
    BY <1>22 DEF TypeOK, Labels, DeleteLast, At, Goto, Store
  <2> QED BY <1>22, <2>1, <2>2 DEF TypeOK, DeleteLast, At, Goto, Store, agent, maps
<1>23. ASSUME NEW d \in Dialogs, DeleteID(d)
      PROVE  TypeOK'
  <2>1. on[d] \in Conns
    BY <1>23 DEF TypeOK, OnSound, DeleteID, At
  <2>2. dlg' \in [Dialogs -> Labels]
    BY <1>23 DEF TypeOK, Labels, DeleteID, At, Goto, Store
  <2> QED BY <1>23, <2>1, <2>2 DEF TypeOK, DeleteID, At, Goto, Store, agent, maps
<1>24. ASSUME NEW d \in Dialogs, CallerHangsUp(d)
      PROVE  TypeOK'
  BY <1>24 DEF TypeOK, CallerHangsUp, vars, agent, maps, dialog
<1>25. CASE UNCHANGED vars
  BY <1>25 DEF TypeOK, vars, agent, maps, dialog
<1> QED BY <1>1, <1>2, <1>3, <1>4, <1>5, <1>6, <1>7, <1>8, <1>9, <1>10, <1>11, <1>12,
   <1>13, <1>14, <1>15, <1>16, <1>17, <1>18, <1>19, <1>20, <1>21, <1>22, <1>23, <1>24,
   <1>25 DEF Next, Reader, Agent, Dialog

\* A dialog keeps its connection (src/flow_rpc.go:381-402).
LEMMA OnStep ==
  ASSUME TypeOK, OnSound, [Next]_vars
  PROVE  OnSound'
<1>1. ASSUME NEW k \in Conns, Connect(k)
      PROVE  OnSound'
  BY <1>1 DEF OnSound, Connect, dialog
<1>2. ASSUME NEW k \in Conns, ConnectionLost(k)
      PROVE  OnSound'
  BY <1>2 DEF OnSound, ConnectionLost, dialog
<1>3. ASSUME NEW k \in Conns, ReadFails(k)
      PROVE  OnSound'
  BY <1>3 DEF OnSound, ReadFails, dialog
<1>4. ASSUME NEW k \in Conns, ReadResponse(k)
      PROVE  OnSound'
  BY <1>4 DEF OnSound, ReadResponse, dialog
<1>5. ASSUME NEW k \in Conns, Deliver(k)
      PROVE  OnSound'
  BY <1>5 DEF OnSound, Deliver, dialog
<1>6. ASSUME NEW k \in Conns, ReadRequest(k)
      PROVE  OnSound'
  BY <1>6 DEF OnSound, ReadRequest, dialog
<1>7. ASSUME NEW k \in Conns, SendRequest(k)
      PROVE  OnSound'
  BY <1>7 DEF OnSound, SendRequest, dialog
<1>8. ASSUME NEW k \in Conns, SendTimeout(k)
      PROVE  OnSound'
  BY <1>8 DEF OnSound, SendTimeout, dialog
<1>9. ASSUME NEW k \in Conns, LeavePool(k)
      PROVE  OnSound'
  BY <1>9 DEF OnSound, LeavePool, dialog
<1>10. ASSUME NEW k \in Conns, CloseConn(k)
      PROVE  OnSound'
  BY <1>10 DEF OnSound, CloseConn, dialog
<1>11. ASSUME NEW d \in Dialogs, Begin(d)
      PROVE  OnSound'
  <2>1. \A c \in Dialogs \ {d} : dlg'[c] = dlg[c] /\ on'[c] = on[c]
    BY <1>11 DEF TypeOK, Begin, Goto
  <2>2. dlg'[d] = "over" \/ (dlg'[d] = "storeid" /\ on'[d] \in Conns)
    <3>1. Pooled \subseteq Conns
      BY PooledConns DEF TypeOK
    <3>2. \/ dlg' = [dlg EXCEPT ![d] = "over"]
          \/ /\ dlg' = [dlg EXCEPT ![d] = "storeid"]
             /\ \E k \in Conns : on' = [on EXCEPT ![d] = k]
      BY <1>11, <3>1 DEF Begin, Goto
    <3> QED BY <3>2 DEF TypeOK
  <2> QED BY <2>1, <2>2 DEF OnSound
<1>12. ASSUME NEW d \in Dialogs, StoreID(d)
      PROVE  OnSound'
  BY <1>12 DEF TypeOK, OnSound, StoreID, At, Goto, Store, vars, agent, maps, dialog
<1>13. ASSUME NEW d \in Dialogs, StoreLast(d)
      PROVE  OnSound'
  BY <1>13 DEF TypeOK, OnSound, StoreLast, At, Goto, Store, vars, agent, maps, dialog
<1>14. ASSUME NEW d \in Dialogs, Invite(d)
      PROVE  OnSound'
  BY <1>14 DEF TypeOK, OnSound, Invite, At, Goto, OpenTransaction, vars, agent, maps,
     dialog
<1>15. ASSUME NEW d \in Dialogs, InviteAnswered(d)
      PROVE  OnSound'
  <2>1. dlg[d] = "invitewait" /\ on' = on
    BY <1>15 DEF InviteAnswered, At
  <2>2. \E l \in {"invited", "refused"} : dlg' = [dlg EXCEPT ![d] = l]
    BY <1>15 DEF InviteAnswered, Goto
  <2>3. dlg'[d] \in {"invited", "refused"} /\ \A c \in Dialogs \ {d} : dlg'[c] = dlg[c]
    BY <2>2 DEF TypeOK
  <2> QED BY <2>1, <2>3 DEF OnSound
<1>16. ASSUME NEW d \in Dialogs, InviteDone(d)
      PROVE  OnSound'
  <2>1. dlg[d] \in {"invited", "refused"} /\ on' = on
    BY <1>16 DEF InviteDone, At
  <2>2. \E l \in {"loop", "deletelast"} : dlg' = [dlg EXCEPT ![d] = l]
    BY <1>16 DEF InviteDone, Goto
  <2>3. dlg'[d] \in {"loop", "deletelast"} /\ \A c \in Dialogs \ {d} : dlg'[c] = dlg[c]
    BY <2>2 DEF TypeOK
  <2> QED BY <2>1, <2>2, <2>3 DEF OnSound
<1>17. ASSUME NEW d \in Dialogs, CallerGone(d)
      PROVE  OnSound'
  BY <1>17 DEF TypeOK, OnSound, CallerGone, At, Goto, vars, agent, maps, dialog
<1>18. ASSUME NEW d \in Dialogs, Serve(d)
      PROVE  OnSound'
  BY <1>18 DEF TypeOK, OnSound, Serve, At, Goto, Result, Returns, Continues, Ops, vars,
     agent, maps, dialog
<1>19. ASSUME NEW d \in Dialogs, SendBye(d)
      PROVE  OnSound'
  <2>1. dlg[d] = "bye" /\ on' = on
    BY <1>19 DEF SendBye, At
  <2>2. \E l \in {"byewait", "byedone", "deletelast"} : dlg' = [dlg EXCEPT ![d] = l]
    BY <1>19 DEF SendBye, OpenTransaction, Goto
  <2>3. /\ dlg'[d] \in {"byewait", "byedone", "deletelast"}
        /\ \A c \in Dialogs \ {d} : dlg'[c] = dlg[c]
    BY <2>2 DEF TypeOK
  <2> QED BY <2>1, <2>2, <2>3 DEF OnSound
<1>20. ASSUME NEW d \in Dialogs, ByeAnswered(d)
      PROVE  OnSound'
  BY <1>20 DEF TypeOK, OnSound, ByeAnswered, At, Goto, Receive, vars, agent, maps, dialog
<1>21. ASSUME NEW d \in Dialogs, ByeDone(d)
      PROVE  OnSound'
  BY <1>21 DEF TypeOK, OnSound, ByeDone, At, Goto, CloseTransaction, vars, agent, maps,
     dialog
<1>22. ASSUME NEW d \in Dialogs, DeleteLast(d)
      PROVE  OnSound'
  BY <1>22 DEF TypeOK, OnSound, DeleteLast, At, Goto, Store, vars, agent, maps, dialog
<1>23. ASSUME NEW d \in Dialogs, DeleteID(d)
      PROVE  OnSound'
  BY <1>23 DEF TypeOK, OnSound, DeleteID, At, Goto, Store, vars, agent, maps, dialog
<1>24. ASSUME NEW d \in Dialogs, CallerHangsUp(d)
      PROVE  OnSound'
  BY <1>24 DEF OnSound, CallerHangsUp
<1>25. CASE UNCHANGED vars
  BY <1>25 DEF TypeOK, OnSound, vars, agent, maps, dialog
<1> QED BY <1>1, <1>2, <1>3, <1>4, <1>5, <1>6, <1>7, <1>8, <1>9, <1>10, <1>11, <1>12,
   <1>13, <1>14, <1>15, <1>16, <1>17, <1>18, <1>19, <1>20, <1>21, <1>22, <1>23, <1>24,
   <1>25 DEF Next, Reader, Agent, Dialog

\* A connection is in the pool while its goroutine reads, and the pool has room
\* (src/flow_rpc.go:165-200).
LEMMA PoolStep ==
  ASSUME TypeOK, PoolAccounted, [Next]_vars
  PROVE  PoolAccounted'
<1> USE DEF Serving, Pooled
<1>1. ASSUME NEW k \in Conns, Connect(k)
      PROVE  PoolAccounted'
  <2>1. /\ \A j \in Conns \ {k} : reader'[j] = reader[j]
        /\ reader'[k].at = "read" /\ ~Serving(k)
        /\ pool' = [pool EXCEPT !.conns = Append(@, k)]
    BY <1>1 DEF TypeOK, Connect, ReaderGoto, ReaderAt
  <2>2. /\ pool.conns \in Seq(Conns) /\ Len(pool.conns) \in Nat
        /\ Len(pool.conns) < PoolCap
    BY <1>1, BoundsAssumption DEF TypeOK, PoolAccounted, Connect
  <2>3. /\ pool'.cap = pool.cap /\ Len(pool'.conns) = Len(pool.conns) + 1
        /\ DOMAIN pool'.conns = DOMAIN pool.conns \union {Len(pool.conns) + 1}
        /\ pool'.conns[Len(pool.conns) + 1] = k
        /\ \A i \in DOMAIN pool.conns : pool'.conns[i] = pool.conns[i]
        /\ Len(pool.conns) + 1 \notin DOMAIN pool.conns
    BY <2>1, <2>2 DEF TypeOK
  <2>4. Pooled' = Pooled \union {k}
    BY <2>3
  <2>5. k \notin Pooled
    BY <2>1 DEF PoolAccounted
  <2>6. \A i, j \in DOMAIN pool'.conns : pool'.conns[i] = pool'.conns[j] => i = j
    BY <2>3, <2>5 DEF PoolAccounted
  <2>7. {j \in Conns : Serving(j)'} = {j \in Conns : Serving(j)} \union {k}
    BY <2>1
  <2>8. Pooled' = {j \in Conns : Serving(j)'}
    BY <2>4, <2>7 DEF PoolAccounted
  <2>9. Len(pool'.conns) <= pool'.cap /\ pool'.cap = PoolCap
    BY <2>2, <2>3, BoundsAssumption DEF PoolAccounted
  <2> QED BY <2>6, <2>8, <2>9 DEF PoolAccounted
<1>2. ASSUME NEW k \in Conns, ConnectionLost(k)
      PROVE  PoolAccounted'
  BY <1>2 DEF PoolAccounted, ConnectionLost
<1>3. ASSUME NEW k \in Conns, ReadFails(k)
      PROVE  PoolAccounted'
  <2>1. /\ \A j \in Conns \ {k} : reader'[j] = reader[j]
        /\ Serving(k) <=> Serving(k)'
    BY <1>3 DEF TypeOK, ReadFails, ReaderAt, ReaderGoto
  <2> QED BY <1>3, <2>1 DEF PoolAccounted, ReadFails
<1>4. ASSUME NEW k \in Conns, ReadResponse(k)
      PROVE  PoolAccounted'
  <2>1. /\ \A j \in Conns \ {k} : reader'[j] = reader[j]
        /\ Serving(k) /\ Serving(k)'
    BY <1>4 DEF TypeOK, ReadResponse, Reads, ReaderAt
  <2> QED BY <1>4, <2>1 DEF PoolAccounted, ReadResponse
<1>5. ASSUME NEW k \in Conns, Deliver(k)
      PROVE  PoolAccounted'
  <2>1. /\ \A j \in Conns \ {k} : reader'[j] = reader[j]
        /\ Serving(k) <=> Serving(k)'
    BY <1>5 DEF TypeOK, Deliver, ReaderAt, ReaderGoto
  <2> QED BY <1>5, <2>1 DEF PoolAccounted, Deliver
<1>6. ASSUME NEW k \in Conns, ReadRequest(k)
      PROVE  PoolAccounted'
  <2>1. /\ \A j \in Conns \ {k} : reader'[j] = reader[j]
        /\ Serving(k) /\ Serving(k)'
    BY <1>6 DEF TypeOK, ReadRequest, Reads, ReaderAt, ReaderGoto
  <2> QED BY <1>6, <2>1 DEF PoolAccounted, ReadRequest
<1>7. ASSUME NEW k \in Conns, SendRequest(k)
      PROVE  PoolAccounted'
  <2>1. /\ \A j \in Conns \ {k} : reader'[j] = reader[j]
        /\ Serving(k) <=> Serving(k)'
    BY <1>7 DEF TypeOK, SendRequest, ReaderAt, ReaderGoto
  <2> QED BY <1>7, <2>1 DEF PoolAccounted, SendRequest
<1>8. ASSUME NEW k \in Conns, SendTimeout(k)
      PROVE  PoolAccounted'
  <2>1. /\ \A j \in Conns \ {k} : reader'[j] = reader[j]
        /\ Serving(k) <=> Serving(k)'
    BY <1>8 DEF TypeOK, SendTimeout, ReaderAt, ReaderGoto
  <2> QED BY <1>8, <2>1 DEF PoolAccounted, SendTimeout
<1>9. ASSUME NEW k \in Conns, LeavePool(k)
      PROVE  PoolAccounted'
  <2>1. /\ \A j \in Conns \ {k} : reader'[j] = reader[j]
        /\ Serving(k) /\ ~Serving(k)'
    BY <1>9 DEF TypeOK, LeavePool, ReaderAt, ReaderGoto
  <2>2. PICK i \in DOMAIN pool.conns : pool.conns[i] = k /\ pool' = Without(i)
    BY <1>9, <2>1 DEF PoolAccounted, LeavePool
  <2>3. /\ Pooled' = Pooled \ {k} /\ pool'.cap = pool.cap
        /\ Len(pool'.conns) <= Len(pool.conns) /\ Len(pool'.conns) \in Nat
        /\ Len(pool.conns) \in Nat
        /\ \A a, b \in DOMAIN pool'.conns : pool'.conns[a] = pool'.conns[b] => a = b
    <3>1. pool \in [conns : Seq(Conns), cap : Nat]
      BY DEF TypeOK
    <3>2. \A a, b \in DOMAIN pool.conns : pool.conns[a] = pool.conns[b] => a = b
      BY DEF PoolAccounted
    <3>3. Pooled' = {Without(i).conns[a] : a \in DOMAIN Without(i).conns}
      BY <2>2
    <3> HIDE DEF Pooled
    <3>4. /\ Without(i).cap = pool.cap
          /\ Len(Without(i).conns) \in Nat /\ Len(pool.conns) \in Nat
          /\ Len(Without(i).conns) <= Len(pool.conns)
          /\ {Without(i).conns[a] : a \in DOMAIN Without(i).conns} = Pooled \ {pool.conns[i]}
          /\ \A a, b \in DOMAIN Without(i).conns :
               Without(i).conns[a] = Without(i).conns[b] => a = b
      BY <3>1, <3>2, WithoutOne
    <3>5. pool' = Without(i) /\ pool.conns[i] = k
      BY <2>2
    <3>6. Pooled' = Pooled \ {k}
      BY <3>3, <3>4, <3>5
    <3> QED BY <3>4, <3>5, <3>6
  <2>4. {j \in Conns : Serving(j)}' = {j \in Conns : Serving(j)} \ {k}
    BY <2>1
  <2>5. Len(pool'.conns) <= pool'.cap /\ pool'.cap = PoolCap
    BY <2>3, BoundsAssumption DEF PoolAccounted
  <2> HIDE DEF Pooled, Serving
  <2> QED BY <2>3, <2>4, <2>5 DEF PoolAccounted
<1>10. ASSUME NEW k \in Conns, CloseConn(k)
      PROVE  PoolAccounted'
  <2>1. /\ \A j \in Conns \ {k} : reader'[j] = reader[j]
        /\ Serving(k) <=> Serving(k)'
    BY <1>10 DEF TypeOK, CloseConn, ReaderAt, ReaderGoto
  <2> QED BY <1>10, <2>1 DEF PoolAccounted, CloseConn
<1>11. ASSUME NEW d \in Dialogs, Begin(d)
      PROVE  PoolAccounted'
  BY <1>11 DEF PoolAccounted, Begin, agent
<1>12. ASSUME NEW d \in Dialogs, StoreID(d)
      PROVE  PoolAccounted'
  BY <1>12 DEF PoolAccounted, StoreID, agent
<1>13. ASSUME NEW d \in Dialogs, StoreLast(d)
      PROVE  PoolAccounted'
  BY <1>13 DEF PoolAccounted, StoreLast, agent
<1>14. ASSUME NEW d \in Dialogs, Invite(d)
      PROVE  PoolAccounted'
  BY <1>14 DEF PoolAccounted, Invite, agent
<1>15. ASSUME NEW d \in Dialogs, InviteAnswered(d)
      PROVE  PoolAccounted'
  BY <1>15 DEF PoolAccounted, InviteAnswered, agent
<1>16. ASSUME NEW d \in Dialogs, InviteDone(d)
      PROVE  PoolAccounted'
  BY <1>16 DEF PoolAccounted, InviteDone, agent
<1>17. ASSUME NEW d \in Dialogs, CallerGone(d)
      PROVE  PoolAccounted'
  BY <1>17 DEF PoolAccounted, CallerGone, agent
<1>18. ASSUME NEW d \in Dialogs, Serve(d)
      PROVE  PoolAccounted'
  BY <1>18 DEF PoolAccounted, Serve, agent
<1>19. ASSUME NEW d \in Dialogs, SendBye(d)
      PROVE  PoolAccounted'
  BY <1>19 DEF PoolAccounted, SendBye, agent
<1>20. ASSUME NEW d \in Dialogs, ByeAnswered(d)
      PROVE  PoolAccounted'
  BY <1>20 DEF PoolAccounted, ByeAnswered, agent
<1>21. ASSUME NEW d \in Dialogs, ByeDone(d)
      PROVE  PoolAccounted'
  BY <1>21 DEF PoolAccounted, ByeDone, agent
<1>22. ASSUME NEW d \in Dialogs, DeleteLast(d)
      PROVE  PoolAccounted'
  BY <1>22 DEF PoolAccounted, DeleteLast, agent
<1>23. ASSUME NEW d \in Dialogs, DeleteID(d)
      PROVE  PoolAccounted'
  BY <1>23 DEF PoolAccounted, DeleteID, agent
<1>24. ASSUME NEW d \in Dialogs, CallerHangsUp(d)
      PROVE  PoolAccounted'
  BY <1>24 DEF PoolAccounted, CallerHangsUp, agent
<1>25. CASE UNCHANGED vars
  BY <1>25 DEF PoolAccounted, vars, agent, maps, dialog
<1> QED BY <1>1, <1>2, <1>3, <1>4, <1>5, <1>6, <1>7, <1>8, <1>9, <1>10, <1>11, <1>12,
   <1>13, <1>14, <1>15, <1>16, <1>17, <1>18, <1>19, <1>20, <1>21, <1>22, <1>23, <1>24,
   <1>25 DEF Next, Reader, Agent, Dialog

\* The two entries of a dialog are made and taken back by its goroutine
\* (src/flow_rpc.go:395-402).
LEMMA ReachableStep ==
  ASSUME TypeOK, OnSound, Reachable, [Next]_vars
  PROVE  Reachable'
<1> DEFINE Live == Labels \ {"idle", "storeid", "storelast", "deleteid", "over"}
<1> USE DEF Labels
<1>1. ASSUME NEW k \in Conns, Connect(k)
      PROVE  Reachable'
  BY <1>1 DEF Reachable, Registered, Connect, maps, dialog
<1>2. ASSUME NEW k \in Conns, ConnectionLost(k)
      PROVE  Reachable'
  BY <1>2 DEF Reachable, Registered, ConnectionLost, maps, dialog
<1>3. ASSUME NEW k \in Conns, ReadFails(k)
      PROVE  Reachable'
  BY <1>3 DEF Reachable, Registered, ReadFails, maps, dialog
<1>4. ASSUME NEW k \in Conns, ReadResponse(k)
      PROVE  Reachable'
  BY <1>4 DEF Reachable, Registered, ReadResponse, maps, dialog
<1>5. ASSUME NEW k \in Conns, Deliver(k)
      PROVE  Reachable'
  BY <1>5 DEF Reachable, Registered, Deliver, maps, dialog
<1>6. ASSUME NEW k \in Conns, ReadRequest(k)
      PROVE  Reachable'
  BY <1>6 DEF Reachable, Registered, ReadRequest, maps, dialog
<1>7. ASSUME NEW k \in Conns, SendRequest(k)
      PROVE  Reachable'
  BY <1>7 DEF Reachable, Registered, SendRequest, maps, dialog
<1>8. ASSUME NEW k \in Conns, SendTimeout(k)
      PROVE  Reachable'
  BY <1>8 DEF Reachable, Registered, SendTimeout, maps, dialog
<1>9. ASSUME NEW k \in Conns, LeavePool(k)
      PROVE  Reachable'
  BY <1>9 DEF Reachable, Registered, LeavePool, maps, dialog
<1>10. ASSUME NEW k \in Conns, CloseConn(k)
      PROVE  Reachable'
  BY <1>10 DEF Reachable, Registered, CloseConn, maps, dialog
<1>11. ASSUME NEW d \in Dialogs, Begin(d)
      PROVE  Reachable'
  <2>1. reg' = reg /\ \A c \in Dialogs \ {d} : dlg'[c] = dlg[c] /\ on'[c] = on[c]
    BY <1>11 DEF TypeOK, Begin, Goto, maps
  <2>2. dlg[d] = "idle" /\ dlg'[d] \in {"storeid", "over"} /\ on[d] = Nothing
    BY <1>11 DEF TypeOK, OnSound, Begin, At, Goto
  <2>3. \A k \in Conns : reg[k][d] = Nothing /\ reg[k][Last] # d
    BY <2>2, SetsAssumption DEF Reachable, Registered
  <2> QED BY <2>1, <2>2, <2>3 DEF Reachable, Registered
<1>12. ASSUME NEW d \in Dialogs, StoreID(d)
      PROVE  Reachable'
  <2>1. on' = on /\ on[d] \in Conns /\ \A c \in Dialogs \ {d} : dlg'[c] = dlg[c]
    BY <1>12 DEF TypeOK, OnSound, StoreID, At, Goto
  <2>2. dlg[d] = "storeid" /\ dlg'[d] = "storelast"
    BY <1>12 DEF TypeOK, StoreID, At, Goto
  <2>3. reg'[on[d]][d] = d
    BY <1>12, <2>1 DEF TypeOK, StoreID, Store
  <2>4. \A k \in Conns, x \in Dialogs \union {Last} :
          k # on[d] \/ x # d => reg'[k][x] = reg[k][x]
    BY <1>12, <2>1 DEF TypeOK, StoreID, Store
  <2> QED BY <2>1, <2>2, <2>3, <2>4, SetsAssumption DEF Reachable, Registered
<1>13. ASSUME NEW d \in Dialogs, StoreLast(d)
      PROVE  Reachable'
  <2>1. on' = on /\ on[d] \in Conns /\ \A c \in Dialogs \ {d} : dlg'[c] = dlg[c]
    BY <1>13 DEF TypeOK, OnSound, StoreLast, At, Goto
  <2>2. dlg[d] = "storelast" /\ dlg'[d] = "invite"
    BY <1>13 DEF TypeOK, StoreLast, At, Goto
  <2>3. reg'[on[d]][Last] = d
    BY <1>13, <2>1 DEF TypeOK, StoreLast, Store
  <2>4. \A k \in Conns, x \in Dialogs \union {Last} :
          k # on[d] \/ x # Last => reg'[k][x] = reg[k][x]
    BY <1>13, <2>1 DEF TypeOK, StoreLast, Store
  <2> QED BY <2>1, <2>2, <2>3, <2>4, SetsAssumption DEF Reachable, Registered
<1>14. ASSUME NEW d \in Dialogs, Invite(d)
      PROVE  Reachable'
  <2>1. reg' = reg /\ on' = on /\ \A c \in Dialogs \ {d} : dlg'[c] = dlg[c]
    BY <1>14 DEF TypeOK, Invite, At, Goto, OpenTransaction, maps
  <2>2. dlg[d] \in Live /\ dlg'[d] \in Live
    BY <1>14 DEF TypeOK, Invite, At, Goto, OpenTransaction
  <2> QED BY <2>1, <2>2 DEF Reachable, Registered
<1>15. ASSUME NEW d \in Dialogs, InviteAnswered(d)
      PROVE  Reachable'
  <2>1. reg' = reg /\ on' = on /\ \A c \in Dialogs \ {d} : dlg'[c] = dlg[c]
    BY <1>15 DEF TypeOK, InviteAnswered, At, Goto, Receive, maps
  <2>2. dlg[d] \in Live /\ dlg'[d] \in Live
    BY <1>15 DEF TypeOK, InviteAnswered, At, Goto, Receive
  <2> QED BY <2>1, <2>2 DEF Reachable, Registered
<1>16. ASSUME NEW d \in Dialogs, InviteDone(d)
      PROVE  Reachable'
  <2>1. reg' = reg /\ on' = on /\ \A c \in Dialogs \ {d} : dlg'[c] = dlg[c]
    BY <1>16 DEF TypeOK, InviteDone, At, Goto, CloseTransaction, maps
  <2>2. dlg[d] \in Live /\ dlg'[d] \in Live
    BY <1>16 DEF TypeOK, InviteDone, At, Goto, CloseTransaction
  <2> QED BY <2>1, <2>2 DEF Reachable, Registered
<1>17. ASSUME NEW d \in Dialogs, CallerGone(d)
      PROVE  Reachable'
  <2>1. reg' = reg /\ on' = on /\ \A c \in Dialogs \ {d} : dlg'[c] = dlg[c]
    BY <1>17 DEF TypeOK, CallerGone, At, Goto, maps
  <2>2. dlg[d] \in Live /\ dlg'[d] \in Live
    BY <1>17 DEF TypeOK, CallerGone, At, Goto
  <2> QED BY <2>1, <2>2 DEF Reachable, Registered
<1>18. ASSUME NEW d \in Dialogs, Serve(d)
      PROVE  Reachable'
  <2>1. reg' = reg /\ on' = on /\ \A c \in Dialogs \ {d} : dlg'[c] = dlg[c]
    BY <1>18 DEF TypeOK, Serve, At, Goto, Result, Returns, Continues, Ops, maps
  <2>2. dlg[d] \in Live /\ dlg'[d] \in Live
    BY <1>18 DEF TypeOK, Serve, At, Goto, Result, Returns, Continues, Ops
  <2> QED BY <2>1, <2>2 DEF Reachable, Registered
<1>19. ASSUME NEW d \in Dialogs, SendBye(d)
      PROVE  Reachable'
  <2>1. reg' = reg /\ on' = on /\ \A c \in Dialogs \ {d} : dlg'[c] = dlg[c]
    BY <1>19 DEF TypeOK, SendBye, At, Goto, OpenTransaction, maps
  <2>2. dlg[d] \in Live /\ dlg'[d] \in Live
    BY <1>19 DEF TypeOK, SendBye, At, Goto, OpenTransaction
  <2> QED BY <2>1, <2>2 DEF Reachable, Registered
<1>20. ASSUME NEW d \in Dialogs, ByeAnswered(d)
      PROVE  Reachable'
  <2>1. reg' = reg /\ on' = on /\ \A c \in Dialogs \ {d} : dlg'[c] = dlg[c]
    BY <1>20 DEF TypeOK, ByeAnswered, At, Goto, Receive, maps
  <2>2. dlg[d] \in Live /\ dlg'[d] \in Live
    BY <1>20 DEF TypeOK, ByeAnswered, At, Goto, Receive
  <2> QED BY <2>1, <2>2 DEF Reachable, Registered
<1>21. ASSUME NEW d \in Dialogs, ByeDone(d)
      PROVE  Reachable'
  <2>1. reg' = reg /\ on' = on /\ \A c \in Dialogs \ {d} : dlg'[c] = dlg[c]
    BY <1>21 DEF TypeOK, ByeDone, At, Goto, CloseTransaction, maps
  <2>2. dlg[d] \in Live /\ dlg'[d] \in Live
    BY <1>21 DEF TypeOK, ByeDone, At, Goto, CloseTransaction
  <2> QED BY <2>1, <2>2 DEF Reachable, Registered
<1>22. ASSUME NEW d \in Dialogs, DeleteLast(d)
      PROVE  Reachable'
  <2>1. on' = on /\ on[d] \in Conns /\ \A c \in Dialogs \ {d} : dlg'[c] = dlg[c]
    BY <1>22 DEF TypeOK, OnSound, DeleteLast, At, Goto
  <2>2. dlg[d] = "deletelast" /\ dlg'[d] = "deleteid"
    BY <1>22 DEF TypeOK, DeleteLast, At, Goto
  <2>3. reg'[on[d]][Last] = Nothing
    BY <1>22, <2>1 DEF TypeOK, DeleteLast, Store
  <2>4. \A k \in Conns, x \in Dialogs \union {Last} :
          k # on[d] \/ x # Last => reg'[k][x] = reg[k][x]
    BY <1>22, <2>1 DEF TypeOK, DeleteLast, Store
  <2> QED BY <2>1, <2>2, <2>3, <2>4, SetsAssumption DEF Reachable, Registered
<1>23. ASSUME NEW d \in Dialogs, DeleteID(d)
      PROVE  Reachable'
  <2>1. on' = on /\ on[d] \in Conns /\ \A c \in Dialogs \ {d} : dlg'[c] = dlg[c]
    BY <1>23 DEF TypeOK, OnSound, DeleteID, At, Goto
  <2>2. dlg[d] = "deleteid" /\ dlg'[d] = "over"
    BY <1>23 DEF TypeOK, DeleteID, At, Goto
  <2>3. reg'[on[d]][d] = Nothing
    BY <1>23, <2>1 DEF TypeOK, DeleteID, Store
  <2>4. \A k \in Conns, x \in Dialogs \union {Last} :
          k # on[d] \/ x # d => reg'[k][x] = reg[k][x]
    BY <1>23, <2>1 DEF TypeOK, DeleteID, Store
  <2> QED BY <2>1, <2>2, <2>3, <2>4, SetsAssumption DEF Reachable, Registered
<1>24. ASSUME NEW d \in Dialogs, CallerHangsUp(d)
      PROVE  Reachable'
  BY <1>24 DEF Reachable, Registered, CallerHangsUp, maps
<1>25. CASE UNCHANGED vars
  BY <1>25 DEF Reachable, Registered, vars, agent, maps, dialog
<1> QED BY <1>1, <1>2, <1>3, <1>4, <1>5, <1>6, <1>7, <1>8, <1>9, <1>10, <1>11, <1>12,
   <1>13, <1>14, <1>15, <1>16, <1>17, <1>18, <1>19, <1>20, <1>21, <1>22, <1>23, <1>24,
   <1>25 DEF Next, Reader, Agent, Dialog

\* doRequest stores a transaction and deletes it on every path out
\* (src/flow_rpc.go:404-455).
LEMMA TransactionsStep ==
  ASSUME TypeOK, OnSound, TransactionsAccounted, [Next]_vars
  PROVE  TransactionsAccounted'
<1>1. ASSUME NEW k \in Conns, Connect(k)
      PROVE  TransactionsAccounted'
  BY <1>1 DEF TransactionsAccounted, Waiting, Connect, maps, dialog
<1>2. ASSUME NEW k \in Conns, ConnectionLost(k)
      PROVE  TransactionsAccounted'
  BY <1>2 DEF TransactionsAccounted, Waiting, ConnectionLost, maps, dialog
<1>3. ASSUME NEW k \in Conns, ReadFails(k)
      PROVE  TransactionsAccounted'
  BY <1>3 DEF TransactionsAccounted, Waiting, ReadFails, maps, dialog
<1>4. ASSUME NEW k \in Conns, ReadResponse(k)
      PROVE  TransactionsAccounted'
  BY <1>4 DEF TransactionsAccounted, Waiting, ReadResponse, maps, dialog
<1>5. ASSUME NEW k \in Conns, Deliver(k)
      PROVE  TransactionsAccounted'
  BY <1>5 DEF TransactionsAccounted, Waiting, Deliver, maps, dialog
<1>6. ASSUME NEW k \in Conns, ReadRequest(k)
      PROVE  TransactionsAccounted'
  BY <1>6 DEF TransactionsAccounted, Waiting, ReadRequest, maps, dialog
<1>7. ASSUME NEW k \in Conns, SendRequest(k)
      PROVE  TransactionsAccounted'
  BY <1>7 DEF TransactionsAccounted, Waiting, SendRequest, maps, dialog
<1>8. ASSUME NEW k \in Conns, SendTimeout(k)
      PROVE  TransactionsAccounted'
  BY <1>8 DEF TransactionsAccounted, Waiting, SendTimeout, maps, dialog
<1>9. ASSUME NEW k \in Conns, LeavePool(k)
      PROVE  TransactionsAccounted'
  BY <1>9 DEF TransactionsAccounted, Waiting, LeavePool, maps, dialog
<1>10. ASSUME NEW k \in Conns, CloseConn(k)
      PROVE  TransactionsAccounted'
  BY <1>10 DEF TransactionsAccounted, Waiting, CloseConn, maps, dialog
<1>11. ASSUME NEW d \in Dialogs, Begin(d)
      PROVE  TransactionsAccounted'
  <2>1. txns' = txns /\ \A c \in Dialogs \ {d} : dlg'[c] = dlg[c] /\ on'[c] = on[c]
    BY <1>11 DEF TypeOK, Begin, Goto, maps
  <2>2. ~Waiting(d) /\ dlg'[d] \in {"storeid", "over"}
    BY <1>11 DEF TypeOK, Begin, At, Goto, Waiting
  <2> QED BY <2>1, <2>2 DEF TransactionsAccounted, Waiting
<1>12. ASSUME NEW d \in Dialogs, StoreID(d)
      PROVE  TransactionsAccounted'
  <2>1. txns' = txns /\ on' = on /\ \A c \in Dialogs \ {d} : dlg'[c] = dlg[c]
    BY <1>12 DEF TypeOK, StoreID, At, Goto, Store, maps
  <2>2. Waiting(d) <=> Waiting(d)'
    BY <1>12 DEF TypeOK, Waiting, StoreID, At, Goto, Store
  <2> QED BY <2>1, <2>2 DEF TransactionsAccounted, Waiting
<1>13. ASSUME NEW d \in Dialogs, StoreLast(d)
      PROVE  TransactionsAccounted'
  <2>1. txns' = txns /\ on' = on /\ \A c \in Dialogs \ {d} : dlg'[c] = dlg[c]
    BY <1>13 DEF TypeOK, StoreLast, At, Goto, Store, maps
  <2>2. Waiting(d) <=> Waiting(d)'
    BY <1>13 DEF TypeOK, Waiting, StoreLast, At, Goto, Store
  <2> QED BY <2>1, <2>2 DEF TransactionsAccounted, Waiting
<1>14. ASSUME NEW d \in Dialogs, Invite(d)
      PROVE  TransactionsAccounted'
  <2>1. on' = on /\ on[d] \in Conns /\ \A c \in Dialogs \ {d} : dlg'[c] = dlg[c]
    BY <1>14 DEF TypeOK, OnSound, Invite, At, Goto, OpenTransaction
  <2>2. Waiting(d)'
    BY <1>14 DEF TypeOK, Waiting, Invite, At, Goto, OpenTransaction
  <2>3. /\ txns'[on[d]] = txns[on[d]] \union {d}
        /\ \A k \in Conns \ {on[d]} : txns'[k] = txns[k]
    BY <1>14, <2>1 DEF TypeOK, Invite, At, Goto, OpenTransaction
  <2> QED BY <2>1, <2>2, <2>3 DEF TransactionsAccounted, Waiting
<1>15. ASSUME NEW d \in Dialogs, InviteAnswered(d)
      PROVE  TransactionsAccounted'
  <2>1. txns' = txns /\ on' = on /\ \A c \in Dialogs \ {d} : dlg'[c] = dlg[c]
    BY <1>15 DEF TypeOK, InviteAnswered, At, Goto, Receive, maps
  <2>2. Waiting(d) <=> Waiting(d)'
    BY <1>15 DEF TypeOK, Waiting, InviteAnswered, At, Goto, Receive
  <2> QED BY <2>1, <2>2 DEF TransactionsAccounted, Waiting
<1>16. ASSUME NEW d \in Dialogs, InviteDone(d)
      PROVE  TransactionsAccounted'
  <2>1. on' = on /\ on[d] \in Conns /\ \A c \in Dialogs \ {d} : dlg'[c] = dlg[c]
    BY <1>16 DEF TypeOK, OnSound, InviteDone, At, Goto, CloseTransaction
  <2>2. ~Waiting(d)'
    BY <1>16 DEF TypeOK, Waiting, InviteDone, At, Goto, CloseTransaction
  <2>3. /\ txns'[on[d]] = txns[on[d]] \ {d}
        /\ \A k \in Conns \ {on[d]} : txns'[k] = txns[k]
    BY <1>16, <2>1 DEF TypeOK, InviteDone, At, Goto, CloseTransaction
  <2> QED BY <2>1, <2>2, <2>3 DEF TransactionsAccounted, Waiting
<1>17. ASSUME NEW d \in Dialogs, CallerGone(d)
      PROVE  TransactionsAccounted'
  <2>1. txns' = txns /\ on' = on /\ \A c \in Dialogs \ {d} : dlg'[c] = dlg[c]
    BY <1>17 DEF TypeOK, CallerGone, At, Goto, maps
  <2>2. Waiting(d) <=> Waiting(d)'
    BY <1>17 DEF TypeOK, Waiting, CallerGone, At, Goto
  <2> QED BY <2>1, <2>2 DEF TransactionsAccounted, Waiting
<1>18. ASSUME NEW d \in Dialogs, Serve(d)
      PROVE  TransactionsAccounted'
  <2>1. txns' = txns /\ on' = on /\ \A c \in Dialogs \ {d} : dlg'[c] = dlg[c]
    BY <1>18 DEF TypeOK, Serve, At, Goto, Result, Returns, Continues, Ops, maps
  <2>2. Waiting(d) <=> Waiting(d)'
    BY <1>18 DEF TypeOK, Waiting, Serve, At, Goto, Result, Returns, Continues, Ops
  <2> QED BY <2>1, <2>2 DEF TransactionsAccounted, Waiting
<1>19. ASSUME NEW d \in Dialogs, SendBye(d)
      PROVE  TransactionsAccounted'
  <2>1. on' = on /\ on[d] \in Conns /\ \A c \in Dialogs \ {d} : dlg'[c] = dlg[c]
    BY <1>19 DEF TypeOK, OnSound, SendBye, At, Goto, OpenTransaction
  <2>2. CASE Waiting(d)'
    <3>1. txns' = [txns EXCEPT ![on[d]] = @ \union {d}]
      BY <1>19, <2>2 DEF TypeOK, SendBye, OpenTransaction, Goto, Waiting
    <3> QED BY <2>1, <2>2, <3>1 DEF TypeOK, TransactionsAccounted, Waiting
  <2>3. CASE ~Waiting(d)'
    <3>1. txns' = txns /\ ~Waiting(d)
      BY <1>19, <2>3 DEF TypeOK, SendBye, OpenTransaction, At, Goto, Waiting, maps
    <3> QED BY <2>1, <2>3, <3>1 DEF TransactionsAccounted, Waiting
  <2> QED BY <2>2, <2>3
<1>20. ASSUME NEW d \in Dialogs, ByeAnswered(d)
      PROVE  TransactionsAccounted'
  <2>1. txns' = txns /\ on' = on /\ \A c \in Dialogs \ {d} : dlg'[c] = dlg[c]
    BY <1>20 DEF TypeOK, ByeAnswered, At, Goto, Receive, maps
  <2>2. Waiting(d) <=> Waiting(d)'
    BY <1>20 DEF TypeOK, Waiting, ByeAnswered, At, Goto, Receive
  <2> QED BY <2>1, <2>2 DEF TransactionsAccounted, Waiting
<1>21. ASSUME NEW d \in Dialogs, ByeDone(d)
      PROVE  TransactionsAccounted'
  <2>1. on' = on /\ on[d] \in Conns /\ \A c \in Dialogs \ {d} : dlg'[c] = dlg[c]
    BY <1>21 DEF TypeOK, OnSound, ByeDone, At, Goto, CloseTransaction
  <2>2. ~Waiting(d)'
    BY <1>21 DEF TypeOK, Waiting, ByeDone, At, Goto, CloseTransaction
  <2>3. /\ txns'[on[d]] = txns[on[d]] \ {d}
        /\ \A k \in Conns \ {on[d]} : txns'[k] = txns[k]
    BY <1>21, <2>1 DEF TypeOK, ByeDone, At, Goto, CloseTransaction
  <2> QED BY <2>1, <2>2, <2>3 DEF TransactionsAccounted, Waiting
<1>22. ASSUME NEW d \in Dialogs, DeleteLast(d)
      PROVE  TransactionsAccounted'
  <2>1. txns' = txns /\ on' = on /\ \A c \in Dialogs \ {d} : dlg'[c] = dlg[c]
    BY <1>22 DEF TypeOK, DeleteLast, At, Goto, Store, maps
  <2>2. Waiting(d) <=> Waiting(d)'
    BY <1>22 DEF TypeOK, Waiting, DeleteLast, At, Goto, Store
  <2> QED BY <2>1, <2>2 DEF TransactionsAccounted, Waiting
<1>23. ASSUME NEW d \in Dialogs, DeleteID(d)
      PROVE  TransactionsAccounted'
  <2>1. txns' = txns /\ on' = on /\ \A c \in Dialogs \ {d} : dlg'[c] = dlg[c]
    BY <1>23 DEF TypeOK, DeleteID, At, Goto, Store, maps
  <2>2. Waiting(d) <=> Waiting(d)'
    BY <1>23 DEF TypeOK, Waiting, DeleteID, At, Goto, Store
  <2> QED BY <2>1, <2>2 DEF TransactionsAccounted, Waiting
<1>24. ASSUME NEW d \in Dialogs, CallerHangsUp(d)
      PROVE  TransactionsAccounted'
  BY <1>24 DEF TransactionsAccounted, Waiting, CallerHangsUp, maps
<1>25. CASE UNCHANGED vars
  BY <1>25 DEF TransactionsAccounted, Waiting, vars, agent, maps, dialog
<1> QED BY <1>1, <1>2, <1>3, <1>4, <1>5, <1>6, <1>7, <1>8, <1>9, <1>10, <1>11, <1>12,
   <1>13, <1>14, <1>15, <1>16, <1>17, <1>18, <1>19, <1>20, <1>21, <1>22, <1>23, <1>24,
   <1>25 DEF Next, Reader, Agent, Dialog

\* A call that has ended stays so (src/flow_rpc.go:513-534).
LEMMA ByeStep ==
  ASSUME TypeOK, ByeOnlyWhenEnded, [Next]_vars
  PROVE  ByeOnlyWhenEnded'
<1>1. ASSUME NEW k \in Conns, Connect(k)
      PROVE  ByeOnlyWhenEnded'
  BY <1>1 DEF ByeOnlyWhenEnded, Connect, dialog
<1>2. ASSUME NEW k \in Conns, ConnectionLost(k)
      PROVE  ByeOnlyWhenEnded'
  BY <1>2 DEF ByeOnlyWhenEnded, ConnectionLost, dialog
<1>3. ASSUME NEW k \in Conns, ReadFails(k)
      PROVE  ByeOnlyWhenEnded'
  BY <1>3 DEF ByeOnlyWhenEnded, ReadFails, dialog
<1>4. ASSUME NEW k \in Conns, ReadResponse(k)
      PROVE  ByeOnlyWhenEnded'
  BY <1>4 DEF ByeOnlyWhenEnded, ReadResponse, dialog
<1>5. ASSUME NEW k \in Conns, Deliver(k)
      PROVE  ByeOnlyWhenEnded'
  BY <1>5 DEF ByeOnlyWhenEnded, Deliver, dialog
<1>6. ASSUME NEW k \in Conns, ReadRequest(k)
      PROVE  ByeOnlyWhenEnded'
  BY <1>6 DEF ByeOnlyWhenEnded, ReadRequest, dialog
<1>7. ASSUME NEW k \in Conns, SendRequest(k)
      PROVE  ByeOnlyWhenEnded'
  BY <1>7 DEF ByeOnlyWhenEnded, SendRequest, dialog
<1>8. ASSUME NEW k \in Conns, SendTimeout(k)
      PROVE  ByeOnlyWhenEnded'
  BY <1>8 DEF ByeOnlyWhenEnded, SendTimeout, dialog
<1>9. ASSUME NEW k \in Conns, LeavePool(k)
      PROVE  ByeOnlyWhenEnded'
  BY <1>9 DEF ByeOnlyWhenEnded, LeavePool, dialog
<1>10. ASSUME NEW k \in Conns, CloseConn(k)
      PROVE  ByeOnlyWhenEnded'
  BY <1>10 DEF ByeOnlyWhenEnded, CloseConn, dialog
<1>11. ASSUME NEW d \in Dialogs, Begin(d)
      PROVE  ByeOnlyWhenEnded'
  BY <1>11 DEF TypeOK, ByeOnlyWhenEnded, Begin, At, Goto, vars, agent, maps, dialog
<1>12. ASSUME NEW d \in Dialogs, StoreID(d)
      PROVE  ByeOnlyWhenEnded'
  BY <1>12 DEF TypeOK, ByeOnlyWhenEnded, StoreID, At, Goto, Store, vars, agent, maps,
     dialog
<1>13. ASSUME NEW d \in Dialogs, StoreLast(d)
      PROVE  ByeOnlyWhenEnded'
  BY <1>13 DEF TypeOK, ByeOnlyWhenEnded, StoreLast, At, Goto, Store, vars, agent, maps,
     dialog
<1>14. ASSUME NEW d \in Dialogs, Invite(d)
      PROVE  ByeOnlyWhenEnded'
  BY <1>14 DEF TypeOK, ByeOnlyWhenEnded, Invite, At, Goto, OpenTransaction, vars, agent,
     maps, dialog
<1>15. ASSUME NEW d \in Dialogs, InviteAnswered(d)
      PROVE  ByeOnlyWhenEnded'
  BY <1>15 DEF TypeOK, ByeOnlyWhenEnded, InviteAnswered, At, Goto, Receive, vars, agent,
     maps, dialog
<1>16. ASSUME NEW d \in Dialogs, InviteDone(d)
      PROVE  ByeOnlyWhenEnded'
  BY <1>16 DEF TypeOK, ByeOnlyWhenEnded, InviteDone, At, Goto, CloseTransaction, vars,
     agent, maps, dialog
<1>17. ASSUME NEW d \in Dialogs, CallerGone(d)
      PROVE  ByeOnlyWhenEnded'
  BY <1>17 DEF TypeOK, ByeOnlyWhenEnded, CallerGone, At, Goto, vars, agent, maps, dialog
<1>18. ASSUME NEW d \in Dialogs, Serve(d)
      PROVE  ByeOnlyWhenEnded'
  <2>1. PICK op \in Ops : Result(d, op)
    BY <1>18 DEF Serve
  <2>2. call[d] = "ended" => call' = call \/ call' = [call EXCEPT ![d] = "ended"]
    BY <2>1 DEF Result, Continues
  <2>3. \A c \in Dialogs : call[c] = "ended" => call'[c] = "ended"
    <3>1. call' \in {call, [call EXCEPT ![d] = "answered"], [call EXCEPT ![d] = "ended"]}
      BY <2>1 DEF Result, Continues
    <3> QED BY <2>2, <3>1 DEF TypeOK
  <2>4. byes' = byes
    BY <1>18 DEF Serve
  <2> QED BY <2>3, <2>4 DEF TypeOK, ByeOnlyWhenEnded
<1>19. ASSUME NEW d \in Dialogs, SendBye(d)
      PROVE  ByeOnlyWhenEnded'
  BY <1>19 DEF TypeOK, ByeOnlyWhenEnded, SendBye, At, Goto, OpenTransaction, vars,
     agent, maps, dialog
<1>20. ASSUME NEW d \in Dialogs, ByeAnswered(d)
      PROVE  ByeOnlyWhenEnded'
  BY <1>20 DEF TypeOK, ByeOnlyWhenEnded, ByeAnswered, At, Goto, Receive, vars, agent,
     maps, dialog
<1>21. ASSUME NEW d \in Dialogs, ByeDone(d)
      PROVE  ByeOnlyWhenEnded'
  BY <1>21 DEF TypeOK, ByeOnlyWhenEnded, ByeDone, At, Goto, CloseTransaction, vars,
     agent, maps, dialog
<1>22. ASSUME NEW d \in Dialogs, DeleteLast(d)
      PROVE  ByeOnlyWhenEnded'
  BY <1>22 DEF TypeOK, ByeOnlyWhenEnded, DeleteLast, At, Goto, Store, vars, agent, maps,
     dialog
<1>23. ASSUME NEW d \in Dialogs, DeleteID(d)
      PROVE  ByeOnlyWhenEnded'
  BY <1>23 DEF TypeOK, ByeOnlyWhenEnded, DeleteID, At, Goto, Store, vars, agent, maps,
     dialog
<1>24. ASSUME NEW d \in Dialogs, CallerHangsUp(d)
      PROVE  ByeOnlyWhenEnded'
  BY <1>24 DEF TypeOK, ByeOnlyWhenEnded, CallerHangsUp
<1>25. CASE UNCHANGED vars
  BY <1>25 DEF TypeOK, ByeOnlyWhenEnded, vars, agent, maps, dialog
<1> QED BY <1>1, <1>2, <1>3, <1>4, <1>5, <1>6, <1>7, <1>8, <1>9, <1>10, <1>11, <1>12,
   <1>13, <1>14, <1>15, <1>16, <1>17, <1>18, <1>19, <1>20, <1>21, <1>22, <1>23, <1>24,
   <1>25 DEF Next, Reader, Agent, Dialog

----------------------------------------------------------------------------
(* Theorems                                                                 *)

\* Readers, agents, callers and dialogs keep the invariant however they
\* interleave (src/flow_rpc.go:165-539).
THEOREM Invariance == Spec => []IInv
<1>1. Init => IInv
  <2> SUFFICES ASSUME Init PROVE IInv
    OBVIOUS
  <2>1. [at |-> "off"] \in ReaderStates
    BY DEF ReaderStates
  <2>2. TypeOK
    BY <2>1, BoundsAssumption DEF Init, TypeOK, Labels
  <2>3. PoolAccounted
    BY BoundsAssumption DEF Init, PoolAccounted, Pooled, Serving
  <2>4. OnSound /\ ByeOnlyWhenEnded
    BY DEF Init, OnSound, ByeOnlyWhenEnded
  <2>5. Reachable /\ TransactionsAccounted
    BY SetsAssumption DEF Init, Reachable, Registered, TransactionsAccounted, Waiting
  <2> QED BY <2>2, <2>3, <2>4, <2>5 DEF IInv
<1>2. IInv /\ [Next]_vars => IInv'
  BY TypeStep, OnStep, PoolStep, ReachableStep, TransactionsStep, ByeStep DEF IInv
<1> QED BY <1>1, <1>2, PTL DEF Spec

\* Connections and dialogs keep their types, queues their capacity
\* (src/flow_rpc.go:165-539).
THEOREM TypeCorrect == Spec => []TypeOK
<1>1. IInv => TypeOK
  BY DEF IInv
<1> QED BY <1>1, Invariance, PTL

\* The pool has every connection whose goroutine has not begun to leave, once,
\* and its slice all its places, whatever the order connections come and go in
\* (src/flow_rpc.go:76-86, 165-200).
THEOREM PoolCorrect == Spec => []PoolAccounted
<1>1. IInv => PoolAccounted
  BY DEF IInv
<1> QED BY <1>1, Invariance, PTL

\* A dialog's ID leads to it from before its invitation until its last defer, and
\* the alias to no dialog that has taken its entry back
\* (src/flow_rpc.go:395-402, 499).
THEOREM ReachableCorrect == Spec => []Reachable
<1>1. IInv => Reachable
  BY DEF IInv
<1> QED BY <1>1, Invariance, PTL

\* No transaction outlives the wait of its dialog (src/flow_rpc.go:404-455).
THEOREM TransactionsCorrect == Spec => []TransactionsAccounted
<1>1. IInv => TransactionsAccounted
  BY DEF IInv
<1> QED BY <1>1, Invariance, PTL

\* The agent hears bye only of a call that has ended (src/flow_rpc.go:513-534).
THEOREM ByeCorrect == Spec => []ByeOnlyWhenEnded
<1>1. IInv => ByeOnlyWhenEnded
  BY DEF IInv
<1> QED BY <1>1, Invariance, PTL
----------------------------------------------------------------------------
(* FlowRPC implements AgentService                                          *)

\* Bye is said by the first defer only (src/flow_rpc.go:513-534).
ByeInOrder ==
  \A d \in Dialogs :
    /\ d \in byes => dlg[d] \in {"byewait", "byedone", "deletelast", "deleteid", "over"}
    /\ dlg[d] \in {"byewait", "byedone"} => d \in byes

\* A step of another goroutine leaves a dialog where it is, a step of its own
\* leads it on (src/flow_rpc.go:373-700).
LEMMA ByeInOrderStep ==
  ASSUME TypeOK, ByeInOrder, [Next]_vars
  PROVE  ByeInOrder'
<1>0. dlg \in [Dialogs -> Labels] /\ byes \subseteq Dialogs
  BY DEF TypeOK
<1> USE <1>0 DEF ByeInOrder, Labels
<1>1. ASSUME NEW k \in Conns, Reader(k) \/ Agent(k)
      PROVE  ByeInOrder'
  <2>1. dlg' = dlg /\ byes' = byes
    BY <1>1 DEF Reader, Agent, Connect, ConnectionLost, ReadFails, ReadResponse, Deliver,
       ReadRequest, SendRequest, SendTimeout, LeavePool, CloseConn, dialog
  <2> QED BY <2>1
<1>2. ASSUME NEW d \in Dialogs, Begin(d) \/ StoreID(d) \/ StoreLast(d)
      PROVE  ByeInOrder'
  BY <1>2 DEF Begin, StoreID, StoreLast, At, Goto
<1>3. ASSUME NEW d \in Dialogs, Invite(d) \/ InviteAnswered(d) \/ InviteDone(d)
      PROVE  ByeInOrder'
  <2>1. CASE Invite(d)
    BY <2>1 DEF Invite, OpenTransaction, At, Goto
  <2>2. CASE InviteAnswered(d)
    <3>1. PICK label \in {"invited", "refused"} : dlg' = [dlg EXCEPT ![d] = label]
      BY <2>2 DEF InviteAnswered, Goto
    <3>2. dlg[d] = "invitewait" /\ byes' = byes
      BY <2>2 DEF InviteAnswered, At
    <3> QED BY <3>1, <3>2
  <2>3. CASE InviteDone(d)
    <3>1. PICK label \in {"loop", "deletelast"} : dlg' = [dlg EXCEPT ![d] = label]
      BY <2>3 DEF InviteDone, Goto
    <3>2. dlg[d] \in {"invited", "refused"} /\ byes' = byes
      BY <2>3 DEF InviteDone, At
    <3> QED BY <3>1, <3>2
  <2> QED BY <1>3, <2>1, <2>2, <2>3
<1>4. ASSUME NEW d \in Dialogs, CallerGone(d)
      PROVE  ByeInOrder'
  BY <1>4 DEF CallerGone, At, Goto
<1>5. ASSUME NEW d \in Dialogs, Serve(d)
      PROVE  ByeInOrder'
  <2>1. PICK op \in Ops : Result(d, op)
    BY <1>5 DEF Serve
  <2>2. dlg' = dlg \/ dlg' = [dlg EXCEPT ![d] = "bye"]
    BY <2>1 DEF Result, Continues, Returns, Goto
  <2> QED BY <1>5, <2>2 DEF Serve, At
<1>6. ASSUME NEW d \in Dialogs, SendBye(d)
      PROVE  ByeInOrder'
  BY <1>6 DEF SendBye, OpenTransaction, At, Goto
<1>7. ASSUME NEW d \in Dialogs, ByeAnswered(d) \/ ByeDone(d)
      PROVE  ByeInOrder'
  BY <1>7 DEF ByeAnswered, ByeDone, CloseTransaction, At, Goto
<1>8. ASSUME NEW d \in Dialogs, DeleteLast(d) \/ DeleteID(d)
      PROVE  ByeInOrder'
  BY <1>8 DEF DeleteLast, DeleteID, At, Goto
<1>9. ASSUME NEW d \in Dialogs, CallerHangsUp(d)
      PROVE  ByeInOrder'
  BY <1>9 DEF CallerHangsUp
<1>10. CASE UNCHANGED vars
  BY <1>10 DEF vars, dialog
<1> QED BY <1>1, <1>2, <1>3, <1>4, <1>5, <1>6, <1>7, <1>8, <1>9, <1>10 DEF Next, Dialog

\* Where each label is in the service (src/flow_rpc.go:373-700).
LEMMA StageValues ==
  /\ \A label \in {"idle", "storeid", "storelast", "invite", "invitewait", "refused"} :
       StageOf(label) = "offered"
  /\ \A label \in {"invited", "loop"} : StageOf(label) = "taken"
  /\ \A label \in {"bye", "byewait", "byedone"} : StageOf(label) = "returned"
  /\ \A label \in {"deletelast", "deleteid", "over"} : StageOf(label) = "over"
  BY DEF StageOf

\* A dialog that goes to another label changes its own stage only
\* (src/flow_rpc.go:373-700).
LEMMA StageStep ==
  ASSUME TypeOK, NEW d \in Dialogs, NEW label, Goto(d, label)
  PROVE  /\ Stage' = [Stage EXCEPT ![d] = StageOf(label)]
         /\ Stage[d] = StageOf(dlg[d])
         /\ StageOf(label) = StageOf(dlg[d]) => Stage' = Stage
  BY DEF TypeOK, Goto, Stage

\* A request of the agent answers the caller, gives the call back or changes
\* nothing the service speaks of (src/flow_rpc.go:560-855).
LEMMA RequestServed ==
  ASSUME TypeOK, NEW d \in Dialogs, Serve(d)
  PROVE  [Service!Next]_Service!vars
<1>1. byes' = byes /\ At(d, "loop")
  BY DEF Serve
<1>2. PICK op \in Ops : Result(d, op)
  BY DEF Serve
<1>3. Stage[d] = "taken"
  BY <1>1, StageValues DEF Stage, At
<1>4. call \in [Dialogs -> {"ringing", "answered", "ended"}]
  BY DEF TypeOK
<1>5. CASE Continues(d)
  BY <1>1, <1>5 DEF Continues, Service!vars, Stage
<1>6. CASE /\ call[d] # "ended" /\ call' = [call EXCEPT ![d] = "answered"]
           /\ UNCHANGED <<dlg, outcome>>
  <2>1. Stage' = Stage
    BY <1>6 DEF Stage
  <2>2. CASE call[d] = "ringing"
    <3>1. Service!Answer(d)
      BY <1>1, <1>3, <1>6, <2>1, <2>2 DEF Service!Answer
    <3> QED BY <3>1 DEF Service!Next
  <2>3. CASE call[d] = "answered"
    <3>1. call' = call
      BY <1>4, <1>6, <2>3
    <3> QED BY <1>1, <1>6, <2>1, <3>1 DEF Service!vars
  <2> QED BY <1>4, <1>6, <2>2, <2>3
<1>7. ASSUME NEW r \in {"return", "redirect"}, Returns(d, r),
             \/ call' = call
             \/ r = "return" /\ call' = [call EXCEPT ![d] = "ended"]
      PROVE  [Service!Next]_Service!vars
  <2>1. Stage' = [Stage EXCEPT ![d] = "returned"]
    BY <1>7, StageStep, StageValues DEF Returns
  <2>2. Service!GiveBack(d)
    BY <1>1, <1>3, <1>7, <2>1 DEF Service!GiveBack, Returns
  <2> QED BY <2>2 DEF Service!Next
<1>8. \/ Continues(d)
      \/ /\ call[d] # "ended" /\ call' = [call EXCEPT ![d] = "answered"]
         /\ UNCHANGED <<dlg, outcome>>
      \/ \E r \in {"return", "redirect"} :
           /\ Returns(d, r)
           /\ \/ call' = call
              \/ r = "return" /\ call' = [call EXCEPT ![d] = "ended"]
  BY <1>2 DEF Result
<1> QED BY <1>5, <1>6, <1>7, <1>8

\* Each step is a step of the service or changes nothing it speaks of
\* (src/flow_rpc.go:165-539).
LEMMA ServiceStep ==
  ASSUME TypeOK, ByeOnlyWhenEnded, ByeInOrder, [Next]_vars
  PROVE  [Service!Next]_Service!vars
<1> USE StageValues DEF At
<1>1. ASSUME NEW k \in Conns, Reader(k) \/ Agent(k)
      PROVE  UNCHANGED Service!vars
  <2>1. UNCHANGED dialog
    BY <1>1 DEF Reader, Agent, Connect, ConnectionLost, ReadFails, ReadResponse, Deliver,
       ReadRequest, SendRequest, SendTimeout, LeavePool, CloseConn
  <2> QED BY <2>1 DEF dialog, Service!vars, Stage
<1>2. ASSUME NEW d \in Dialogs, Begin(d)
      PROVE  [Service!Next]_Service!vars
  <2>1. CASE pool.conns = <<>>
    <3>0. Pooled = {}
      BY <2>1 DEF Pooled
    <3>1. /\ Goto(d, "over") /\ outcome' = [outcome EXCEPT ![d] = "return"]
      BY <1>2, <3>0 DEF Begin
    <3>2. Stage[d] = "offered" /\ Stage' = [Stage EXCEPT ![d] = "over"]
      BY <1>2, <3>1, StageStep DEF Begin
    <3>3. Service!Decline(d)
      BY <1>2, <3>1, <3>2 DEF Begin, Service!Decline
    <3> QED BY <3>3 DEF Service!Next
  <2>2. CASE pool.conns # <<>>
    <3>1. Goto(d, "storeid") /\ UNCHANGED <<call, outcome, byes>>
      BY <1>2, <2>2 DEF Begin
    <3>2. Stage' = Stage
      BY <1>2, <3>1, StageStep DEF Begin
    <3> QED BY <3>1, <3>2 DEF Service!vars
  <2> QED BY <2>1, <2>2
<1>3. ASSUME NEW d \in Dialogs, StoreID(d) \/ StoreLast(d)
      PROVE  UNCHANGED Service!vars
  <2>1. Stage' = Stage
    BY <1>3, StageStep DEF StoreID, StoreLast
  <2> QED BY <1>3, <2>1 DEF StoreID, StoreLast, Service!vars
<1>4. ASSUME NEW d \in Dialogs, Invite(d)
      PROVE  UNCHANGED Service!vars
  <2>1. Stage' = Stage
    BY <1>4, StageStep DEF Invite, OpenTransaction
  <2> QED BY <1>4, <2>1 DEF Invite, Service!vars
<1>5. ASSUME NEW d \in Dialogs, InviteAnswered(d)
      PROVE  [Service!Next]_Service!vars
  <2>1. UNCHANGED <<call, outcome, byes>>
    BY <1>5 DEF InviteAnswered
  <2>2. CASE Goto(d, "invited")
    <3>1. Stage[d] = "offered" /\ Stage' = [Stage EXCEPT ![d] = "taken"]
      BY <1>5, <2>2, StageStep DEF InviteAnswered
    <3>2. Service!Take(d)
      BY <2>1, <3>1 DEF Service!Take
    <3> QED BY <3>2 DEF Service!Next
  <2>3. CASE Goto(d, "refused")
    <3>1. Stage' = Stage
      BY <1>5, <2>3, StageStep DEF InviteAnswered
    <3> QED BY <2>1, <3>1 DEF Service!vars
  <2> QED BY <1>5, <2>2, <2>3 DEF InviteAnswered
<1>6. ASSUME NEW d \in Dialogs, InviteDone(d)
      PROVE  [Service!Next]_Service!vars
  <2>1. UNCHANGED <<call, byes>>
    BY <1>6 DEF InviteDone
  <2>2. CASE At(d, "invited") /\ Goto(d, "loop") /\ UNCHANGED outcome
    <3>1. Stage' = Stage
      BY <2>2, StageStep
    <3> QED BY <2>1, <2>2, <3>1 DEF Service!vars
  <2>3. CASE /\ At(d, "refused") /\ Goto(d, "deletelast")
             /\ outcome' = [outcome EXCEPT ![d] = "return"]
    <3>1. Stage[d] = "offered" /\ Stage' = [Stage EXCEPT ![d] = "over"]
      BY <2>3, StageStep
    <3>2. Service!Decline(d)
      BY <2>1, <2>3, <3>1 DEF Service!Decline
    <3> QED BY <3>2 DEF Service!Next
  <2> QED BY <1>6, <2>2, <2>3 DEF InviteDone
<1>7. ASSUME NEW d \in Dialogs, CallerGone(d)
      PROVE  [Service!Next]_Service!vars
  <2>1. Stage[d] = "taken" /\ Stage' = [Stage EXCEPT ![d] = "returned"]
    BY <1>7, StageStep DEF CallerGone
  <2>2. Service!GiveBack(d)
    BY <1>7, <2>1 DEF CallerGone, Service!GiveBack
  <2> QED BY <2>2 DEF Service!Next
<1>8. ASSUME NEW d \in Dialogs, SendBye(d)
      PROVE  [Service!Next]_Service!vars
  <2>1. UNCHANGED <<call, outcome>> /\ d \notin byes
    BY <1>8 DEF SendBye, ByeInOrder
  <2>2. CASE call[d] = "ended"
    <3>1. Stage' = Stage /\ Stage[d] = "returned"
      BY <1>8, <2>2, StageStep DEF SendBye, OpenTransaction
    <3>2. Service!Tell(d)
      BY <1>8, <2>1, <2>2, <3>1 DEF SendBye, Service!Tell
    <3> QED BY <3>2 DEF Service!Next
  <2>3. CASE call[d] # "ended"
    <3>1. Stage[d] = "returned" /\ Stage' = [Stage EXCEPT ![d] = "over"]
      BY <1>8, <2>3, StageStep DEF SendBye
    <3>2. Service!Leave(d)
      BY <1>8, <2>1, <2>3, <3>1 DEF SendBye, Service!Leave
    <3> QED BY <3>2 DEF Service!Next
  <2> QED BY <2>2, <2>3
<1>9. ASSUME NEW d \in Dialogs, ByeAnswered(d)
      PROVE  UNCHANGED Service!vars
  <2>1. Stage' = Stage
    BY <1>9, StageStep DEF ByeAnswered
  <2> QED BY <1>9, <2>1 DEF ByeAnswered, Service!vars
<1>10. ASSUME NEW d \in Dialogs, ByeDone(d)
       PROVE  [Service!Next]_Service!vars
  <2>1. Stage[d] = "returned" /\ Stage' = [Stage EXCEPT ![d] = "over"]
    BY <1>10, StageStep DEF ByeDone
  <2>2. d \in byes
    BY <1>10 DEF ByeDone, ByeInOrder
  <2>3. Service!Leave(d)
    BY <1>10, <2>1, <2>2 DEF ByeDone, Service!Leave
  <2> QED BY <2>3 DEF Service!Next
<1>11. ASSUME NEW d \in Dialogs, DeleteLast(d) \/ DeleteID(d)
       PROVE  UNCHANGED Service!vars
  <2>1. Stage' = Stage
    BY <1>11, StageStep DEF DeleteLast, DeleteID
  <2> QED BY <1>11, <2>1 DEF DeleteLast, DeleteID, Service!vars
<1>12. ASSUME NEW d \in Dialogs, CallerHangsUp(d)
       PROVE  [Service!Next]_Service!vars
  <2>1. Stage' = Stage
    BY <1>12 DEF CallerHangsUp, Stage
  <2>2. Service!HangUp(d)
    BY <1>12, <2>1 DEF CallerHangsUp, Service!HangUp
  <2> QED BY <2>2 DEF Service!Next
<1>13. CASE UNCHANGED vars
  BY <1>13 DEF vars, dialog, Service!vars, Stage
<1> QED BY <1>1, <1>2, <1>3, <1>4, <1>5, <1>6, <1>7, <1>8, <1>9, <1>10, <1>11, <1>12,
   <1>13, RequestServed DEF Next, Dialog

\* An agent who took a call hears of its end exactly once and touches the line no
\* more after giving it back, however agents, callers and connections behave
\* (src/flow_rpc.go:373-700).
THEOREM ServiceCorrect == Spec => ServiceSpec
<1>1. Init => ByeInOrder
  BY DEF Init, ByeInOrder
<1>2. IInv /\ ByeInOrder /\ [Next]_vars => ByeInOrder'
  BY ByeInOrderStep DEF IInv
<1>3. Init => Service!Init
  BY StageValues DEF Init, Service!Init, Stage
<1>4. IInv /\ ByeInOrder /\ [Next]_vars => [Service!Next]_Service!vars
  BY ServiceStep DEF IInv
<1> QED BY <1>1, <1>2, <1>3, <1>4, Invariance, PTL DEF Spec, ServiceSpec, Service!Spec
=============================================================================
