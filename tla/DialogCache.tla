---------------------------- MODULE DialogCache ----------------------------
(***************************************************************************)
(* Dialogs that outlive their node: the cache of answered dialogs in a     *)
(* file (src/dialog_cache_file.go), its upkeep by the callbacks of the     *)
(* dialogs, their takeover by another node, and the end of Serve           *)
(* (src/pbx.go).                                                           *)
(*                                                                         *)
(* A node is a process that crashes, is shut down and starts again; its    *)
(* file stays.  One step is an access to the state of a dialog, a call     *)
(* into diago, or one of the two halves of dumpDialogs: between them the   *)
(* file is empty and the mutex held.                                       *)
(*                                                                         *)
(* A program that embeds diagox gives it the cache (ApplyProviders) and    *)
(* calls LoadDialogs and ReInviteDialogs: here a node does for another     *)
(* that is down.                                                           *)
(***************************************************************************)
EXTENDS Naturals, FiniteSets

CONSTANTS Nodes,
          Incoming,    \* calls that came in at their first node
          Outgoing,    \* calls made by their first node
          Nobody,      \* no node
          Torn,        \* a file that holds no JSON: truncated and not written
          MaxMoves,    \* bound: how often a call gets another ID
          MaxDowns     \* bound: crashes and shutdowns of a run

ASSUME SetsAssumption == /\ IsFiniteSet(Nodes)
                         /\ IsFiniteSet(Incoming \union Outgoing)
                         /\ Incoming \intersect Outgoing = {}
                         /\ Nobody \notin Nodes
ASSUME TornAssumption == \A ids \in SUBSET ((Incoming \union Outgoing) \X (0..MaxMoves)) :
                            Torn # ids
ASSUME BoundsAssumption == MaxMoves \in Nat \ {0} /\ MaxDowns \in Nat

\* DialogData.ID: the Call-ID with the tags of both parties.
Calls == Incoming \union Outgoing
IDs == Calls \X (0..MaxMoves)

VARIABLES
  node,    \* [Nodes -> serving, hanging up clients or servers, or down]
  dialogs, \* [Nodes -> DialogCacheFile.dialogs, the map]
  file,    \* [Nodes -> what dialogs_<node>.json holds]
  mu,      \* [Nodes -> the operation that holds DialogCacheFile.mu]
  st,      \* [IDs -> the state of the dialog at its parties]
  home,    \* [IDs -> the node that serves the dialog]
  reg,     \* [IDs -> how far registerOnStateDialog is]
  due,     \* [IDs -> operations of callbacks that wait for the mutex]
  taker,   \* [Nodes -> ReInviteDialogs: where it is and what it has left]
  range,   \* [Nodes -> the dialogs a DialogRange has yet to visit]
  unheard, \* dialogs whose Hangup failed
  newcomers, \* history: dialogs that began after their node's first DialogRange had
  late,    \* history: dialogs stored although they had ended
  dropped, \* history: dialogs that the takeover which made them deleted
  unwritten, \* history: nodes whose last write of their file failed
  emptied, \* history: nodes whose file a takeover emptied after they began to serve
  downs    \* crashes and shutdowns so far

cacheVars == <<dialogs, file, mu, unwritten, emptied>>
dialogVars == <<st, home, reg>>
hangupVars == <<range, unheard, newcomers>>
pastVars == <<late, dropped>>
vars == <<node, cacheVars, dialogVars, due, taker, hangupVars, pastVars, downs>>

Free == [op |-> "none"]
Loading == [op |-> "load"]
Held == {Free, Loading} \union [op : {"store", "delete", "forget"}, id : IDs]

Idle == [at |-> "idle", left |-> {}]
Takers == {Idle} \union [at : {"truncate", "next"}, from : Nodes, left : SUBSET IDs]
            \union [at : {"register", "forgetting"}, from : Nodes,
                    left : SUBSET IDs, id : IDs, new : IDs]

\* The mutex of a node is held for a dumpDialogs that has truncated the file.
Writing(n) == mu[n] \notin {Free, Loading}

Up(n) == node[n] # "down"
On(n) == {id \in IDs : home[id] = n /\ st[id] \in {"early", "confirmed"}}
Clients(n) == {id \in On(n) : id[1] \in Outgoing \/ id[2] > 0}

\* What json.Decode makes of a file: EOF of one that holds nothing.
Decoded(f) == IF f = Torn THEN {} ELSE f

\* The state is of these sets.
TypeOK == /\ node \in [Nodes -> {"up", "clients", "servers", "down"}]
          /\ dialogs \in [Nodes -> SUBSET IDs]
          /\ file \in [Nodes -> (SUBSET IDs) \union {Torn}]
          /\ mu \in [Nodes -> Held]
          /\ st \in [IDs -> {"none", "early", "confirmed", "ended", "orphan", "moved"}]
          /\ home \in [IDs -> Nodes \union {Nobody}]
          /\ reg \in [IDs -> {"no", "load", "yes"}]
          /\ due \in [IDs -> SUBSET {"store", "delete"}]
          /\ taker \in [Nodes -> Takers]
          /\ range \in [Nodes -> SUBSET IDs]
          /\ unheard \subseteq IDs
          /\ newcomers \subseteq IDs
          /\ late \subseteq IDs /\ dropped \subseteq IDs
          /\ unwritten \subseteq Nodes /\ emptied \subseteq Nodes
          /\ downs \in 0..MaxDowns

\* DialogCacheFile.Init of each node.
Init == /\ node = [n \in Nodes |-> "up"]
        /\ dialogs = [n \in Nodes |-> {}]
        /\ file = [n \in Nodes |-> Torn]
        /\ mu = [n \in Nodes |-> Free]
        /\ st = [id \in IDs |-> "none"]
        /\ home = [id \in IDs |-> Nobody]
        /\ reg = [id \in IDs |-> "no"]
        /\ due = [id \in IDs |-> {}]
        /\ taker = [n \in Nodes |-> Idle]
        /\ range = [n \in Nodes |-> {}]
        /\ unheard = {}
        /\ newcomers = {}
        /\ late = {} /\ dropped = {}
        /\ unwritten = {} /\ emptied = {}
        /\ downs = 0

----------------------------------------------------------------------------
(* The dialogs                                                              *)

\* handler begins.  It may return before it registers the dialog.
IncomingCall(n, c) ==
  /\ node[n] = "up"
  /\ st[<<c, 0>>] = "none"
  /\ st' = [st EXCEPT ![<<c, 0>>] = "early"]
  /\ home' = [home EXCEPT ![<<c, 0>>] = n]
  /\ UNCHANGED <<node, cacheVars, reg, due, taker, hangupVars, pastVars, downs>>

\* A dialog made during a shutdown is one that a DialogRange which is under way
\* visits or does not.
Appears(n, id) ==
  /\ \/ UNCHANGED range
     \/ node[n] = "clients" /\ range' = [range EXCEPT ![n] = @ \union {id}]
  /\ newcomers' = IF node[n] = "up" THEN newcomers \ {id} ELSE newcomers \union {id}
  /\ UNCHANGED unheard

\* An outgoing dialog is answered.  pbx.invite goes on to register it,
\* bridgeAnswer never does.  Handlers dial during a shutdown too: nobody waits
\* for them.
OutgoingCall(n, c) ==
  /\ Up(n)
  /\ st[<<c, 0>>] = "none"
  /\ st' = [st EXCEPT ![<<c, 0>>] = "confirmed"]
  /\ home' = [home EXCEPT ![<<c, 0>>] = n]
  /\ Appears(n, <<c, 0>>)
  /\ UNCHANGED <<node, cacheVars, reg, due, taker, pastVars, downs>>

\* handleStateChange: called by diago when the state changes, if registered.
Notified(id, op) == due' = [due EXCEPT ![id] = IF reg[id] = "no" THEN @
                                               ELSE @ \union {op}]

\* The caller's ACK.  The goroutine that registers an incoming dialog answers it
\* afterwards, and pbx.invite registers an outgoing one that is answered: no answer
\* comes between OnState and LoadState, but an end may.
Confirm(id) ==
  /\ st[id] = "early" /\ reg[id] = "yes"
  /\ st' = [st EXCEPT ![id] = "confirmed"]
  /\ Notified(id, "store")
  /\ UNCHANGED <<node, cacheVars, home, reg, taker, hangupVars, pastVars, downs>>

\* Mutant: a dialog is closed without a change of its state.
Ends_Silent(id) == /\ st' = [st EXCEPT ![id] = "ended"]
                   /\ UNCHANGED due

\* A BYE or CANCEL of the other party, or a hang up by the dialog's goroutine.
Ends(id) == /\ st' = [st EXCEPT ![id] = "ended"]
            /\ Notified(id, "delete")

End(id) ==
  /\ st[id] \in {"early", "confirmed"}
  /\ Ends(id)
  /\ UNCHANGED <<node, cacheVars, home, reg, taker, hangupVars, pastVars, downs>>

\* The party of a dialog whose node is gone gives up.
OrphanEnds(id) ==
  /\ st[id] = "orphan"
  /\ st' = [st EXCEPT ![id] = "ended"]
  /\ UNCHANGED <<node, cacheVars, home, reg, due, taker, hangupVars, pastVars, downs>>

\* dialogSip.OnState(handleStateChange).
OnState(id) ==
  /\ home[id] # Nobody
  /\ reg[id] = "no"
  /\ reg' = [reg EXCEPT ![id] = "load"]
  /\ UNCHANGED <<node, cacheVars, st, home, due, taker, hangupVars, pastVars, downs>>

\* Mutant: a dialog that is answered already is left to the callback.
LoadState_OnlyDeletes(id) ==
  /\ reg[id] = "load"
  /\ reg' = [reg EXCEPT ![id] = "yes"]
  /\ due' = [due EXCEPT ![id] = @ \union
               (IF st[id] = "ended" THEN {"delete"} ELSE {})]
  /\ UNCHANGED <<node, cacheVars, st, home, taker, hangupVars, pastVars, downs>>

\* handleStateChange(dialogSip.LoadState()).
LoadState(id) ==
  /\ reg[id] = "load"
  /\ reg' = [reg EXCEPT ![id] = "yes"]
  /\ due' = [due EXCEPT ![id] = @ \union
               (CASE st[id] = "confirmed" -> {"store"}
                  [] st[id] = "ended" -> {"delete"}
                  [] OTHER -> {})]
  /\ UNCHANGED <<node, cacheVars, st, home, taker, hangupVars, pastVars, downs>>

----------------------------------------------------------------------------
(* The cache of a node                                                      *)

\* Mutant: DeleteDialog leaves the file as it is.
Alter_KeepsFile(n, op, id) ==
  /\ mu[n] = Free
  /\ LET new == IF op = "store" THEN dialogs[n] \union {id} ELSE dialogs[n] \ {id}
     IN  dialogs' = [dialogs EXCEPT ![n] = new]
  /\ IF op = "store"
     THEN /\ mu' = [mu EXCEPT ![n] = [op |-> op, id |-> id]]
          /\ file' = [file EXCEPT ![n] = Torn]
     ELSE UNCHANGED <<mu, file>>
  /\ UNCHANGED <<unwritten, emptied>>

\* StoreDialog, DeleteDialog or DeleteDialogNode, which ignores its nodeID, up to
\* the Truncate of dumpDialogs.  If that fails the file is what it was, and the
\* callers log or drop the error.
Alter(n, op, id) ==
  /\ mu[n] = Free
  /\ LET new == IF op = "store" THEN dialogs[n] \union {id} ELSE dialogs[n] \ {id}
     IN  dialogs' = [dialogs EXCEPT ![n] = new]
  /\ \/ /\ mu' = [mu EXCEPT ![n] = [op |-> op, id |-> id]]
        /\ file' = [file EXCEPT ![n] = Torn]
        /\ UNCHANGED unwritten
     \/ /\ unwritten' = unwritten \union {n}
        /\ UNCHANGED <<mu, file>>
  /\ UNCHANGED emptied

\* handleStateChange gets the mutex for one of the operations that wait for it.
Handle(id) ==
  /\ home[id] # Nobody
  /\ \E op \in due[id] :
       /\ Alter(home[id], op, id)
       /\ due' = [due EXCEPT ![id] = @ \ {op}]
       /\ late' = IF op = "store" /\ st[id] = "ended" THEN late \union {id} ELSE late
  /\ UNCHANGED <<node, dialogVars, taker, hangupVars, dropped, downs>>

\* ReInviteDialogs takes the next dialog of its list.
ToNext(t) == [at |-> "next", from |-> t.from, left |-> t.left]

\* Mutant: the slice is made with its length and appended to, so that as many
\* dialogs without an ID are written in front.
Dump_Appends(n) ==
  /\ Writing(n)
  /\ mu' = [mu EXCEPT ![n] = Free]
  /\ LET zero == {<<Nobody, 0>> : id \in dialogs[n]}
     IN  file' = [file EXCEPT ![n] = zero \union dialogs[n]]
  /\ unwritten' = unwritten \ {n}
  /\ emptied' = emptied \ {n}
  /\ taker' = [taker EXCEPT ![n] = IF mu[n].op = "forget" THEN ToNext(@) ELSE @]
  /\ UNCHANGED <<node, dialogs, dialogVars, due, hangupVars, pastVars, downs>>

\* The Seek and Encode of dumpDialogs, or their failure; the mutex is unlocked.
Dump(n) ==
  /\ Writing(n)
  /\ mu' = [mu EXCEPT ![n] = Free]
  /\ \/ /\ file' = [file EXCEPT ![n] = dialogs[n]]
        /\ unwritten' = unwritten \ {n}
        /\ emptied' = emptied \ {n}
     \/ /\ unwritten' = unwritten \union {n}
        /\ UNCHANGED <<file, emptied>>
  /\ taker' = [taker EXCEPT ![n] = IF mu[n].op = "forget" THEN ToNext(@) ELSE @]
  /\ UNCHANGED <<node, dialogs, dialogVars, due, hangupVars, pastVars, downs>>

----------------------------------------------------------------------------
(* Takeover                                                                 *)

\* Mutant: the Truncate is not deferred, and the file decoded when it is empty.
LoadDialogs_Empty(m, n) ==
  /\ node[m] = "up" /\ taker[m] = Idle /\ mu[m] = Free
  /\ ~Up(n)
  /\ mu' = [mu EXCEPT ![m] = Loading]
  /\ file' = [file EXCEPT ![n] = Torn]
  /\ taker' = [taker EXCEPT ![m] = [at |-> "truncate", from |-> n, left |-> {}]]
  /\ UNCHANGED <<node, dialogs, unwritten, emptied, dialogVars, due, hangupVars, pastVars, downs>>

\* LoadDialogs(n) at m decodes the file.  (Whether "return v, Decode(&v)" reads v
\* before or after Decode is up to the compiler: gc does after.)
LoadDialogs(m, n) ==
  /\ node[m] = "up" /\ taker[m] = Idle /\ mu[m] = Free
  /\ ~Up(n)
  /\ mu' = [mu EXCEPT ![m] = Loading]
  /\ taker' = [taker EXCEPT ![m] =
                 [at |-> "truncate", from |-> n, left |-> Decoded(file[n])]]
  /\ UNCHANGED <<node, dialogs, file, unwritten, emptied, dialogVars, due, hangupVars, pastVars, downs>>

\* Its deferred Truncate(0), whose error nobody sees: node n may have started
\* again in between.
TruncateLoaded(m) ==
  /\ taker[m].at = "truncate"
  /\ mu' = [mu EXCEPT ![m] = Free]
  /\ \/ LET n == taker[m].from
        IN  /\ file' = [file EXCEPT ![n] = Torn]
            /\ emptied' = IF Up(n) THEN emptied \union {n} ELSE emptied
     \/ UNCHANGED <<file, emptied>>
  /\ UNCHANGED unwritten
  /\ taker' = [taker EXCEPT ![m].at = "next"]
  /\ UNCHANGED <<node, dialogs, dialogVars, due, hangupVars, pastVars, downs>>

\* The loop of ReInviteDialogs ends, or returns at an INVITE that fails.
LeaveTakeover(m) ==
  /\ taker[m].at = "next"
  /\ taker' = [taker EXCEPT ![m] = Idle]
  /\ UNCHANGED <<node, cacheVars, dialogVars, due, hangupVars, pastVars, downs>>

\* The IDs that the dialog of a takeover may get.  The first INVITE to a caller
\* swaps From and To; the request stored from then on has both tags and gives
\* the same ID again.  The INVITE of an outgoing call has no tag of the callee,
\* who chooses another each time.
Renewed(id) == IF id[1] \in Incoming THEN {<<id[1], 1>>}
               ELSE {new \in IDs : new[1] = id[1] /\ st[new] = "none"}

\* reinvite: the party answers; pbx.invite goes on to register the dialog.  Whether
\* the dialog of the file is over, or was taken over before, is not asked.  (Left
\* out: a party that answers under an ID that a node still has.)
ReInvite(m) ==
  /\ taker[m].at = "next"
  /\ \E id \in taker[m].left : \E new \in Renewed(id) :
       /\ home[new] = Nobody
       /\ st' = [st EXCEPT ![id] = IF @ = "orphan" THEN "moved" ELSE @,
                          ![new] = "confirmed"]
       /\ home' = [home EXCEPT ![new] = m]
       /\ Appears(m, new)
       /\ taker' = [taker EXCEPT ![m] = [at |-> "register", from |-> @.from,
                                        left |-> @.left \ {id}, id |-> id, new |-> new]]
  /\ UNCHANGED <<node, cacheVars, reg, due, pastVars, downs>>

\* pbx.invite has returned; DeleteDialogNode gets the mutex.
Forget(m) ==
  /\ taker[m].at = "register"
  /\ LET id == taker[m].id
         new == taker[m].new
     IN  /\ reg[new] = "yes" /\ "store" \notin due[new]
         /\ Alter(m, "forget", id)
         /\ dropped' = IF new = id THEN dropped \union {id} ELSE dropped
  /\ taker' = [taker EXCEPT ![m] = IF mu'[m] = Free THEN ToNext(@)
                                         ELSE [@ EXCEPT !.at = "forgetting"]]
  /\ UNCHANGED <<node, dialogVars, due, hangupVars, late, downs>>

----------------------------------------------------------------------------
(* Nodes                                                                    *)

\* The process is gone: its memory is, the file is not.  So is the history that
\* concerns its dialogs only.
Gone(n) ==
  /\ node' = [node EXCEPT ![n] = "down"]
  /\ dialogs' = [dialogs EXCEPT ![n] = {}]
  /\ mu' = [mu EXCEPT ![n] = Free]
  /\ taker' = [taker EXCEPT ![n] = Idle]
  /\ range' = [range EXCEPT ![n] = {}]
  /\ st' = [id \in IDs |-> CASE home[id] = n /\ st[id] = "early" -> "ended"
                             [] home[id] = n /\ st[id] = "confirmed" -> "orphan"
                             [] OTHER -> st[id]]
  /\ reg' = [id \in IDs |-> IF home[id] = n THEN "no" ELSE reg[id]]
  /\ due' = [id \in IDs |-> IF home[id] = n THEN {} ELSE due[id]]
  /\ home' = [id \in IDs |-> IF home[id] = n THEN Nobody ELSE home[id]]
  /\ LET Kept(ids) == {id \in ids : home[id] # n}
     IN  /\ unheard' = Kept(unheard) /\ newcomers' = Kept(newcomers)
         /\ late' = Kept(late) /\ dropped' = Kept(dropped)
  /\ unwritten' = unwritten \ {n}
  /\ emptied' = emptied \ {n}
  /\ UNCHANGED file

Crash(n) ==
  /\ Up(n) /\ downs < MaxDowns
  /\ Gone(n)
  /\ downs' = downs + 1

\* DialogCacheFile.Init of the new process: O_TRUNC.
Restart(n) ==
  /\ ~Up(n)
  /\ node' = [node EXCEPT ![n] = "up"]
  /\ file' = [file EXCEPT ![n] = Torn]
  /\ UNCHANGED <<dialogs, mu, unwritten, emptied, dialogVars, due, taker, hangupVars, pastVars, downs>>

\* tu.Serve returns; the first DialogRange begins.
Shutdown(n) ==
  /\ node[n] = "up" /\ downs < MaxDowns
  /\ downs' = downs + 1
  /\ node' = [node EXCEPT ![n] = "clients"]
  /\ range' = [range EXCEPT ![n] = Clients(n)]
  /\ UNCHANGED <<cacheVars, dialogVars, due, taker, unheard, newcomers, pastVars>>

\* Hangup of a dialog that a DialogRange visits: with an answer, without one, or
\* of one that has ended.
Hangup(n) ==
  /\ \E id \in range[n] :
       /\ range' = [range EXCEPT ![n] = @ \ {id}]
       /\ \/ st[id] \in {"early", "confirmed"} /\ Ends(id) /\ UNCHANGED unheard
          \/ st[id] \in {"early", "confirmed"} /\ unheard' = unheard \union {id}
             /\ UNCHANGED <<st, due>>
          \/ st[id] = "ended" /\ UNCHANGED <<st, due, unheard>>
  /\ UNCHANGED <<node, cacheVars, home, reg, taker, newcomers, pastVars, downs>>

\* Mutant: only the dialogs that the node dialled are hung up.
RangeServers_None(n) ==
  /\ node[n] = "clients" /\ range[n] = {}
  /\ node' = [node EXCEPT ![n] = "servers"]
  /\ UNCHANGED <<cacheVars, dialogVars, due, taker, hangupVars, pastVars, downs>>

\* The second DialogRange begins.
RangeServers(n) ==
  /\ node[n] = "clients" /\ range[n] = {}
  /\ node' = [node EXCEPT ![n] = "servers"]
  /\ range' = [range EXCEPT ![n] = On(n) \ Clients(n)]
  /\ UNCHANGED <<cacheVars, dialogVars, due, taker, unheard, newcomers, pastVars, downs>>

\* Serve returns and the process exits, whatever waits for the mutex.
Exit(n) ==
  /\ node[n] = "servers" /\ range[n] = {}
  /\ Gone(n)
  /\ UNCHANGED downs

Next == \/ \E n \in Nodes : \/ \E c \in Incoming : IncomingCall(n, c)
                            \/ \E c \in Outgoing : OutgoingCall(n, c)
                            \/ \E f \in Nodes : LoadDialogs(n, f)
                            \/ Dump(n) \/ TruncateLoaded(n) \/ LeaveTakeover(n)
                            \/ ReInvite(n) \/ Forget(n)
                            \/ Crash(n) \/ Restart(n) \/ Shutdown(n)
                            \/ Hangup(n) \/ RangeServers(n) \/ Exit(n)
        \/ \E id \in IDs : \/ Confirm(id) \/ End(id) \/ OrphanEnds(id)
                           \/ OnState(id) \/ LoadState(id) \/ Handle(id)

Spec == Init /\ [][Next]_vars

----------------------------------------------------------------------------
(* Properties                                                               *)

\* At every moment the file of a node that serves holds the dialogs that the node
\* has cached, so that a crash loses none of them to a takeover, but for three gaps:
\* from the Truncate of dumpDialogs to its Encode the file is empty; a takeover that
\* had read the file of an earlier process empties the one that this process has
\* written, until it writes again; and a write that fails leaves what was there
\* (src/dialog_cache_file.go:90, 102-127).
FileCurrent ==
  \A n \in Nodes : Up(n) =>
    LET filed == Decoded(file[n])
    IN  \/ filed = dialogs[n]
        \/ filed = {} /\ (Writing(n) \/ n \in emptied)
        \/ n \in unwritten

\* No change of a dialog's state takes part in the cache any more.
Settled(id) == /\ due[id] = {}
               /\ \A n \in Nodes : Writing(n) => mu[n].id # id

\* An answer that registerOnStateDialog and its callback have dealt with.
Answered(id) == st[id] = "confirmed" /\ reg[id] = "yes" /\ Settled(id)

\* registerOnStateDialog misses no answer, of an incoming dialog that is answered
\* afterwards or of an outgoing one that was before: the cache of its node has the
\* dialog.  The only ones missing, and missing as long as they last, are those that
\* a takeover made under the ID that it then deletes: it ignores whose entry that is
\* (src/pbx.go:280-281, 375, src/dialog_cache_file.go:63-68).
AnsweredIsCached ==
  \A id \in IDs : Answered(id) => (id \in dialogs[home[id]] <=> id \notin dropped)

\* "TODO: not fully reliable": the cache keeps a dialog that is over only if
\* the StoreDialog for its answer got the mutex after its end (src/pbx.go:244-281).
GhostOnlyLate ==
  \A n \in Nodes : \A id \in dialogs[n] :
    st[id] = "ended" /\ Settled(id) => id \in late

\* Where a takeover finds a dialog, or has it.
Findable == UNION {Decoded(file[n]) \union taker[n].left : n \in Nodes}

\* The ways in which a step loses a dialog.
Dies(n) == Up(n) /\ ~Up(n)'

\* Its node dies with a file that is not its cache, or having dropped the dialog.
DiesUnfiled(id) ==
  \E n \in Nodes : /\ home[id] = n /\ Dies(n)
                  /\ \/ Writing(n)
                     \/ n \in emptied \union unwritten
                     \/ id \in dropped

\* An INVITE fails, and with it the rest of the list.
GivenUp(id) == \E m \in Nodes : /\ id \in taker[m].left /\ taker[m].at = "next"
                               /\ Up(m)' /\ taker'[m] = Idle

\* The node that has it in its list dies.
TakerDies(id) == \E m \in Nodes : id \in taker[m].left /\ Dies(m)

\* Its node starts again before a takeover has read the file.
StartedOver(id) == \E n \in Nodes : id \in Decoded(file[n]) /\ ~Up(n) /\ Up(n)'

\* A takeover empties a file that was written after it had read it.
EmptiedUnread(id) == \E m \in Nodes :
                       /\ taker[m].at = "truncate" /\ id \notin taker[m].left
                       /\ id \in Decoded(file[taker[m].from])

\* From its answer a dialog can be taken over by another node whenever its own is
\* gone: in the file, or in the list of a takeover that goes on.  It is lost in these
\* ways and in no other (src/pbx.go:244-281, 369-377, src/dialog_cache_file.go:35-127).
OrphansAreKept ==
  [][\A id \in IDs :
       /\ Answered(id) \/ (st[id] = "orphan" /\ id \in Findable)
       /\ st'[id] = "orphan" /\ id \notin Findable'
       => \/ DiesUnfiled(id) \/ GivenUp(id) \/ TakerDies(id)
          \/ StartedOver(id) \/ EmptiedUnread(id)]_vars

\* Serve leaves no dialog behind when it returns, but the ones whose Hangup
\* failed and the ones dialled while it hung up (src/pbx.go:55-74).
ShutdownHangsUp ==
  [][\A n \in Nodes :
       (node[n] = "servers" /\ node'[n] = "down" /\ downs' = downs)
       => On(n) \subseteq unheard \union newcomers]_vars
=============================================================================
