------------------------- MODULE DialogCacheProofs -------------------------
(***************************************************************************)
(* Proofs about DialogCache, for any number of nodes, calls, takeovers and *)
(* crashes.  The steps are summed up first: what one may do to a dialog    *)
(* (Moves), and which of them touch the cache of a node or its takeover    *)
(* (CacheSteps).                                                           *)
(***************************************************************************)
EXTENDS DialogCache, TLAPS

----------------------------------------------------------------------------
(* The inductive invariant                                                  *)

\* The memory of a node that is down is gone (src/dialog_cache_file.go:20-33).
DownIdle == \A n \in Nodes : ~Up(n) => /\ dialogs[n] = {}
                                       /\ mu[n] = Free
                                       /\ taker[n] = Idle

\* A dialog is served by a node that is up, or over, or not begun.
HomeSound ==
  \A id \in IDs :
    /\ home[id] \in Nodes => Up(home[id]) /\ st[id] \in {"early", "confirmed", "ended"}
    /\ home[id] \notin Nodes => /\ st[id] \notin {"early", "confirmed"}
                                /\ reg[id] = "no" /\ due[id] = {}

\* What a dialog's state says of its registration and of its callbacks.
RegSound ==
  \A id \in IDs : /\ due[id] # {} => reg[id] # "no"
                  /\ "delete" \in due[id] => st[id] = "ended"
                  /\ st[id] = "early" => due[id] = {}

\* The ID that a takeover gives a call that came in, whatever ID it has.
Again(id) == id[1] \in Incoming /\ id = <<id[1], 1>>

\* The dialog had a node, which is gone; no other serves it under this ID.
Over(id) == Again(id) \/ st[id] \in {"orphan", "moved", "ended"}

\* A dialog that a takeover reads, or has read, is over.
LeftSound ==
  \A n \in Nodes : /\ \A id \in taker[n].left : Over(id)
                   /\ ~Up(n) => \A id \in Decoded(file[n]) : Over(id)

\* The mutex and the takeover of a node agree on where they are; what the takeover
\* registers is a dialog of that node, and what it deletes then is over.
TakerSound ==
  \A m \in Nodes :
    LET id == taker[m].id
        new == taker[m].new
    IN  /\ taker[m].at = "truncate" => mu[m] = Loading
        /\ mu[m].op = "forget" => taker[m].at = "forgetting"
        /\ taker[m].at = "register" =>
             /\ home[new] = m /\ st[new] \in {"confirmed", "ended"}
             /\ new # id => Over(id) /\ ~Again(id)

\* FileCurrent, while a takeover reads too.
FileSound ==
  \A n \in Nodes : Up(n) =>
    /\ Writing(n) => file[n] = Torn
    /\ n \in emptied => Decoded(file[n]) = {}
    /\ ~Writing(n) /\ n \notin unwritten \union emptied => Decoded(file[n]) = dialogs[n]

\* A node that is up has written only its own dialogs to its file.
NoOrphanFiled ==
  \A n \in Nodes : Up(n) => \A id \in Decoded(file[n]) : home[id] = n

\* AnsweredIsCached, with the stores that are due.
Cached ==
  \A id \in IDs :
    /\ st[id] = "confirmed" /\ reg[id] = "yes" /\ "store" \notin due[id]
         => id \in dropped \/ id \in dialogs[home[id]]
    /\ id \in dropped => /\ home[id] \in Nodes /\ id \notin dialogs[home[id]]
                         /\ st[id] \in {"confirmed", "ended"}
                         /\ reg[id] = "yes" /\ "store" \notin due[id]

\* GhostOnlyLate, with the deletions that are due.
Ghosts == \A n \in Nodes : \A id \in dialogs[n] :
            /\ home[id] = n /\ reg[id] # "no"
            /\ \/ st[id] = "confirmed"
               \/ st[id] = "ended" /\ ("delete" \in due[id] \/ id \in late)

\* What the two loops of Serve have yet to hang up.
HangsUp == \A n \in Nodes :
             LET visited == range[n] \union unheard \union newcomers
             IN  /\ node[n] = "clients" => Clients(n) \subseteq visited
                 /\ node[n] = "servers" => On(n) \subseteq visited

IInv == /\ TypeOK /\ DownIdle /\ HomeSound /\ RegSound /\ LeftSound /\ TakerSound
        /\ FileSound /\ NoOrphanFiled /\ Cached /\ Ghosts /\ HangsUp

----------------------------------------------------------------------------
(* IDs, files, takeovers                                                    *)

\* The first ID of a call is one (src/dialog_cache.go:28-30).
LEMMA FirstID == \A c \in Incoming \union Outgoing : <<c, 0>> \in IDs
  BY BoundsAssumption DEF IDs, Calls

\* A map written to a file is read as it was (src/dialog_cache_file.go:92-127).
LEMMA Decoding == /\ Decoded(Torn) = {}
                  /\ \A ids \in SUBSET IDs : Decoded(ids) = ids
  BY TornAssumption DEF Decoded, IDs, Calls

\* What is read from a file is a set of dialogs.
LEMMA DecodedType ==
  ASSUME TypeOK, NEW n \in Nodes
  PROVE  Decoded(file[n]) \in SUBSET IDs
  BY DEF TypeOK, Decoded

\* Where ReInviteDialogs may go on to (src/pbx.go:368-379).
LEMMA TakerMoves ==
  ASSUME NEW t \in Takers
  PROVE  /\ t.left \in SUBSET IDs
         /\ t.at = "truncate" => [t EXCEPT !.at = "next"] \in Takers
         /\ t.at = "register" => /\ [t EXCEPT !.at = "forgetting"] \in Takers
                                 /\ [t EXCEPT !.at = "forgetting"].left = t.left
         /\ t.at \in {"register", "forgetting"} => 
              ToNext(t) \in Takers /\ t.id \in IDs /\ t.new \in IDs
         /\ t.at = "next" => \A id, new \in IDs :
              [at |-> "register", from |-> t.from, left |-> t.left \ {id}, id |-> id,
               new |-> new] \in Takers
<1>1. CASE t = Idle
  BY <1>1 DEF Idle
<1>2. CASE t \in [at : {"truncate", "next"}, from : Nodes, left : SUBSET IDs]
  BY <1>2 DEF Takers
<1>3. CASE t \in [at : {"register", "forgetting"}, from : Nodes, left : SUBSET IDs,
             id : IDs, new : IDs]
  BY <1>3 DEF Takers, ToNext
<1> QED BY <1>1, <1>2, <1>3 DEF Takers

\* What an operation on the cache does (src/dialog_cache_file.go:48-68).
LEMMA Altered ==
  ASSUME TypeOK, NEW n \in Nodes, NEW op \in {"store", "delete", "forget"},
         NEW id \in IDs, Alter(n, op, id)
  PROVE  /\ mu[n] = Free
         /\ dialogs' \in [Nodes -> SUBSET IDs]
         /\ \A k \in Nodes \ {n} : /\ dialogs'[k] = dialogs[k] /\ file'[k] = file[k]
                                    /\ mu'[k] = mu[k]
         /\ op = "store" => dialogs'[n] = dialogs[n] \union {id}
         /\ op # "store" => dialogs'[n] = dialogs[n] \ {id}
         /\ file' \in [Nodes -> (SUBSET IDs) \union {Torn}]
         /\ file'[n] \in {file[n], Torn}
         /\ mu' \in [Nodes -> Held]
         /\ mu'[n] \in {Free, [op |-> op, id |-> id]}
         /\ mu'[n] = Free => unwritten' = unwritten \union {n} /\ file'[n] = file[n]
         /\ mu'[n] # Free => file'[n] = Torn /\ unwritten' = unwritten
         /\ unwritten' \in SUBSET Nodes /\ emptied' = emptied
<1>1. dialogs' = [dialogs EXCEPT ![n] = IF op = "store" THEN dialogs[n] \union {id}
                                        ELSE dialogs[n] \ {id}]
  BY DEF Alter
<1>2. [op |-> op, id |-> id] \in Held /\ [op |-> op, id |-> id] # Free
  BY DEF Held, Free
<1>3. CASE /\ mu' = [mu EXCEPT ![n] = [op |-> op, id |-> id]]
           /\ file' = [file EXCEPT ![n] = Torn] /\ unwritten' = unwritten
  BY <1>1, <1>2, <1>3 DEF TypeOK, Alter
<1>4. CASE mu' = mu /\ file' = file /\ unwritten' = unwritten \union {n}
  BY <1>1, <1>4 DEF TypeOK, Alter
<1> QED BY <1>3, <1>4 DEF Alter

\* What a new dialog does to a shutdown (src/pbx.go:59-73).
LEMMA Appearing ==
  ASSUME TypeOK, NEW n \in Nodes, NEW id \in IDs, Appears(n, id)
  PROVE  /\ range' \in [Nodes -> SUBSET IDs]
         /\ \A k \in Nodes : range[k] \subseteq range'[k]
         /\ newcomers' \in SUBSET IDs /\ unheard' = unheard
         /\ newcomers \ {id} \subseteq newcomers'
         /\ node[n] # "up" => id \in newcomers'
<1>1. CASE range' = range
  BY <1>1 DEF TypeOK, Appears
<1>2. CASE range' = [range EXCEPT ![n] = range[n] \union {id}]
  BY <1>2 DEF TypeOK, Appears
<1> QED BY <1>1, <1>2 DEF Appears

\* The two IDs of a call that is taken over (src/pbx.go:309-366).
LEMMA ReInvited ==
  ASSUME TypeOK, NEW m \in Nodes, ReInvite(m)
  PROVE  \E id \in taker[m].left, new \in IDs :
           /\ taker[m] \in Takers /\ taker[m].at = "next" /\ id \in IDs
           /\ home[new] = Nobody
           /\ Again(new) \/ st[new] = "none"
           /\ new # id => ~Again(id)
           /\ st' \in [IDs -> {"none", "early", "confirmed", "ended", "orphan", "moved"}]
           /\ st'[new] = "confirmed"
           /\ new # id => st'[id] = IF st[id] = "orphan" THEN "moved" ELSE st[id]
           /\ \A i \in IDs \ {id, new} : st'[i] = st[i]
           /\ home' = [home EXCEPT ![new] = m]
           /\ Appears(m, new)
           /\ taker' = [taker EXCEPT ![m] =
                [at |-> "register", from |-> taker[m].from,
                 left |-> taker[m].left \ {id}, id |-> id, new |-> new]]
<1>1. PICK id \in taker[m].left : \E new \in Renewed(id) :
        /\ home[new] = Nobody
        /\ st' = [st EXCEPT ![id] = IF @ = "orphan" THEN "moved" ELSE @,
                           ![new] = "confirmed"]
        /\ home' = [home EXCEPT ![new] = m]
        /\ Appears(m, new)
        /\ taker' = [taker EXCEPT ![m] =
             [at |-> "register", from |-> @.from,
              left |-> @.left \ {id}, id |-> id, new |-> new]]
  BY DEF ReInvite
<1>2. PICK new \in Renewed(id) :
        /\ home[new] = Nobody
        /\ st' = [st EXCEPT ![id] = IF @ = "orphan" THEN "moved" ELSE @,
                           ![new] = "confirmed"]
        /\ home' = [home EXCEPT ![new] = m]
        /\ Appears(m, new)
        /\ taker' = [taker EXCEPT ![m] =
             [at |-> "register", from |-> @.from,
              left |-> @.left \ {id}, id |-> id, new |-> new]]
  BY <1>1
<1>3. taker[m] \in Takers /\ taker[m].at = "next" /\ id \in IDs
  BY TakerMoves DEF TypeOK, ReInvite
<1>4. /\ new \in IDs
      /\ Again(new) \/ st[new] = "none"
      /\ new # id => ~Again(id)
  BY <1>3, BoundsAssumption DEF Renewed, Again, IDs, Calls
<1>5. /\ st'[new] = "confirmed"
      /\ new # id => st'[id] = IF st[id] = "orphan" THEN "moved" ELSE st[id]
      /\ \A i \in IDs \ {id, new} : st'[i] = st[i]
  BY <1>2, <1>3, <1>4 DEF TypeOK
<1>6. st' \in [IDs -> {"none", "early", "confirmed", "ended", "orphan", "moved"}]
  BY <1>2, <1>3, <1>4 DEF TypeOK
<1> QED BY <1>2, <1>3, <1>4, <1>5, <1>6

\* What is left of a node's dialogs and memory when it is down.
LEMMA NodeGone ==
  ASSUME TypeOK, NEW n \in Nodes, Gone(n)
  PROVE  /\ \A k \in Nodes \ {n} :
              /\ node'[k] = node[k] /\ dialogs'[k] = dialogs[k] /\ mu'[k] = mu[k]
              /\ taker'[k] = taker[k] /\ range'[k] = range[k]
         /\ node'[n] = "down" /\ dialogs'[n] = {} /\ mu'[n] = Free
         /\ taker'[n] = Idle /\ range'[n] = {}
         /\ file' = file
         /\ \A id \in IDs : home[id] # n =>
              /\ st'[id] = st[id] /\ reg'[id] = reg[id] /\ due'[id] = due[id]
              /\ home'[id] = home[id]
              /\ id \in late => id \in late'
              /\ id \in unheard => id \in unheard'
              /\ id \in newcomers => id \in newcomers'
         /\ \A id \in IDs : id \in dropped' <=> id \in dropped /\ home[id] # n
         /\ \A id \in IDs : home[id] = n =>
              /\ reg'[id] = "no" /\ due'[id] = {} /\ home'[id] = Nobody
              /\ st[id] = "early" => st'[id] = "ended"
              /\ st[id] = "confirmed" => st'[id] = "orphan"
              /\ st[id] \notin {"early", "confirmed"} => st'[id] = st[id]
<1>1. \A k \in Nodes \ {n} :
        /\ node'[k] = node[k] /\ dialogs'[k] = dialogs[k] /\ mu'[k] = mu[k]
        /\ taker'[k] = taker[k] /\ range'[k] = range[k]
  BY DEF TypeOK, Gone
<1>2. /\ node'[n] = "down" /\ dialogs'[n] = {} /\ mu'[n] = Free
      /\ taker'[n] = Idle /\ range'[n] = {} /\ file' = file
  BY DEF TypeOK, Gone
<1>3. \A id \in IDs : home[id] # n =>
        /\ st'[id] = st[id] /\ reg'[id] = reg[id] /\ due'[id] = due[id]
        /\ home'[id] = home[id]
  BY DEF Gone
<1>4. \A id \in IDs : home[id] # n =>
        /\ id \in late => id \in late'
        /\ id \in unheard => id \in unheard'
        /\ id \in newcomers => id \in newcomers'
  BY DEF Gone
<1>5. \A id \in IDs : home[id] = n =>
        /\ reg'[id] = "no" /\ due'[id] = {} /\ home'[id] = Nobody
        /\ st[id] = "early" => st'[id] = "ended"
        /\ st[id] = "confirmed" => st'[id] = "orphan"
        /\ st[id] \notin {"early", "confirmed"} => st'[id] = st[id]
  BY DEF Gone
<1>6. \A id \in IDs : id \in dropped' <=> id \in dropped /\ home[id] # n
  BY DEF Gone
<1> QED BY <1>1, <1>2, <1>3, <1>4, <1>5, <1>6

\* What Serve's hang up of one dialog does (src/pbx.go:59-73).
LEMMA HungUp ==
  ASSUME TypeOK, NEW n \in Nodes, Hangup(n)
  PROVE  \E id \in range[n] :
           /\ id \in IDs /\ st[id] \in {"early", "confirmed", "ended"}
           /\ range'[n] = range[n] \ {id} /\ \A k \in Nodes \ {n} : range'[k] = range[k]
           /\ \A i \in IDs \ {id} : st'[i] = st[i] /\ due'[i] = due[i]
           /\ \/ /\ st[id] # "ended" /\ st'[id] = "ended" /\ unheard' = unheard
                 /\ due'[id] = IF reg[id] = "no" THEN due[id] ELSE due[id] \union {"delete"}
              \/ /\ unheard' = unheard \union {id} /\ st[id] # "ended"
                 /\ st'[id] = st[id] /\ due'[id] = due[id]
              \/ /\ unheard' = unheard /\ st[id] = "ended"
                 /\ st'[id] = st[id] /\ due'[id] = due[id]
<1>1. PICK id \in range[n] :
        /\ range' = [range EXCEPT ![n] = @ \ {id}]
        /\ \/ st[id] \in {"early", "confirmed"} /\ Ends(id) /\ UNCHANGED unheard
           \/ st[id] \in {"early", "confirmed"} /\ unheard' = unheard \union {id}
              /\ UNCHANGED <<st, due>>
           \/ st[id] = "ended" /\ UNCHANGED <<st, due, unheard>>
  BY DEF Hangup
<1>2. id \in IDs
  BY DEF TypeOK
<1>3. range'[n] = range[n] \ {id} /\ \A k \in Nodes \ {n} : range'[k] = range[k]
  BY <1>1 DEF TypeOK
<1>4. CASE st[id] \in {"early", "confirmed"} /\ Ends(id) /\ UNCHANGED unheard
  BY <1>2, <1>3, <1>4 DEF TypeOK, Ends, Notified
<1>5. CASE ~(st[id] \in {"early", "confirmed"} /\ Ends(id) /\ UNCHANGED unheard)
  BY <1>1, <1>2, <1>3, <1>5
<1> QED BY <1>4, <1>5

----------------------------------------------------------------------------
(* What a step does                                                         *)

\* A step that leaves the caches, their files and the takeovers alone.
Quiet == /\ UNCHANGED <<cacheVars, taker, pastVars>>
         /\ \A n \in Nodes : node'[n] = "down" <=> node[n] = "down"

\* The steps that do not (src/dialog_cache_file.go:35-127, src/pbx.go:280-380).
CacheStep ==
  \/ \E id \in IDs : Handle(id)
  \/ \E n \in Nodes : \/ Dump(n) \/ TruncateLoaded(n) \/ LeaveTakeover(n)
                      \/ ReInvite(n) \/ Forget(n) \/ Restart(n)
                      \/ Up(n) /\ Gone(n)
                      \/ \E k \in Nodes : LoadDialogs(n, k)

\* Callbacks and calls come to the cache through its mutex only
\* (src/pbx.go:244-281).
LEMMA CacheSteps ==
  ASSUME TypeOK, [Next]_vars
  PROVE  Quiet \/ CacheStep
<1>1. ASSUME NEW n \in Nodes, NEW c, IncomingCall(n, c) \/ OutgoingCall(n, c)
      PROVE  Quiet
  BY <1>1 DEF Quiet, IncomingCall, OutgoingCall
<1>2. ASSUME NEW id \in IDs, Confirm(id) \/ End(id) \/ OrphanEnds(id)
      PROVE  Quiet
  BY <1>2 DEF Quiet, Confirm, End, OrphanEnds
<1>3. ASSUME NEW id \in IDs, OnState(id) \/ LoadState(id)
      PROVE  Quiet
  BY <1>3 DEF Quiet, OnState, LoadState
<1>4. ASSUME NEW n \in Nodes, Shutdown(n) \/ Hangup(n) \/ RangeServers(n)
      PROVE  Quiet
  BY <1>4 DEF TypeOK, Quiet, Shutdown, Hangup, RangeServers
<1>5. ASSUME NEW n \in Nodes, Crash(n) \/ Exit(n)
      PROVE  Up(n) /\ Gone(n)
  BY <1>5 DEF Crash, Exit, Up
<1>6. UNCHANGED vars => Quiet
  BY DEF Quiet, vars
<1> QED BY <1>1, <1>2, <1>3, <1>4, <1>5, <1>6 DEF Next, CacheStep

\* What may happen to one dialog.
Stays(id) == /\ st'[id] = st[id] /\ home'[id] = home[id]
             /\ reg'[id] = reg[id] /\ due'[id] = due[id]

Begins(id) == /\ home[id] = Nobody /\ home'[id] \in Nodes
              /\ reg'[id] = reg[id] /\ due'[id] = due[id]
              /\ \/ st[id] = "none" /\ st'[id] \in {"early", "confirmed"}
                 \/ Again(id) /\ st'[id] = "confirmed"

Confirms(id) == /\ st[id] = "early" /\ st'[id] = "confirmed" /\ reg[id] = "yes"
                /\ home'[id] = home[id] /\ reg'[id] = reg[id]
                /\ due'[id] = due[id] \union {"store"}

Finishes(id) == /\ st[id] \in {"early", "confirmed"} /\ st'[id] = "ended"
                /\ home'[id] = home[id] /\ reg'[id] = reg[id]
                /\ due'[id] = IF reg[id] = "no" THEN due[id] ELSE due[id] \union {"delete"}

Leaves(id) == /\ st[id] = "orphan" /\ st'[id] \in {"ended", "moved"}
              /\ home'[id] = home[id] /\ reg'[id] = reg[id] /\ due'[id] = due[id]

Registers(id) == /\ home[id] \in Nodes /\ reg[id] = "no" /\ reg'[id] = "load"
                 /\ st'[id] = st[id] /\ home'[id] = home[id] /\ due'[id] = due[id]

Loads(id) == /\ reg[id] = "load" /\ reg'[id] = "yes"
             /\ st'[id] = st[id] /\ home'[id] = home[id]
             /\ \/ st[id] = "confirmed" /\ due'[id] = due[id] \union {"store"}
                \/ st[id] = "ended" /\ due'[id] = due[id] \union {"delete"}
                \/ st[id] \notin {"confirmed", "ended"} /\ due'[id] = due[id]

Handles(id) == /\ \E op \in due[id] : due'[id] = due[id] \ {op} /\ Alter(home[id], op, id)
               /\ st'[id] = st[id] /\ home'[id] = home[id] /\ reg'[id] = reg[id]
               /\ Handle(id)

Orphaned(id) == /\ home[id] \in Nodes /\ Gone(home[id])
                /\ home'[id] = Nobody /\ reg'[id] = "no" /\ due'[id] = {}
                /\ st[id] = "early" => st'[id] = "ended"
                /\ st[id] = "confirmed" => st'[id] = "orphan"
                /\ st[id] \notin {"early", "confirmed"} => st'[id] = st[id]

Moves(id) == \/ Stays(id) \/ Begins(id) \/ Confirms(id) \/ Finishes(id) \/ Leaves(id)
             \/ Registers(id) \/ Loads(id) \/ Handles(id) \/ Orphaned(id)

\* A dialog moves in these ways, and has a node only while that is up
\* (src/pbx.go:51-134, 244-380).
LEMMA DialogMoves ==
  ASSUME TypeOK, DownIdle, HomeSound, [Next]_vars
  PROVE  \A id \in IDs : Moves(id) /\ (home'[id] \in Nodes => node'[home'[id]] # "down")
<1> DEFINE Sound == \A id \in IDs : Moves(id) /\ (home'[id] \in Nodes => node'[home'[id]] # "down")
<1> USE DEF Moves
<1>0. ASSUME UNCHANGED <<dialogVars, due>>,
             \A n \in Nodes : node[n] # "down" => node'[n] # "down"
      PROVE  Sound
  BY <1>0 DEF Stays, HomeSound, Up, dialogVars
<1>1. ASSUME NEW n \in Nodes, NEW c \in Incoming, IncomingCall(n, c)
      PROVE  Sound
  <2>1. <<c, 0>> \in IDs /\ home[<<c, 0>>] = Nobody
    BY <1>1, FirstID DEF TypeOK, HomeSound, IncomingCall
  <2>2. Begins(<<c, 0>>) /\ home'[<<c, 0>>] = n
    BY <1>1, <2>1 DEF TypeOK, Begins, IncomingCall
  <2>3. \A id \in IDs \ {<<c, 0>>} : Stays(id)
    BY <1>1 DEF TypeOK, Stays, IncomingCall
  <2> QED BY <1>1, <2>2, <2>3 DEF HomeSound, IncomingCall, Stays, Up
<1>2. ASSUME NEW n \in Nodes, NEW c \in Outgoing, OutgoingCall(n, c)
      PROVE  Sound
  <2>1. <<c, 0>> \in IDs /\ home[<<c, 0>>] = Nobody
    BY <1>2, FirstID DEF TypeOK, HomeSound, OutgoingCall
  <2>2. Begins(<<c, 0>>) /\ home'[<<c, 0>>] = n
    BY <1>2, <2>1 DEF TypeOK, Begins, OutgoingCall
  <2>3. \A id \in IDs \ {<<c, 0>>} : Stays(id)
    BY <1>2 DEF TypeOK, Stays, OutgoingCall
  <2> QED BY <1>2, <2>2, <2>3 DEF HomeSound, OutgoingCall, Stays, Up
<1>3. ASSUME NEW i \in IDs, Confirm(i)
      PROVE  Sound
  <2>1. Confirms(i) /\ \A id \in IDs \ {i} : Stays(id)
    BY <1>3 DEF TypeOK, Confirm, Notified, Confirms, Stays
  <2> QED BY <1>3, <2>1 DEF HomeSound, Confirm, Up
<1>4. ASSUME NEW i \in IDs, End(i)
      PROVE  Sound
  <2>1. Finishes(i) /\ \A id \in IDs \ {i} : Stays(id)
    BY <1>4 DEF TypeOK, End, Ends, Notified, Finishes, Stays
  <2> QED BY <1>4, <2>1 DEF HomeSound, End, Up
<1>5. ASSUME NEW i \in IDs, OrphanEnds(i)
      PROVE  Sound
  <2>1. Leaves(i) /\ \A id \in IDs \ {i} : Stays(id)
    BY <1>5 DEF TypeOK, OrphanEnds, Leaves, Stays
  <2> QED BY <1>5, <2>1 DEF HomeSound, OrphanEnds, Up
<1>6. ASSUME NEW i \in IDs, OnState(i)
      PROVE  Sound
  <2>1. Registers(i) /\ \A id \in IDs \ {i} : Stays(id)
    BY <1>6 DEF TypeOK, OnState, Registers, Stays
  <2> QED BY <1>6, <2>1 DEF HomeSound, OnState, Up
<1>7. ASSUME NEW i \in IDs, LoadState(i)
      PROVE  Sound
  <2>1. Loads(i) /\ \A id \in IDs \ {i} : Stays(id)
    BY <1>7 DEF TypeOK, LoadState, Loads, Stays
  <2> QED BY <1>7, <2>1 DEF HomeSound, LoadState, Up
<1>8. ASSUME NEW i \in IDs, Handle(i)
      PROVE  Sound
  <2>1. Handles(i) /\ \A id \in IDs \ {i} : Stays(id)
    BY <1>8 DEF TypeOK, Handle, Handles, Stays, dialogVars
  <2> QED BY <1>8, <2>1 DEF HomeSound, Handle, dialogVars, Up
<1>9. ASSUME NEW m \in Nodes, ReInvite(m)
      PROVE  Sound
  <2>1. PICK id \in taker[m].left, new \in IDs :
          /\ id \in IDs /\ home[new] = Nobody
          /\ Again(new) \/ st[new] = "none"
          /\ st'[new] = "confirmed"
          /\ new # id => st'[id] = IF st[id] = "orphan" THEN "moved" ELSE st[id]
          /\ \A i \in IDs \ {id, new} : st'[i] = st[i]
          /\ home' = [home EXCEPT ![new] = m]
    BY <1>9, ReInvited
  <2>2. UNCHANGED <<node, reg, due>> /\ Up(m)
    BY <1>9 DEF ReInvite, DownIdle, Idle
  <2>3. home'[new] = m /\ \A i \in IDs \ {new} : home'[i] = home[i]
    BY <2>1 DEF TypeOK
  <2>4. Begins(new)
    BY <2>1, <2>2, <2>3 DEF Begins
  <2>5. \A i \in IDs \ {new} : Stays(i) \/ Leaves(i)
    BY <2>1, <2>2, <2>3 DEF Stays, Leaves
  <2> QED BY <2>2, <2>3, <2>4, <2>5 DEF HomeSound, Up
<1>10. ASSUME NEW n \in Nodes, Crash(n) \/ Exit(n)
      PROVE  Sound
  <2>1. Gone(n)
    BY <1>10 DEF Crash, Exit
  <2>2. \A id \in IDs : home[id] # n => Stays(id)
    BY <2>1, NodeGone DEF Stays
  <2>3. \A id \in IDs : home[id] = n => Orphaned(id)
    BY <2>1, NodeGone DEF Orphaned
  <2>4. \A k \in Nodes \ {n} : node'[k] = node[k]
    BY <2>1, NodeGone
  <2> QED BY <2>2, <2>3, <2>4, SetsAssumption DEF HomeSound, Stays, Orphaned, Up
<1>11. ASSUME NEW n \in Nodes, Dump(n) \/ TruncateLoaded(n) \/ LeaveTakeover(n) \/ Forget(n)
      PROVE  Sound
  <2>1. UNCHANGED <<node, dialogVars, due>>
    BY <1>11 DEF Dump, TruncateLoaded, LeaveTakeover, Forget
  <2> QED BY <1>0, <2>1
<1>12. ASSUME NEW m \in Nodes, NEW n \in Nodes, LoadDialogs(m, n)
      PROVE  Sound
  <2>1. UNCHANGED <<node, dialogVars, due>>
    BY <1>12 DEF LoadDialogs
  <2> QED BY <1>0, <2>1
<1>13. ASSUME NEW n \in Nodes, Restart(n) \/ Shutdown(n) \/ RangeServers(n)
      PROVE  Sound
  <2>1. UNCHANGED <<dialogVars, due>>
    BY <1>13 DEF Restart, Shutdown, RangeServers
  <2>2. \A k \in Nodes : node[k] # "down" => node'[k] # "down"
    BY <1>13 DEF TypeOK, Restart, Shutdown, RangeServers
  <2> QED BY <1>0, <2>1, <2>2
<1>14. ASSUME NEW n \in Nodes, Hangup(n)
      PROVE  Sound
  <2>1. PICK id \in range[n] :
          /\ id \in IDs /\ st[id] \in {"early", "confirmed", "ended"}
          /\ \A i \in IDs \ {id} : st'[i] = st[i] /\ due'[i] = due[i]
          /\ \/ /\ st[id] # "ended" /\ st'[id] = "ended"
                /\ due'[id] = IF reg[id] = "no" THEN due[id] ELSE due[id] \union {"delete"}
             \/ st'[id] = st[id] /\ due'[id] = due[id]
    BY <1>14, HungUp
  <2>2. UNCHANGED <<node, home, reg>>
    BY <1>14 DEF Hangup
  <2>3. (Finishes(id) \/ Stays(id)) /\ \A i \in IDs \ {id} : Stays(i)
    BY <2>1, <2>2 DEF Finishes, Stays
  <2> QED BY <2>2, <2>3 DEF HomeSound, Up
<1>15. CASE UNCHANGED vars
  BY <1>0, <1>15 DEF vars
<1> QED BY <1>1, <1>2, <1>3, <1>4, <1>5, <1>6, <1>7, <1>8, <1>9, <1>10, <1>11, <1>12,
   <1>13, <1>14, <1>15 DEF Next

----------------------------------------------------------------------------
(* Each part is preserved                                                   *)

\* A step keeps types: what a node makes of its takeover depends on the mutex
\* (src/pbx.go:368-379).
LEMMA TypeStep ==
  ASSUME TypeOK, TakerSound, [Next]_vars
  PROVE  TypeOK'
<1>1. ASSUME NEW n \in Nodes, NEW c \in Incoming, IncomingCall(n, c)
      PROVE  TypeOK'
  BY <1>1 DEF TypeOK, Held, Free, Loading, Takers, Idle, TakerSound, IncomingCall, vars,
     cacheVars, dialogVars, hangupVars, pastVars
<1>2. ASSUME NEW n \in Nodes, NEW c \in Outgoing, OutgoingCall(n, c)
      PROVE  TypeOK'
  <2>1. <<c, 0>> \in IDs
    BY FirstID
  <2>2. newcomers' \in SUBSET IDs /\ range' \in [Nodes -> SUBSET IDs] /\ unheard' = unheard
    BY <1>2, <2>1, Appearing DEF OutgoingCall
  <2>3. st' \in [IDs -> {"none", "early", "confirmed", "ended", "orphan", "moved"}]
    BY <1>2, <2>1 DEF TypeOK, OutgoingCall
  <2>4. home' \in [IDs -> Nodes \union {Nobody}]
    BY <1>2, <2>1 DEF TypeOK, OutgoingCall
  <2> QED BY <1>2, <2>2, <2>3, <2>4 DEF TypeOK, OutgoingCall, cacheVars, pastVars
<1>3. ASSUME NEW i \in IDs, Confirm(i)
      PROVE  TypeOK'
  BY <1>3 DEF TypeOK, Held, Free, Loading, Takers, Idle, TakerSound, Confirm, Notified,
     vars, cacheVars, dialogVars, hangupVars, pastVars
<1>4. ASSUME NEW i \in IDs, End(i)
      PROVE  TypeOK'
  BY <1>4 DEF TypeOK, Held, Free, Loading, Takers, Idle, TakerSound, End, Ends,
     Notified, vars, cacheVars, dialogVars, hangupVars, pastVars
<1>5. ASSUME NEW i \in IDs, OrphanEnds(i)
      PROVE  TypeOK'
  BY <1>5 DEF TypeOK, Held, Free, Loading, Takers, Idle, TakerSound, OrphanEnds, vars,
     cacheVars, dialogVars, hangupVars, pastVars
<1>6. ASSUME NEW i \in IDs, OnState(i)
      PROVE  TypeOK'
  BY <1>6 DEF TypeOK, Held, Free, Loading, Takers, Idle, TakerSound, OnState, vars,
     cacheVars, dialogVars, hangupVars, pastVars
<1>7. ASSUME NEW i \in IDs, LoadState(i)
      PROVE  TypeOK'
  BY <1>7 DEF TypeOK, Held, Free, Loading, Takers, Idle, TakerSound, LoadState, vars,
     cacheVars, dialogVars, hangupVars, pastVars
<1>8. ASSUME NEW i \in IDs, Handle(i)
      PROVE  TypeOK'
  BY <1>8 DEF TypeOK, Held, Free, Loading, Takers, Idle, TakerSound, Handle, Alter,
     vars, cacheVars, dialogVars, hangupVars, pastVars
<1>9. ASSUME NEW n \in Nodes, Dump(n)
      PROVE  TypeOK'
  BY <1>9 DEF TypeOK, Held, Free, Loading, Takers, Idle, TakerSound, Dump, ToNext, vars,
     cacheVars, dialogVars, hangupVars, pastVars
<1>10. ASSUME NEW m \in Nodes, NEW n \in Nodes, LoadDialogs(m, n)
      PROVE  TypeOK'
  <2>1. Decoded(file[n]) \in SUBSET IDs
    BY DecodedType
  <2>2. [at |-> "truncate", from |-> n, left |-> Decoded(file[n])] \in Takers
    BY <2>1 DEF Takers
  <2>3. mu' \in [Nodes -> Held] /\ taker' \in [Nodes -> Takers]
    BY <1>10, <2>2 DEF TypeOK, LoadDialogs, Held
  <2> QED BY <1>10, <2>3 DEF TypeOK, LoadDialogs, dialogVars, hangupVars, pastVars
<1>11. ASSUME NEW m \in Nodes, TruncateLoaded(m)
      PROVE  TypeOK'
  <2>1. taker[m] \in Takers /\ taker[m].at = "truncate"
    BY <1>11 DEF TypeOK, TruncateLoaded
  <2>2. taker' = [taker EXCEPT ![m] = [taker[m] EXCEPT !.at = "next"]]
    BY <1>11 DEF TypeOK, TruncateLoaded
  <2>3. taker' \in [Nodes -> Takers]
    BY <2>1, <2>2, TakerMoves DEF TypeOK
  <2>4. taker[m].from \in Nodes
    BY <2>1 DEF Takers, Idle
  <2>5. /\ file' \in [Nodes -> (SUBSET IDs) \union {Torn}] /\ mu' \in [Nodes -> Held]
        /\ emptied' \in SUBSET Nodes
    BY <1>11, <2>4 DEF TypeOK, TruncateLoaded, Held
  <2> QED BY <1>11, <2>3, <2>5 DEF TypeOK, TruncateLoaded, dialogVars, hangupVars, pastVars
<1>12. ASSUME NEW m \in Nodes, LeaveTakeover(m)
      PROVE  TypeOK'
  BY <1>12 DEF TypeOK, Held, Free, Loading, Takers, Idle, TakerSound, LeaveTakeover,
     vars, cacheVars, dialogVars, hangupVars, pastVars
<1>13. ASSUME NEW m \in Nodes, ReInvite(m)
      PROVE  TypeOK'
  <2>1. PICK id \in taker[m].left, new \in IDs :
           /\ taker[m] \in Takers /\ taker[m].at = "next" /\ id \in IDs
           /\ Appears(m, new)
           /\ st' \in [IDs -> {"none", "early", "confirmed", "ended", "orphan", "moved"}]
           /\ home' = [home EXCEPT ![new] = m]
           /\ taker' = [taker EXCEPT ![m] =
                [at |-> "register", from |-> taker[m].from,
                 left |-> taker[m].left \ {id}, id |-> id, new |-> new]]
    BY <1>13, ReInvited
  <2>2. taker' \in [Nodes -> Takers]
    BY <2>1, TakerMoves DEF TypeOK
  <2>3. newcomers' \in SUBSET IDs /\ range' \in [Nodes -> SUBSET IDs] /\ unheard' = unheard
    BY <2>1, Appearing
  <2>4. home' \in [IDs -> Nodes \union {Nobody}]
    BY <2>1 DEF TypeOK
  <2> QED BY <1>13, <2>1, <2>2, <2>3, <2>4 DEF TypeOK, ReInvite, cacheVars, pastVars
<1>14. ASSUME NEW m \in Nodes, Forget(m)
      PROVE  TypeOK'
  <2> DEFINE id == taker[m].id
  <2>1. taker[m] \in Takers /\ taker[m].at = "register"
    BY <1>14 DEF TypeOK, Forget
  <2>2. id \in IDs /\ Alter(m, "forget", id)
    BY <1>14, <2>1, TakerMoves DEF Forget
  <2>3. taker' \in [Nodes -> Takers]
    BY <1>14, <2>1, TakerMoves DEF TypeOK, Forget
  <2>4. /\ dialogs' \in [Nodes -> SUBSET IDs] /\ mu' \in [Nodes -> Held]
        /\ file' \in [Nodes -> (SUBSET IDs) \union {Torn}] /\ unwritten' \in SUBSET Nodes
        /\ emptied' = emptied
    BY <2>2, Altered
  <2>5. dropped' \in SUBSET IDs /\ late' = late
    BY <1>14, <2>2 DEF TypeOK, Forget
  <2> QED BY <1>14, <2>3, <2>4, <2>5 DEF TypeOK, Forget, dialogVars, hangupVars
<1>15. ASSUME NEW n \in Nodes, Crash(n)
      PROVE  TypeOK'
  BY <1>15, BoundsAssumption DEF TypeOK, Held, Takers, Crash, Gone
<1>16. ASSUME NEW n \in Nodes, Restart(n)
      PROVE  TypeOK'
  BY <1>16 DEF TypeOK, Held, Free, Loading, Takers, Idle, TakerSound, Restart, vars,
     cacheVars, dialogVars, hangupVars, pastVars
<1>17. ASSUME NEW n \in Nodes, Shutdown(n)
      PROVE  TypeOK'
  <2>1. range' \in [Nodes -> SUBSET IDs] /\ downs' \in 0..MaxDowns
    BY <1>17, BoundsAssumption DEF TypeOK, Shutdown, Clients, On
  <2> QED BY <1>17, <2>1 DEF TypeOK, Shutdown, cacheVars, dialogVars, pastVars
<1>18. ASSUME NEW n \in Nodes, Hangup(n)
      PROVE  TypeOK'
  <2>1. PICK id \in range[n] :
           /\ range' = [range EXCEPT ![n] = @ \ {id}]
           /\ \/ Ends(id) /\ unheard' = unheard
              \/ unheard' \in {unheard, unheard \union {id}} /\ st' = st /\ due' = due
    BY <1>18 DEF Hangup
  <2>2. id \in IDs
    BY DEF TypeOK
  <2>3. /\ st' \in [IDs -> {"none", "early", "confirmed", "ended", "orphan", "moved"}]
        /\ due' \in [IDs -> SUBSET {"store", "delete"}]
    BY <2>1, <2>2 DEF TypeOK, Ends, Notified
  <2>4. range' \in [Nodes -> SUBSET IDs] /\ unheard' \in SUBSET IDs
    BY <2>1, <2>2 DEF TypeOK
  <2> QED BY <1>18, <2>3, <2>4 DEF TypeOK, Hangup, cacheVars, pastVars
<1>19. ASSUME NEW n \in Nodes, RangeServers(n)
      PROVE  TypeOK'
  <2>1. range' \in [Nodes -> SUBSET IDs]
    BY <1>19 DEF TypeOK, RangeServers, On
  <2> QED BY <1>19, <2>1 DEF TypeOK, RangeServers, cacheVars, dialogVars, pastVars
<1>20. ASSUME NEW n \in Nodes, Exit(n)
      PROVE  TypeOK'
  BY <1>20 DEF TypeOK, Held, Free, Loading, Takers, Idle, TakerSound, Exit, Gone, vars,
     cacheVars, dialogVars, hangupVars, pastVars
<1>21. CASE UNCHANGED vars
  BY <1>21 DEF TypeOK, Held, Free, Loading, Takers, Idle, TakerSound, vars, cacheVars,
     dialogVars, hangupVars, pastVars
<1> QED BY <1>1, <1>2, <1>3, <1>4, <1>5, <1>6, <1>7, <1>8, <1>9, <1>10, <1>11, <1>12,
   <1>13, <1>14, <1>15, <1>16, <1>17, <1>18, <1>19, <1>20, <1>21 DEF Next

\* The processes that end take their dialogs' registrations with them
\* (src/pbx.go:244-281).
LEMMA HomeStep ==
  ASSUME TypeOK, DownIdle, HomeSound, [Next]_vars
  PROVE  HomeSound'
<1> SUFFICES ASSUME NEW id \in IDs
             PROVE  /\ home'[id] \in Nodes =>
                         node'[home'[id]] # "down" /\ st'[id] \in {"early", "confirmed", "ended"}
                    /\ home'[id] \notin Nodes => /\ st'[id] \notin {"early", "confirmed"}
                                                 /\ reg'[id] = "no" /\ due'[id] = {}
  BY DEF HomeSound, Up
<1>1. Moves(id) /\ (home'[id] \in Nodes => node'[home'[id]] # "down")
  BY DialogMoves
<1>2. /\ home[id] \in Nodes => st[id] \in {"early", "confirmed", "ended"}
      /\ home[id] \notin Nodes => /\ st[id] \notin {"early", "confirmed"}
                                  /\ reg[id] = "no" /\ due[id] = {}
  BY DEF HomeSound
<1>3. CASE Stays(id) \/ Begins(id) \/ Confirms(id) \/ Finishes(id)
  BY <1>1, <1>2, <1>3 DEF Stays, Begins, Confirms, Finishes
<1>4. CASE Leaves(id) \/ Registers(id) \/ Loads(id) \/ Handles(id)
  BY <1>1, <1>2, <1>4 DEF Leaves, Registers, Loads, Handles
<1>5. CASE Orphaned(id)
  BY <1>1, <1>2, <1>5, SetsAssumption DEF Orphaned
<1> QED BY <1>1, <1>3, <1>4, <1>5 DEF Moves

\* A callback is called only once it is registered, with a state of the dialog
\* (src/pbx.go:244-281).
LEMMA RegStep ==
  ASSUME TypeOK, DownIdle, HomeSound, RegSound, [Next]_vars
  PROVE  RegSound'
<1> SUFFICES ASSUME NEW id \in IDs
             PROVE  /\ due'[id] # {} => reg'[id] # "no"
                    /\ "delete" \in due'[id] => st'[id] = "ended"
                    /\ st'[id] = "early" => due'[id] = {}
  BY DEF RegSound
<1>1. Moves(id)
  BY DialogMoves
<1>2. /\ due[id] # {} => reg[id] # "no"
      /\ "delete" \in due[id] => st[id] = "ended"
      /\ st[id] = "early" => due[id] = {}
      /\ home[id] = Nobody => due[id] = {}
  BY SetsAssumption DEF RegSound, HomeSound
<1>3. CASE Stays(id) \/ Begins(id) \/ Confirms(id) \/ Finishes(id)
  BY <1>2, <1>3 DEF Stays, Begins, Confirms, Finishes
<1>4. CASE Leaves(id) \/ Registers(id) \/ Loads(id) \/ Handles(id)
  BY <1>2, <1>4 DEF Leaves, Registers, Loads, Handles
<1>5. CASE Orphaned(id)
  BY <1>2, <1>5 DEF Orphaned
<1> QED BY <1>1, <1>3, <1>4, <1>5 DEF Moves

\* A dialog is over after a step.
OverNext(id) == Again(id) \/ st'[id] \in {"orphan", "moved", "ended"}

\* A dialog that is over begins again only under the ID that a takeover gives a
\* call that came in (src/pbx.go:309-366).
LEMMA OverStays ==
  ASSUME TypeOK, DownIdle, HomeSound, [Next]_vars, NEW id \in IDs, Over(id)
  PROVE  OverNext(id)
<1> USE DEF OverNext
<1>1. Moves(id)
  BY DialogMoves
<1>2. CASE Stays(id) \/ Begins(id) \/ Confirms(id) \/ Finishes(id)
  BY <1>2 DEF Over, Stays, Begins, Confirms, Finishes
<1>3. CASE Leaves(id) \/ Registers(id) \/ Loads(id) \/ Handles(id)
  BY <1>3 DEF Over, Leaves, Registers, Loads, Handles
<1>4. CASE Orphaned(id)
  BY <1>4 DEF Over, Orphaned
<1> QED BY <1>1, <1>2, <1>3, <1>4 DEF Moves

\* The operations that wait for a mutex are of dialogs of nodes that are up
\* (src/pbx.go:244-281).
LEMMA HandledAt ==
  ASSUME TypeOK, HomeSound, NEW id \in IDs, Handle(id)
  PROVE  /\ home[id] \in Nodes /\ Up(home[id])
         /\ \E op \in {"store", "delete"} :
              /\ op \in due[id] /\ Alter(home[id], op, id)
              /\ due' = [due EXCEPT ![id] = @ \ {op}]
              /\ late' = IF op = "store" /\ st[id] = "ended" THEN late \union {id} ELSE late
         /\ UNCHANGED <<node, taker, st, home, reg, dropped>>
<1>1. home[id] \in Nodes /\ UNCHANGED <<node, taker, st, home, reg, dropped>>
  BY DEF TypeOK, Handle, dialogVars
<1>2. due[id] \subseteq {"store", "delete"}
  BY DEF TypeOK
<1> QED BY <1>1, <1>2 DEF HomeSound, Handle

\* What Forget does to the cache, and which dialog it is about (src/pbx.go:375).
LEMMA ForgottenAt ==
  ASSUME TypeOK, DownIdle, NEW m \in Nodes, Forget(m)
  PROVE  /\ Up(m) /\ taker[m] \in Takers /\ taker[m].at = "register"
         /\ taker[m].id \in IDs /\ taker[m].new \in IDs
         /\ Alter(m, "forget", taker[m].id)
         /\ taker' = [taker EXCEPT ![m] = IF mu'[m] = Free THEN ToNext(@)
                                          ELSE [@ EXCEPT !.at = "forgetting"]]
         /\ UNCHANGED <<node, st, home, reg, due, late>>
<1>1. taker[m] \in Takers /\ taker[m].at = "register" /\ Up(m)
  BY DEF TypeOK, DownIdle, Forget, Idle
<1>2. taker[m].id \in IDs /\ taker[m].new \in IDs
  BY <1>1, TakerMoves
<1>3. UNCHANGED <<node, st, home, reg, due, late>>
  BY DEF Forget, dialogVars
<1> QED BY <1>1, <1>2, <1>3 DEF Forget

\* A node that is down takes no step but Restart (src/dialog_cache_file.go:35).
LEMMA DownStep ==
  ASSUME TypeOK, DownIdle, HomeSound, [Next]_vars
  PROVE  DownIdle'
<1>1. CASE Quiet
  BY <1>1 DEF DownIdle, Quiet, cacheVars, Up
<1>2. ASSUME NEW id \in IDs, Handle(id)
      PROVE  DownIdle'
  BY <1>2, HandledAt, Altered DEF DownIdle, Up
<1>3. ASSUME NEW n \in Nodes, Dump(n)
      PROVE  DownIdle'
  <2>1. Up(n)
    BY <1>3 DEF Dump, DownIdle, Writing
  <2> QED BY <1>3, <2>1 DEF TypeOK, DownIdle, Dump, Up
<1>4. ASSUME NEW m \in Nodes, TruncateLoaded(m)
      PROVE  DownIdle'
  <2>1. Up(m)
    BY <1>4 DEF DownIdle, TruncateLoaded, Idle
  <2>2. UNCHANGED <<node, dialogs>>
    BY <1>4 DEF TruncateLoaded
  <2>3. \A k \in Nodes \ {m} : taker'[k] = taker[k] /\ mu'[k] = mu[k]
    BY <1>4 DEF TypeOK, TruncateLoaded
  <2> QED BY <2>1, <2>2, <2>3 DEF DownIdle, Up
<1>5. ASSUME NEW m \in Nodes, LeaveTakeover(m)
      PROVE  DownIdle'
  BY <1>5 DEF TypeOK, DownIdle, LeaveTakeover, Up, cacheVars
<1>6. ASSUME NEW m \in Nodes, ReInvite(m)
      PROVE  DownIdle'
  <2>1. UNCHANGED <<node, dialogs, mu>> /\ Up(m) /\ \A k \in Nodes \ {m} : taker'[k] = taker[k]
    BY <1>6 DEF TypeOK, DownIdle, ReInvite, cacheVars, Idle
  <2> QED BY <2>1 DEF DownIdle, Up
<1>7. ASSUME NEW m \in Nodes, Forget(m)
      PROVE  DownIdle'
  <2>1. \A k \in Nodes \ {m} : /\ taker'[k] = taker[k] /\ dialogs'[k] = dialogs[k]
                               /\ mu'[k] = mu[k]
    BY <1>7, ForgottenAt, Altered DEF TypeOK
  <2> QED BY <1>7, <2>1, ForgottenAt DEF DownIdle, Up
<1>8. ASSUME NEW n \in Nodes, Restart(n)
      PROVE  DownIdle'
  BY <1>8 DEF TypeOK, DownIdle, Restart, Up
<1>9. ASSUME NEW n \in Nodes, Gone(n)
      PROVE  DownIdle'
  BY <1>9, NodeGone DEF DownIdle, Up
<1>10. ASSUME NEW m \in Nodes, NEW n \in Nodes, LoadDialogs(m, n)
       PROVE  DownIdle'
  BY <1>10 DEF TypeOK, DownIdle, LoadDialogs, Up
<1> QED BY <1>1, <1>2, <1>3, <1>4, <1>5, <1>6, <1>7, <1>8, <1>9, <1>10, CacheSteps DEF CacheStep

\* The deferred Truncate of LoadDialogs (src/dialog_cache_file.go:85-90).
LEMMA TruncatedAt ==
  ASSUME TypeOK, NEW m \in Nodes, TruncateLoaded(m)
  PROVE  /\ taker[m].at = "truncate" /\ taker[m].from \in Nodes
         /\ \A k \in Nodes \ {m} : taker'[k] = taker[k] /\ mu'[k] = mu[k]
         /\ mu'[m] = Free /\ taker'[m].at = "next" /\ taker'[m].left = taker[m].left
         /\ \/ file' = file /\ emptied' = emptied
            \/ /\ file' = [file EXCEPT ![taker[m].from] = Torn]
               /\ emptied' = IF Up(taker[m].from) THEN emptied \union {taker[m].from}
                             ELSE emptied
         /\ UNCHANGED <<node, dialogs, unwritten, st, home, reg, due, pastVars>>
<1>1. taker[m].at = "truncate" /\ taker[m].from \in Nodes
  BY DEF TypeOK, TruncateLoaded, Takers, Idle
<1>2. /\ \A k \in Nodes \ {m} : taker'[k] = taker[k] /\ mu'[k] = mu[k]
      /\ mu'[m] = Free /\ taker'[m] = [taker[m] EXCEPT !.at = "next"]
  BY DEF TypeOK, TruncateLoaded
<1>3. taker[m] \in [at : {"truncate", "next"}, from : Nodes, left : SUBSET IDs]
  BY <1>1 DEF TypeOK, Takers, Idle
<1>4. taker'[m].at = "next" /\ taker'[m].left = taker[m].left
  BY <1>2, <1>3
<1> QED BY <1>1, <1>2, <1>4 DEF TruncateLoaded, dialogVars

\* The write that ends an operation (src/dialog_cache_file.go:102-127).
LEMMA DumpedAt ==
  ASSUME TypeOK, NEW n \in Nodes, Dump(n)
  PROVE  /\ Writing(n) /\ mu'[n] = Free
         /\ \A k \in Nodes \ {n} : /\ taker'[k] = taker[k] /\ mu'[k] = mu[k]
                                   /\ file'[k] = file[k]
         /\ taker'[n] = IF mu[n].op = "forget" THEN ToNext(taker[n]) ELSE taker[n]
         /\ \/ /\ file'[n] = dialogs[n]
               /\ unwritten' = unwritten \ {n} /\ emptied' = emptied \ {n}
            \/ /\ file' = file
               /\ unwritten' = unwritten \union {n} /\ emptied' = emptied
         /\ UNCHANGED <<node, dialogs, st, home, reg, due, pastVars>>
<1>1. Writing(n) /\ UNCHANGED <<node, dialogs, st, home, reg, due, pastVars>>
  BY DEF Dump, dialogVars
<1>2. /\ mu' = [mu EXCEPT ![n] = Free]
      /\ taker' = [taker EXCEPT ![n] = IF mu[n].op = "forget" THEN ToNext(@) ELSE @]
  BY DEF Dump
<1>3. CASE file' = [file EXCEPT ![n] = dialogs[n]] /\ unwritten' = unwritten \ {n}
           /\ emptied' = emptied \ {n}
  BY <1>1, <1>2, <1>3 DEF TypeOK
<1>4. CASE UNCHANGED <<file, emptied>> /\ unwritten' = unwritten \union {n}
  BY <1>1, <1>2, <1>4 DEF TypeOK
<1> QED BY <1>3, <1>4 DEF Dump

\* What is read is over, if no list grows and no file is written that a takeover
\* may read (src/dialog_cache_file.go:70-127).
LEMMA LeftKept ==
  ASSUME TypeOK, DownIdle, HomeSound, LeftSound, [Next]_vars,
         \A n \in Nodes : taker'[n].left \subseteq taker[n].left,
         \A n \in Nodes : node'[n] = "down" =>
           /\ node[n] = "down"
           /\ file'[n] \in {file[n], Torn}
  PROVE  LeftSound'
<1>1. ASSUME NEW n \in Nodes, NEW id \in taker'[n].left
      PROVE  Over(id)'
  <2>1. id \in IDs /\ Over(id)
    BY <1>1, TakerMoves DEF LeftSound, TypeOK
  <2> QED BY <2>1, OverStays DEF Over, OverNext
<1>2. ASSUME NEW n \in Nodes, node'[n] = "down", NEW id \in Decoded(file'[n])
      PROVE  Over(id)'
  <2>1. id \in Decoded(file[n]) /\ ~Up(n)
    BY <1>2, Decoding DEF Up
  <2>2. id \in IDs /\ Over(id)
    BY <2>1, DecodedType DEF LeftSound
  <2> QED BY <2>2, OverStays DEF Over, OverNext
<1> QED BY <1>1, <1>2 DEF LeftSound, Up, Decoded

\* A takeover reads the files of nodes that are gone (src/pbx.go:284-380).
LEMMA LeftStep ==
  ASSUME TypeOK, DownIdle, HomeSound, LeftSound, NoOrphanFiled, [Next]_vars
  PROVE  LeftSound'
<1>1. CASE Quiet
  BY <1>1, LeftKept DEF Quiet, cacheVars
<1>2. ASSUME NEW id \in IDs, Handle(id)
      PROVE  LeftSound'
  <2>1. \A n \in Nodes : file'[n] \in {file[n], Torn}
    BY <1>2, HandledAt, Altered
  <2> QED BY <1>2, <2>1, HandledAt, LeftKept
<1>3. ASSUME NEW n \in Nodes, Dump(n)
      PROVE  LeftSound'
  <2>1. Up(n) /\ node' = node
    BY <1>3, DumpedAt DEF DownIdle, Writing
  <2>2. \A k \in Nodes : taker'[k].left = taker[k].left
    <3>1. ToNext(taker[n]).left = taker[n].left
      BY DEF ToNext
    <3> QED BY <1>3, <3>1, DumpedAt
  <2> QED BY <1>3, <2>1, <2>2, DumpedAt, LeftKept DEF Up
<1>4. ASSUME NEW m \in Nodes, TruncateLoaded(m)
      PROVE  LeftSound'
  <2>1. \A n \in Nodes : file'[n] \in {file[n], Torn}
    BY <1>4, TruncatedAt DEF TypeOK
  <2>2. \A n \in Nodes : taker'[n].left = taker[n].left
    BY <1>4, TruncatedAt
  <2> QED BY <1>4, <2>1, <2>2, TruncatedAt, LeftKept
<1>5. ASSUME NEW m \in Nodes, LeaveTakeover(m)
      PROVE  LeftSound'
  <2>1. UNCHANGED <<node, file>>
    BY <1>5 DEF LeaveTakeover, cacheVars
  <2>2. \A n \in Nodes : taker'[n].left \subseteq taker[n].left
    BY <1>5 DEF TypeOK, LeaveTakeover, Idle
  <2> QED BY <2>1, <2>2, LeftKept
<1>6. ASSUME NEW m \in Nodes, ReInvite(m)
      PROVE  LeftSound'
  <2>1. UNCHANGED <<node, file>>
    BY <1>6 DEF ReInvite, cacheVars
  <2>2. \A n \in Nodes : taker'[n].left \subseteq taker[n].left
    BY <1>6, ReInvited DEF TypeOK
  <2> QED BY <2>1, <2>2, LeftKept
<1>7. ASSUME NEW m \in Nodes, Forget(m)
      PROVE  LeftSound'
  <2>1. \A n \in Nodes : file'[n] \in {file[n], Torn}
    BY <1>7, ForgottenAt, Altered
  <2>2. \A n \in Nodes : taker'[n].left = taker[n].left
    <3>1. ToNext(taker[m]).left = taker[m].left
      BY DEF ToNext
    <3>2. [taker[m] EXCEPT !.at = "forgetting"].left = taker[m].left
      BY <1>7, ForgottenAt, TakerMoves
    <3>3. taker'[m] \in {ToNext(taker[m]), [taker[m] EXCEPT !.at = "forgetting"]}
      BY <1>7, ForgottenAt DEF TypeOK
    <3>4. \A n \in Nodes \ {m} : taker'[n] = taker[n]
      BY <1>7, ForgottenAt DEF TypeOK
    <3> QED BY <3>1, <3>2, <3>3, <3>4
  <2> QED BY <1>7, <2>1, <2>2, ForgottenAt, LeftKept
<1>8. ASSUME NEW n \in Nodes, Restart(n)
      PROVE  LeftSound'
  BY <1>8, LeftKept DEF TypeOK, Restart
<1>9. ASSUME NEW n \in Nodes, Up(n), Gone(n)
      PROVE  LeftSound'
  <2>1. ASSUME NEW k \in Nodes, NEW id \in taker'[k].left
        PROVE  Over(id)'
    <3>1. k # n /\ id \in taker[k].left
      BY <1>9, <2>1, NodeGone DEF Idle
    <3>2. id \in IDs /\ Over(id)
      BY <3>1, TakerMoves DEF LeftSound, TypeOK
    <3> QED BY <3>2, OverStays DEF Over, OverNext
  <2>2. ASSUME NEW k \in Nodes, node'[k] = "down", NEW id \in Decoded(file'[k])
        PROVE  Over(id)'
    <3>1. id \in Decoded(file[k]) /\ id \in IDs
      BY <1>9, <2>2, NodeGone, DecodedType
    <3>2. CASE k = n
      <4>1. home[id] = n /\ st[id] \in {"early", "confirmed", "ended"}
        BY <1>9, <3>1, <3>2 DEF NoOrphanFiled, HomeSound
      <4> QED BY <1>9, <3>1, <4>1, NodeGone DEF Over
    <3>3. CASE k # n
      <4>1. Over(id)
        BY <1>9, <2>2, <3>1, <3>3, NodeGone DEF LeftSound, Up
      <4> QED BY <3>1, <4>1, OverStays DEF Over, OverNext
    <3> QED BY <3>2, <3>3
  <2> QED BY <2>1, <2>2 DEF LeftSound, Up, Decoded
<1>10. ASSUME NEW m \in Nodes, NEW n \in Nodes, LoadDialogs(m, n)
       PROVE  LeftSound'
  <2>1. /\ ~Up(n) /\ UNCHANGED <<node, file>>
        /\ taker'[m].left = Decoded(file[n]) /\ \A k \in Nodes \ {m} : taker'[k] = taker[k]
    BY <1>10 DEF TypeOK, LoadDialogs
  <2>2. ASSUME NEW id \in IDs, Over(id)
        PROVE  Over(id)'
    BY <2>2, OverStays DEF Over, OverNext
  <2>3. \A k \in Nodes : taker[k].left \in SUBSET IDs /\ Decoded(file[k]) \in SUBSET IDs
    BY TakerMoves, DecodedType DEF TypeOK
  <2> QED BY <2>1, <2>2, <2>3 DEF LeftSound, Up, Decoded
<1> QED BY <1>1, <1>2, <1>3, <1>4, <1>5, <1>6, <1>7, <1>8, <1>9, <1>10, CacheSteps DEF CacheStep

\* A takeover that goes on, or is gone, registers the dialog that it has made
\* (src/pbx.go:345-377).
LEMMA TakerKept ==
  ASSUME TypeOK, DownIdle, HomeSound, TakerSound, [Next]_vars, NEW m \in Nodes,
         \/ /\ taker'[m] = taker[m]
            /\ mu'[m] = mu[m] \/ (mu[m] # Loading /\ mu'[m].op # "forget")
         \/ /\ taker'[m].at = "truncate" => mu'[m] = Loading
            /\ mu'[m].op = "forget" => taker'[m].at = "forgetting"
            /\ taker'[m].at # "register"
  PROVE  LET id == taker'[m].id
             new == taker'[m].new
         IN  /\ taker'[m].at = "truncate" => mu'[m] = Loading
             /\ mu'[m].op = "forget" => taker'[m].at = "forgetting"
             /\ taker'[m].at = "register" =>
                  /\ home'[new] = m /\ st'[new] \in {"confirmed", "ended"}
                  /\ new # id => OverNext(id) /\ ~Again(id)
<1> DEFINE id == taker[m].id
           new == taker[m].new
<1>1. /\ taker'[m].at = "truncate" => mu'[m] = Loading
      /\ mu'[m].op = "forget" => taker'[m].at = "forgetting"
  BY DEF TakerSound, Free, Loading
<1>2. ASSUME taker'[m].at = "register"
      PROVE  /\ taker'[m] = taker[m]
             /\ home'[new] = m /\ st'[new] \in {"confirmed", "ended"}
             /\ new # id => OverNext(id) /\ ~Again(id)
  <2>1. taker'[m] = taker[m]
    BY <1>2
  <2>2. id \in IDs /\ new \in IDs
    BY <1>2, <2>1, TakerMoves DEF TypeOK
  <2>3. /\ home[new] = m /\ st[new] \in {"confirmed", "ended"}
        /\ new # id => Over(id) /\ ~Again(id)
    BY <1>2, <2>1 DEF TakerSound
  <2>4. ~Orphaned(new)
    BY <1>2, <2>3, NodeGone DEF Orphaned, Idle
  <2>5. home'[new] = m /\ st'[new] \in {"confirmed", "ended"}
    <3>1. Moves(new)
      BY <2>2, DialogMoves
    <3>2. CASE Stays(new) \/ Begins(new) \/ Confirms(new) \/ Finishes(new)
      BY <2>3, <3>2, SetsAssumption DEF Stays, Begins, Confirms, Finishes
    <3>3. CASE Leaves(new) \/ Registers(new) \/ Loads(new) \/ Handles(new)
      BY <2>3, <3>3 DEF Leaves, Registers, Loads, Handles
    <3> QED BY <2>4, <3>1, <3>2, <3>3 DEF Moves
  <2>6. new # id => OverNext(id)
    BY <2>2, <2>3, OverStays
  <2> QED BY <2>1, <2>3, <2>5, <2>6
<1> QED BY <1>1, <1>2

\* The mutex is held from LoadDialogs to its Truncate, and for each operation
\* (src/dialog_cache_file.go:48-100).
LEMMA TakerStep ==
  ASSUME TypeOK, DownIdle, HomeSound, LeftSound, TakerSound, [Next]_vars
  PROVE  TakerSound'
<1> DEFINE Sound(m) ==
             LET id == taker'[m].id
                 new == taker'[m].new
             IN  /\ taker'[m].at = "truncate" => mu'[m] = Loading
                 /\ mu'[m].op = "forget" => taker'[m].at = "forgetting"
                 /\ taker'[m].at = "register" =>
                      /\ home'[new] = m /\ st'[new] \in {"confirmed", "ended"}
                      /\ new # id => OverNext(id) /\ ~Again(id)
           Same(m) == /\ taker'[m] = taker[m]
                      /\ mu'[m] = mu[m] \/ (mu[m] # Loading /\ mu'[m].op # "forget")
           Settles(m) == /\ taker'[m].at = "truncate" => mu'[m] = Loading
                         /\ mu'[m].op = "forget" => taker'[m].at = "forgetting"
                         /\ taker'[m].at # "register"
<1> SUFFICES \A m \in Nodes : Sound(m)
  BY DEF TakerSound, Over, OverNext
<1>0. ASSUME \A m \in Nodes : Same(m) \/ Settles(m)
      PROVE  \A m \in Nodes : Sound(m)
  BY <1>0, TakerKept
<1> HIDE DEF Sound
<1>1. CASE Quiet
  BY <1>0, <1>1 DEF Quiet, cacheVars
<1>2. ASSUME NEW id \in IDs, Handle(id)
      PROVE  \A m \in Nodes : Sound(m)
  <2>1. \A m \in Nodes : mu'[m] = mu[m] \/ (mu[m] # Loading /\ mu'[m].op # "forget")
    BY <1>2, HandledAt, Altered DEF Free, Loading
  <2> QED BY <1>0, <1>2, <2>1, HandledAt
<1>3. ASSUME NEW n \in Nodes, Dump(n)
      PROVE  \A m \in Nodes : Sound(m)
  <2>1. CASE mu[n].op = "forget"
    <3>1. taker'[n] = ToNext(taker[n]) /\ mu'[n] = Free
      BY <1>3, <2>1, DumpedAt
    <3>2. Settles(n)
      BY <3>1 DEF ToNext, Free
    <3>3. \A m \in Nodes \ {n} : Same(m)
      BY <1>3, DumpedAt
    <3> QED BY <1>0, <3>2, <3>3
  <2>2. CASE mu[n].op # "forget"
    <3>1. \A m \in Nodes : Same(m)
      BY <1>3, <2>2, DumpedAt DEF Writing, Free
    <3> QED BY <1>0, <3>1
  <2> QED BY <2>1, <2>2
<1>4. ASSUME NEW m \in Nodes, TruncateLoaded(m)
      PROVE  \A k \in Nodes : Sound(k)
  BY <1>0, <1>4, TruncatedAt DEF Free
<1>5. ASSUME NEW m \in Nodes, LeaveTakeover(m)
      PROVE  \A k \in Nodes : Sound(k)
  <2>1. Settles(m) /\ \A k \in Nodes \ {m} : Same(k)
    BY <1>5 DEF TypeOK, TakerSound, LeaveTakeover, cacheVars, Idle
  <2> QED BY <1>0, <2>1
<1>6. ASSUME NEW m \in Nodes, ReInvite(m)
      PROVE  \A k \in Nodes : Sound(k)
  <2>1. PICK id \in taker[m].left, new \in IDs :
          /\ id \in IDs /\ home[new] = Nobody
          /\ new # id => ~Again(id)
          /\ st'[new] = "confirmed"
          /\ home' = [home EXCEPT ![new] = m]
          /\ taker' = [taker EXCEPT ![m] =
               [at |-> "register", from |-> taker[m].from,
                left |-> taker[m].left \ {id}, id |-> id, new |-> new]]
    BY <1>6, ReInvited
  <2>2. mu' = mu /\ mu[m].op # "forget"
    BY <1>6 DEF ReInvite, cacheVars, TakerSound
  <2>3. OverNext(id)
    BY <2>1, OverStays DEF LeftSound
  <2>4. taker'[m] = [at |-> "register", from |-> taker[m].from,
                     left |-> taker[m].left \ {id}, id |-> id, new |-> new]
    BY <2>1 DEF TypeOK
  <2>5. home'[new] = m
    BY <2>1 DEF TypeOK
  <2>6. Sound(m)
    BY <2>1, <2>2, <2>3, <2>4, <2>5 DEF Sound
  <2>7. \A k \in Nodes \ {m} : Same(k)
    BY <2>1, <2>2 DEF TypeOK
  <2>8. \A k \in Nodes \ {m} : Sound(k)
    BY <2>7, TakerKept DEF Sound
  <2> QED BY <2>6, <2>8
<1>7. ASSUME NEW m \in Nodes, Forget(m)
      PROVE  \A k \in Nodes : Sound(k)
  <2>1. /\ mu'[m] \in {Free, [op |-> "forget", id |-> taker[m].id]}
        /\ \A k \in Nodes \ {m} : mu'[k] = mu[k]
    BY <1>7, ForgottenAt, Altered
  <2>2. \A k \in Nodes \ {m} : taker'[k] = taker[k]
    BY <1>7, ForgottenAt DEF TypeOK
  <2>3. CASE mu'[m] = Free
    <3>1. taker'[m] = ToNext(taker[m])
      BY <1>7, <2>3, ForgottenAt DEF TypeOK
    <3> QED BY <1>0, <2>1, <2>2, <2>3, <3>1 DEF ToNext, Free
  <2>4. CASE mu'[m] # Free
    <3>1. taker'[m] = [taker[m] EXCEPT !.at = "forgetting"]
      BY <1>7, <2>4, ForgottenAt DEF TypeOK
    <3>2. taker'[m].at = "forgetting"
      BY <1>7, <3>1, ForgottenAt DEF Takers, Idle
    <3> QED BY <1>0, <2>1, <2>2, <3>2
  <2> QED BY <2>3, <2>4
<1>8. ASSUME NEW n \in Nodes, Restart(n)
      PROVE  \A m \in Nodes : Sound(m)
  BY <1>0, <1>8 DEF Restart
<1>9. ASSUME NEW n \in Nodes, Gone(n)
      PROVE  \A m \in Nodes : Sound(m)
  BY <1>0, <1>9, NodeGone DEF Idle, Free
<1>10. ASSUME NEW m \in Nodes, NEW n \in Nodes, LoadDialogs(m, n)
       PROVE  \A k \in Nodes : Sound(k)
  BY <1>0, <1>10 DEF TypeOK, LoadDialogs, Loading
<1> QED BY <1>1, <1>2, <1>3, <1>4, <1>5, <1>6, <1>7, <1>8, <1>9, <1>10, CacheSteps DEF CacheStep

\* A file is empty or behind only while a write or a Truncate is not made up for
\* (src/dialog_cache_file.go:90-127).
LEMMA FileStep ==
  ASSUME TypeOK, DownIdle, HomeSound, TakerSound, FileSound, [Next]_vars
  PROVE  FileSound'
<1>0. /\ \A ids \in SUBSET IDs : Decoded(ids) = ids
      /\ Decoded(Torn) = {} /\ Loading # Free
  BY Decoding DEF Loading, Free
<1>1. CASE Quiet
  BY <1>1 DEF FileSound, Quiet, cacheVars, Writing, Up, Decoded
<1>2. ASSUME NEW n \in Nodes, NEW op \in {"store", "delete", "forget"}, NEW id \in IDs,
             Alter(n, op, id), node' = node
      PROVE  FileSound'
  <2>1. [op |-> op, id |-> id] \notin {Free, Loading}
    BY DEF Free, Loading
  <2>2. /\ mu[n] = Free
        /\ \A k \in Nodes \ {n} : /\ dialogs'[k] = dialogs[k] /\ file'[k] = file[k]
                                   /\ mu'[k] = mu[k]
        /\ mu'[n] \in {Free, [op |-> op, id |-> id]}
        /\ mu'[n] = Free => unwritten' = unwritten \union {n} /\ file'[n] = file[n]
        /\ mu'[n] # Free => file'[n] = Torn /\ unwritten' = unwritten
        /\ emptied' = emptied
    BY <1>2, Altered
  <2>3. \A k \in Nodes : k \in unwritten => k \in unwritten'
    BY <2>2
  <2> QED BY <1>0, <1>2, <2>1, <2>2, <2>3 DEF FileSound, Writing, Up, Decoded
<1>3. ASSUME NEW n \in Nodes, Dump(n)
      PROVE  FileSound'
  <2>1. dialogs[n] \in SUBSET IDs
    BY DEF TypeOK
  <2>2. ASSUME NEW k \in Nodes, Up(k)
        PROVE  /\ Writing(k)' => file'[k] = Torn
               /\ k \in emptied' => Decoded(file'[k]) = {}
               /\ ~Writing(k)' /\ k \notin unwritten' \union emptied' =>
                    Decoded(file'[k]) = dialogs[k]
    <3>1. /\ Writing(k) => file[k] = Torn
          /\ k \in emptied => Decoded(file[k]) = {}
          /\ ~Writing(k) /\ k \notin unwritten \union emptied => Decoded(file[k]) = dialogs[k]
      BY <2>2 DEF FileSound
    <3>2. CASE k = n
      <4>1. ~Writing(k)'
        BY <1>3, <3>2, DumpedAt DEF Writing
      <4> QED BY <1>0, <1>3, <2>1, <3>1, <3>2, <4>1, DumpedAt
    <3>3. CASE k # n
      <4>1. Writing(k)' <=> Writing(k)
        BY <1>3, <3>3, DumpedAt DEF Writing
      <4> QED BY <1>3, <3>1, <3>3, <4>1, DumpedAt
    <3> QED BY <3>2, <3>3
  <2>3. UNCHANGED <<node, dialogs>>
    BY <1>3, DumpedAt
  <2> QED BY <2>2, <2>3 DEF FileSound, Up, Decoded
<1>4. ASSUME NEW m \in Nodes, TruncateLoaded(m)
      PROVE  FileSound'
  <2>1. mu[m] = Loading
    BY <1>4, TruncatedAt DEF TakerSound
  <2>2. \A k \in Nodes : Writing(k)' <=> Writing(k)
    BY <1>4, <2>1, TruncatedAt DEF Writing
  <2>3. \A k \in Nodes : file'[k] = file[k] \/ (file'[k] = Torn /\ (Up(k) => k \in emptied'))
    BY <1>4, TruncatedAt DEF TypeOK
  <2>4. \A k \in Nodes : k \in emptied' => k \in emptied \/ file'[k] = Torn
    BY <1>4, TruncatedAt DEF TypeOK
  <2>5. emptied \subseteq emptied' /\ UNCHANGED <<node, dialogs, unwritten>>
    BY <1>4, TruncatedAt
  <2> QED BY <1>0, <2>2, <2>3, <2>4, <2>5 DEF FileSound, Up, Decoded
<1>5. ASSUME NEW m \in Nodes, LeaveTakeover(m) \/ ReInvite(m)
      PROVE  FileSound'
  <2>1. UNCHANGED <<node, cacheVars>>
    BY <1>5 DEF LeaveTakeover, ReInvite
  <2> QED BY <2>1 DEF FileSound, cacheVars, Writing, Up, Decoded
<1>6. ASSUME NEW n \in Nodes, Restart(n)
      PROVE  FileSound'
  <2>1. dialogs[n] = {} /\ mu[n] = Free
    BY <1>6 DEF DownIdle, Restart
  <2> QED BY <1>0, <1>6, <2>1 DEF TypeOK, FileSound, Restart, Writing, Up, Decoded
<1>7. ASSUME NEW n \in Nodes, Gone(n)
      PROVE  FileSound'
  <2>1. unwritten' = unwritten \ {n} /\ emptied' = emptied \ {n}
    BY <1>7 DEF Gone
  <2> QED BY <1>7, <2>1, NodeGone DEF FileSound, Writing, Up, Decoded
<1>8. ASSUME NEW m \in Nodes, NEW n \in Nodes, LoadDialogs(m, n)
      PROVE  FileSound'
  <2>1. /\ mu[m] = Free /\ mu'[m] = Loading /\ \A k \in Nodes \ {m} : mu'[k] = mu[k]
        /\ UNCHANGED <<node, dialogs, file, unwritten, emptied>>
    BY <1>8 DEF TypeOK, LoadDialogs
  <2> QED BY <1>0, <2>1 DEF FileSound, Writing, Up, Decoded
<1>9. ASSUME NEW id \in IDs, Handle(id)
      PROVE  FileSound'
  BY <1>2, <1>9, HandledAt
<1>10. ASSUME NEW m \in Nodes, Forget(m)
       PROVE  FileSound'
  BY <1>2, <1>10, ForgottenAt
<1> QED BY <1>1, <1>3, <1>4, <1>5, <1>6, <1>7, <1>8, <1>9, <1>10, CacheSteps DEF CacheStep

\* A node that is up has written only dialogs of its own to its file
\* (src/dialog_cache_file.go:35-127).
LEMMA FiledStep ==
  ASSUME TypeOK, DownIdle, HomeSound, Ghosts, NoOrphanFiled, [Next]_vars
  PROVE  NoOrphanFiled'
<1> DEFINE Kept == \A n \in Nodes : node'[n] # "down" =>
                     \/ file'[n] = Torn
                     \/ Up(n) /\ file'[n] \in {file[n], dialogs[n]}
<1>1. ASSUME Kept
      PROVE  NoOrphanFiled'
  <2> SUFFICES ASSUME NEW n \in Nodes, node'[n] # "down", NEW id \in Decoded(file'[n])
               PROVE  home'[id] = n
    BY DEF NoOrphanFiled, Up, Decoded
  <2>1. Up(n) /\ file'[n] \in {file[n], dialogs[n]}
    BY <1>1, Decoding
  <2>2. dialogs[n] \in SUBSET IDs /\ Decoded(dialogs[n]) = dialogs[n]
    BY Decoding DEF TypeOK
  <2>3. id \in IDs /\ home[id] = n
    BY <2>1, <2>2, DecodedType DEF NoOrphanFiled, Ghosts
  <2>4. ~Orphaned(id)
    BY <2>3, NodeGone DEF Orphaned
  <2>5. Moves(id)
    BY <2>3, DialogMoves
  <2> QED BY <2>3, <2>4, <2>5, SetsAssumption DEF Moves, Stays, Begins, Confirms,
             Finishes, Leaves, Registers, Loads, Handles
<1>2. CASE Quiet
  BY <1>1, <1>2 DEF Quiet, cacheVars, Up
<1>3. ASSUME NEW id \in IDs, Handle(id)
      PROVE  NoOrphanFiled'
  <2>1. \A n \in Nodes : file'[n] \in {file[n], Torn}
    BY <1>3, HandledAt, Altered
  <2> QED BY <1>1, <1>3, <2>1, HandledAt DEF Up
<1>4. ASSUME NEW n \in Nodes, Dump(n)
      PROVE  NoOrphanFiled'
  BY <1>1, <1>4, DumpedAt DEF Up
<1>5. ASSUME NEW m \in Nodes, TruncateLoaded(m)
      PROVE  NoOrphanFiled'
  <2>1. \A n \in Nodes : file'[n] \in {file[n], Torn}
    BY <1>5, TruncatedAt DEF TypeOK
  <2> QED BY <1>1, <1>5, <2>1, TruncatedAt DEF Up
<1>6. ASSUME NEW m \in Nodes, LeaveTakeover(m) \/ ReInvite(m)
      PROVE  NoOrphanFiled'
  <2>1. UNCHANGED <<node, file>>
    BY <1>6 DEF LeaveTakeover, ReInvite, cacheVars
  <2> QED BY <1>1, <2>1 DEF Up
<1>7. ASSUME NEW m \in Nodes, Forget(m)
      PROVE  NoOrphanFiled'
  <2>1. \A n \in Nodes : file'[n] \in {file[n], Torn}
    BY <1>7, ForgottenAt, Altered
  <2> QED BY <1>1, <1>7, <2>1, ForgottenAt DEF Up
<1>8. ASSUME NEW n \in Nodes, Restart(n)
      PROVE  NoOrphanFiled'
  BY <1>1, <1>8 DEF TypeOK, Restart, Up
<1>9. ASSUME NEW n \in Nodes, Gone(n)
      PROVE  NoOrphanFiled'
  BY <1>1, <1>9, NodeGone DEF Up
<1>10. ASSUME NEW m \in Nodes, NEW n \in Nodes, LoadDialogs(m, n)
       PROVE  NoOrphanFiled'
  BY <1>1, <1>10 DEF LoadDialogs, Up
<1> QED BY <1>2, <1>3, <1>4, <1>5, <1>6, <1>7, <1>8, <1>9, <1>10, CacheSteps DEF CacheStep

\* The operations of the callbacks and of a takeover alone change what is cached
\* (src/dialog_cache_file.go:48-68).
LEMMA CacheKept ==
  ASSUME TypeOK, [Next]_vars,
         \A id \in IDs : ~Handle(id),
         \A n \in Nodes : ~Forget(n) /\ ~Gone(n)
  PROVE  UNCHANGED <<dialogs, dropped, late>>
<1>1. CASE Quiet
  BY <1>1 DEF Quiet, cacheVars, pastVars
<1>2. ASSUME NEW n \in Nodes, Dump(n) \/ TruncateLoaded(n) \/ LeaveTakeover(n)
      PROVE  UNCHANGED <<dialogs, dropped, late>>
  BY <1>2 DEF Dump, TruncateLoaded, LeaveTakeover, cacheVars, pastVars
<1>3. ASSUME NEW n \in Nodes, ReInvite(n) \/ Restart(n)
      PROVE  UNCHANGED <<dialogs, dropped, late>>
  BY <1>3 DEF ReInvite, Restart, cacheVars, pastVars
<1>4. ASSUME NEW m \in Nodes, NEW n \in Nodes, LoadDialogs(m, n)
      PROVE  UNCHANGED <<dialogs, dropped, late>>
  BY <1>4 DEF LoadDialogs, pastVars
<1> QED BY <1>1, <1>2, <1>3, <1>4, CacheSteps DEF CacheStep

\* The callback stores what is answered, and nothing else makes a dialog an answered
\* one (src/pbx.go:244-281).
LEMMA CachedKept ==
  ASSUME TypeOK, DownIdle, HomeSound, Cached, [Next]_vars, NEW id \in IDs,
         ~Handle(id), \A n \in Nodes : ~Gone(n),
         home[id] \in Nodes => (id \in dialogs'[home[id]] <=> id \in dialogs[home[id]]),
         id \in dropped' <=> id \in dropped
  PROVE  /\ st'[id] = "confirmed" /\ reg'[id] = "yes" /\ "store" \notin due'[id]
              => id \in dropped' \/ id \in dialogs'[home'[id]]
         /\ id \in dropped' => /\ home'[id] \in Nodes /\ id \notin dialogs'[home'[id]]
                               /\ st'[id] \in {"confirmed", "ended"}
                               /\ reg'[id] = "yes" /\ "store" \notin due'[id]
<1>1. /\ st[id] = "confirmed" /\ reg[id] = "yes" /\ "store" \notin due[id]
           => id \in dropped \/ id \in dialogs[home[id]]
      /\ id \in dropped => /\ home[id] \in Nodes /\ id \notin dialogs[home[id]]
                           /\ st[id] \in {"confirmed", "ended"}
                           /\ reg[id] = "yes" /\ "store" \notin due[id]
      /\ home[id] \in Nodes => st[id] \in {"early", "confirmed", "ended"}
      /\ home[id] \notin Nodes => st[id] \notin {"early", "confirmed"} /\ reg[id] = "no"
  BY DEF Cached, HomeSound
<1>2. Moves(id) /\ ~Handles(id) /\ ~Orphaned(id)
  BY DialogMoves DEF Handles, Orphaned
<1>3. CASE Stays(id)
  BY <1>1, <1>3 DEF Stays
<1>4. CASE Begins(id)
  BY <1>1, <1>4, SetsAssumption DEF Begins
<1>5. CASE Confirms(id) \/ Finishes(id)
  BY <1>1, <1>5 DEF Confirms, Finishes
<1>6. CASE Leaves(id) \/ Registers(id)
  BY <1>1, <1>6 DEF Leaves, Registers
<1>7. CASE Loads(id)
  BY <1>1, <1>7 DEF Loads
<1> QED BY <1>2, <1>3, <1>4, <1>5, <1>6, <1>7 DEF Moves

\* What is answered is stored, or the takeover that made it has dropped it
\* (src/pbx.go:244-281, 375).
LEMMA CachedStep ==
  ASSUME TypeOK, DownIdle, HomeSound, RegSound, TakerSound, Cached, [Next]_vars
  PROVE  Cached'
<1> DEFINE Sound(id) ==
      /\ st'[id] = "confirmed" /\ reg'[id] = "yes" /\ "store" \notin due'[id]
           => id \in dropped' \/ id \in dialogs'[home'[id]]
      /\ id \in dropped' => /\ home'[id] \in Nodes /\ id \notin dialogs'[home'[id]]
                            /\ st'[id] \in {"confirmed", "ended"}
                            /\ reg'[id] = "yes" /\ "store" \notin due'[id]
<1> SUFFICES ASSUME NEW id \in IDs PROVE Sound(id)
  BY DEF Cached
<1>1. /\ st[id] = "confirmed" /\ reg[id] = "yes" /\ "store" \notin due[id]
           => id \in dropped \/ id \in dialogs[home[id]]
      /\ id \in dropped => /\ home[id] \in Nodes /\ id \notin dialogs[home[id]]
                           /\ st[id] \in {"confirmed", "ended"}
                           /\ reg[id] = "yes" /\ "store" \notin due[id]
  BY DEF Cached
<1>2. CASE \E i \in IDs : Handle(i)
  <2>1. PICK i \in IDs : Handle(i)
    BY <1>2
  <2>2. PICK op \in {"store", "delete"} :
          op \in due[i] /\ Alter(home[i], op, i) /\ due' = [due EXCEPT ![i] = @ \ {op}]
    BY <2>1, HandledAt
  <2>3. home[i] \in Nodes /\ UNCHANGED <<st, home, reg, dropped>>
    BY <2>1, HandledAt
  <2>4. /\ \A k \in Nodes \ {home[i]} : dialogs'[k] = dialogs[k]
        /\ op = "store" => dialogs'[home[i]] = dialogs[home[i]] \union {i}
        /\ op # "store" => dialogs'[home[i]] = dialogs[home[i]] \ {i}
    BY <2>2, <2>3, Altered
  <2>5. CASE id = i
    <3>1. op = "delete" => st[i] = "ended"
      BY <2>2 DEF RegSound
    <3> QED BY <1>1, <2>2, <2>3, <2>4, <2>5, <3>1 DEF TypeOK
  <2>6. CASE id # i
    <3>1. due'[id] = due[id]
      BY <2>2, <2>6 DEF TypeOK
    <3>2. home[id] \in Nodes => (id \in dialogs'[home[id]] <=> id \in dialogs[home[id]])
      BY <2>3, <2>4, <2>6
    <3>3. st[id] = "confirmed" => home[id] \in Nodes
      BY DEF HomeSound
    <3> QED BY <1>1, <2>3, <3>1, <3>2, <3>3
  <2> QED BY <2>5, <2>6
<1>3. CASE \E n \in Nodes : Gone(n)
  <2>1. PICK n \in Nodes : Gone(n)
    BY <1>3
  <2>2. CASE home[id] = n
    BY <2>1, <2>2, NodeGone
  <2>3. CASE home[id] # n
    <3>1. /\ st'[id] = st[id] /\ reg'[id] = reg[id] /\ due'[id] = due[id]
          /\ home'[id] = home[id]
          /\ id \in dropped' <=> id \in dropped
          /\ home[id] \in Nodes => dialogs'[home[id]] = dialogs[home[id]]
      BY <2>1, <2>3, NodeGone
    <3>2. st[id] = "confirmed" => home[id] \in Nodes
      BY DEF HomeSound
    <3> QED BY <1>1, <3>1, <3>2
  <2> QED BY <2>2, <2>3
<1>4. CASE \E m \in Nodes : Forget(m)
  <2>1. PICK m \in Nodes : Forget(m)
    BY <1>4
  <2> DEFINE old == taker[m].id
             new == taker[m].new
  <2>2. /\ old \in IDs /\ new \in IDs /\ UNCHANGED <<st, home, reg, due>>
        /\ taker[m].at = "register"
    BY <2>1, ForgottenAt
  <2>3. /\ \A k \in Nodes \ {m} : dialogs'[k] = dialogs[k]
        /\ dialogs'[m] = dialogs[m] \ {old}
    BY <2>1, ForgottenAt, Altered
  <2>4. /\ reg[new] = "yes" /\ "store" \notin due[new]
        /\ dropped' = IF new = old THEN dropped \union {old} ELSE dropped
    BY <2>1 DEF Forget
  <2>5. /\ home[new] = m /\ st[new] \in {"confirmed", "ended"}
        /\ new # old => st[old] # "confirmed"
    <3>1. /\ home[new] = m /\ st[new] \in {"confirmed", "ended"}
          /\ new # old => Over(old) /\ ~Again(old)
      BY <2>2 DEF TakerSound
    <3> QED BY <3>1 DEF Over
  <2>6. CASE id = old
    BY <1>1, <2>2, <2>3, <2>4, <2>5, <2>6
  <2>7. CASE id # old
    <3>1. home[id] \in Nodes => (id \in dialogs'[home[id]] <=> id \in dialogs[home[id]])
      BY <2>3, <2>7
    <3>2. st[id] = "confirmed" => home[id] \in Nodes
      BY DEF HomeSound
    <3> QED BY <1>1, <2>2, <2>4, <2>7, <3>1, <3>2
  <2> QED BY <2>6, <2>7
<1>5. CASE /\ \A i \in IDs : ~Handle(i)
           /\ \A n \in Nodes : ~Forget(n) /\ ~Gone(n)
  <2>1. UNCHANGED <<dialogs, dropped>>
    BY <1>5, CacheKept
  <2> QED BY <1>5, <2>1, CachedKept
<1> QED BY <1>2, <1>3, <1>4, <1>5

\* What is over is stored by a callback that is late only, and a node has no dialog
\* of another (src/pbx.go:244-281).
LEMMA GhostsStep ==
  ASSUME TypeOK, DownIdle, HomeSound, RegSound, Ghosts, [Next]_vars
  PROVE  Ghosts'
<1> SUFFICES ASSUME NEW n \in Nodes, NEW id \in dialogs'[n]
             PROVE  /\ home'[id] = n /\ reg'[id] # "no"
                    /\ \/ st'[id] = "confirmed"
                       \/ st'[id] = "ended" /\ ("delete" \in due'[id] \/ id \in late')
  BY DEF Ghosts
<1>1. ASSUME id \in dialogs[n]
      PROVE  /\ id \in IDs /\ home[id] = n /\ reg[id] # "no"
             /\ \/ st[id] = "confirmed"
                \/ st[id] = "ended" /\ ("delete" \in due[id] \/ id \in late)
  BY <1>1 DEF TypeOK, Ghosts
<1>2. CASE \E i \in IDs : Handle(i)
  <2>1. PICK i \in IDs : Handle(i)
    BY <1>2
  <2>2. PICK op \in {"store", "delete"} :
          /\ op \in due[i] /\ Alter(home[i], op, i) /\ due' = [due EXCEPT ![i] = @ \ {op}]
          /\ late' = IF op = "store" /\ st[i] = "ended" THEN late \union {i} ELSE late
    BY <2>1, HandledAt
  <2>3. home[i] \in Nodes /\ UNCHANGED <<st, home, reg>>
    BY <2>1, HandledAt
  <2>4. /\ \A k \in Nodes \ {home[i]} : dialogs'[k] = dialogs[k]
        /\ op = "store" => dialogs'[home[i]] = dialogs[home[i]] \union {i}
        /\ op # "store" => dialogs'[home[i]] = dialogs[home[i]] \ {i}
    BY <2>2, <2>3, Altered
  <2>5. CASE id = i
    <3>1. reg[i] # "no" /\ st[i] # "early" /\ st[i] \in {"early", "confirmed", "ended"}
      BY <2>2, <2>3 DEF RegSound, HomeSound
    <3>2. CASE op = "store"
      <4>1. n = home[i]
        BY <1>1, <2>4, <2>5
      <4> QED BY <2>2, <2>3, <2>5, <3>1, <3>2, <4>1
    <3>3. CASE op = "delete"
      BY <1>1, <2>4, <2>5, <3>3
    <3> QED BY <3>2, <3>3
  <2>6. CASE id # i
    <3>1. id \in dialogs[n]
      BY <2>4, <2>6
    <3>2. due'[id] = due[id]
      BY <1>1, <2>2, <2>6, <3>1 DEF TypeOK
    <3>3. id \in late => id \in late'
      BY <2>2
    <3> QED BY <1>1, <2>3, <3>1, <3>2, <3>3
  <2> QED BY <2>5, <2>6
<1>3. CASE \E k \in Nodes : Gone(k)
  <2>1. PICK k \in Nodes : Gone(k)
    BY <1>3
  <2>2. n # k /\ id \in dialogs[n]
    BY <2>1, NodeGone
  <2> QED BY <1>1, <2>1, <2>2, NodeGone
<1>4. CASE /\ \A i \in IDs : ~Handle(i)
           /\ \A k \in Nodes : ~Gone(k)
  <2>1. id \in dialogs[n] /\ late' = late
    <3>1. CASE \E m \in Nodes : Forget(m)
      BY <3>1, ForgottenAt, Altered
    <3>2. CASE \A m \in Nodes : ~Forget(m)
      BY <1>4, <3>2, CacheKept
    <3> QED BY <3>1, <3>2
  <2>2. Moves(id) /\ ~Handles(id) /\ ~Orphaned(id)
    BY <1>1, <1>4, <2>1, DialogMoves DEF Handles, Orphaned
  <2>3. CASE Stays(id) \/ Begins(id) \/ Confirms(id) \/ Finishes(id)
    BY <1>1, <2>1, <2>3, SetsAssumption DEF Stays, Begins, Confirms, Finishes
  <2>4. CASE Leaves(id) \/ Registers(id) \/ Loads(id)
    BY <1>1, <2>1, <2>4 DEF Leaves, Registers, Loads
  <2> QED BY <2>2, <2>3, <2>4 DEF Moves
<1> QED BY <1>2, <1>3, <1>4

\* What Serve has yet to hang up, if a dialog that appears is visited or is new
\* (src/pbx.go:55-74).
LEMMA HangsKept ==
  ASSUME HangsUp,
         \A n \in Nodes : node'[n] \in {node[n], "up", "down"},
         \A n \in Nodes : \A id \in IDs :
           (home'[id] = n /\ st'[id] \in {"early", "confirmed"}
              /\ node'[n] \in {"clients", "servers"})
           => \/ id \in range'[n] \union unheard' \union newcomers'
              \/ /\ home[id] = n /\ st[id] \in {"early", "confirmed"}
                 /\ id \notin range[n] \union unheard \union newcomers
  PROVE  HangsUp'
<1> DEFINE Visited(n) == range[n] \union unheard \union newcomers
<1> SUFFICES ASSUME NEW n \in Nodes, NEW id \in IDs,
                    home'[id] = n, st'[id] \in {"early", "confirmed"},
                    \/ node'[n] = "servers"
                    \/ node'[n] = "clients" /\ (id[1] \in Outgoing \/ id[2] > 0)
             PROVE  id \in range'[n] \union unheard' \union newcomers'
  BY DEF HangsUp, Clients, On
<1>1. node'[n] = node[n]
  OBVIOUS
<1>2. ASSUME home[id] = n, st[id] \in {"early", "confirmed"}
      PROVE  id \in Visited(n)
  BY <1>1, <1>2 DEF HangsUp, Clients, On
<1> QED BY <1>2

\* Serve hangs up what it has not lost and what is not new
\* (src/pbx.go:55-74).
LEMMA HangsUpStep ==
  ASSUME TypeOK, HangsUp, [Next]_vars
  PROVE  HangsUp'
<1>0. ASSUME UNCHANGED <<home, hangupVars>>,
             \A n \in Nodes : node'[n] \in {node[n], "up"},
             \A id \in IDs : st'[id] \in {"early", "confirmed"} =>
                               st[id] \in {"early", "confirmed"}
      PROVE  HangsUp'
  BY <1>0, HangsKept DEF hangupVars
<1>1. ASSUME NEW n \in Nodes, NEW c \in Incoming, IncomingCall(n, c)
      PROVE  HangsUp'
  <2>1. /\ \A id \in IDs \ {<<c, 0>>} : st'[id] = st[id] /\ home'[id] = home[id]
        /\ node' = node /\ node[n] = "up"
        /\ range' = range /\ unheard' = unheard /\ newcomers' = newcomers
    BY <1>1 DEF TypeOK, IncomingCall, hangupVars
  <2>2. home'[<<c, 0>>] = n
    BY <1>1, FirstID DEF TypeOK, IncomingCall
  <2> QED BY <2>1, <2>2, HangsKept
<1>2. ASSUME NEW n \in Nodes, NEW c \in Outgoing, OutgoingCall(n, c)
      PROVE  HangsUp'
  <2>1. /\ \A id \in IDs \ {<<c, 0>>} : st'[id] = st[id] /\ home'[id] = home[id]
        /\ node' = node
    BY <1>2 DEF TypeOK, OutgoingCall
  <2>2. home'[<<c, 0>>] = n /\ <<c, 0>> \in IDs
    BY <1>2, FirstID DEF TypeOK, OutgoingCall
  <2>3. /\ \A k \in Nodes : range[k] \subseteq range'[k]
        /\ unheard' = unheard /\ newcomers \ {<<c, 0>>} \subseteq newcomers'
        /\ node[n] # "up" => <<c, 0>> \in newcomers'
    BY <1>2, <2>2, Appearing DEF OutgoingCall
  <2> QED BY <2>1, <2>2, <2>3, HangsKept
<1>3. ASSUME NEW i \in IDs, Confirm(i) \/ End(i) \/ OrphanEnds(i)
      PROVE  HangsUp'
  <2>1. UNCHANGED <<node, home, hangupVars>>
    BY <1>3 DEF Confirm, End, OrphanEnds
  <2>2. \A id \in IDs : st'[id] \in {"early", "confirmed"} => st[id] \in {"early", "confirmed"}
    BY <1>3 DEF TypeOK, Confirm, End, OrphanEnds, Ends
  <2> QED BY <1>0, <2>1, <2>2
<1>4. ASSUME NEW i \in IDs, OnState(i) \/ LoadState(i) \/ Handle(i)
      PROVE  HangsUp'
  <2>1. UNCHANGED <<node, st, home, hangupVars>>
    BY <1>4 DEF OnState, LoadState, Handle, dialogVars
  <2> QED BY <1>0, <2>1
<1>5. ASSUME NEW n \in Nodes, Dump(n) \/ TruncateLoaded(n) \/ LeaveTakeover(n) \/ Forget(n)
      PROVE  HangsUp'
  <2>1. UNCHANGED <<node, st, home, hangupVars>>
    BY <1>5 DEF Dump, TruncateLoaded, LeaveTakeover, Forget, dialogVars
  <2> QED BY <1>0, <2>1
<1>6. ASSUME NEW m \in Nodes, NEW n \in Nodes, LoadDialogs(m, n)
      PROVE  HangsUp'
  <2>1. UNCHANGED <<node, st, home, hangupVars>>
    BY <1>6 DEF LoadDialogs, dialogVars
  <2> QED BY <1>0, <2>1
<1>7. ASSUME NEW m \in Nodes, ReInvite(m)
      PROVE  HangsUp'
  <2>1. PICK id \in taker[m].left, new \in IDs :
          /\ id \in IDs
          /\ new # id => st'[id] = IF st[id] = "orphan" THEN "moved" ELSE st[id]
          /\ \A i \in IDs \ {id, new} : st'[i] = st[i]
          /\ home' = [home EXCEPT ![new] = m]
          /\ Appears(m, new)
    BY <1>7, ReInvited
  <2>2. node' = node /\ home'[new] = m
        /\ \A i \in IDs \ {new} : home'[i] = home[i]
    BY <1>7, <2>1 DEF TypeOK, ReInvite
  <2>3. /\ \A k \in Nodes : range[k] \subseteq range'[k]
        /\ unheard' = unheard /\ newcomers \ {new} \subseteq newcomers'
        /\ node[m] # "up" => new \in newcomers'
    BY <2>1, Appearing
  <2>4. \A i \in IDs \ {new} : st'[i] \in {"early", "confirmed"} => st[i] \in {"early", "confirmed"}
    BY <2>1
  <2> QED BY <2>2, <2>3, <2>4, HangsKept
<1>8. ASSUME NEW n \in Nodes, Crash(n) \/ Exit(n)
      PROVE  HangsUp'
  <2>1. Gone(n)
    BY <1>8 DEF Crash, Exit
  <2>2. \A i \in IDs : home[i] # n =>
          /\ st'[i] = st[i] /\ home'[i] = home[i]
          /\ i \in unheard => i \in unheard'
          /\ i \in newcomers => i \in newcomers'
    BY <2>1, NodeGone
  <2>3. node'[n] = "down" /\ \A i \in IDs : home[i] = n => home'[i] = Nobody
    BY <2>1, NodeGone
  <2>4. \A k \in Nodes \ {n} : node'[k] = node[k] /\ range'[k] = range[k]
    BY <2>1, NodeGone
  <2> QED BY <2>2, <2>3, <2>4, SetsAssumption, HangsKept
<1>9. ASSUME NEW n \in Nodes, Restart(n)
      PROVE  HangsUp'
  <2>1. UNCHANGED <<st, home, hangupVars>> /\ \A k \in Nodes : node'[k] \in {node[k], "up"}
    BY <1>9 DEF TypeOK, Restart, dialogVars
  <2> QED BY <1>0, <2>1
<1>10. ASSUME NEW n \in Nodes, Shutdown(n)
       PROVE  HangsUp'
  <2>1. /\ node'[n] = "clients" /\ range'[n] = Clients(n)
        /\ \A k \in Nodes \ {n} : node'[k] = node[k] /\ range'[k] = range[k]
        /\ st' = st /\ home' = home /\ unheard' = unheard /\ newcomers' = newcomers
    BY <1>10 DEF TypeOK, Shutdown, dialogVars
  <2> QED BY <2>1 DEF HangsUp, Clients, On
<1>11. ASSUME NEW n \in Nodes, Hangup(n)
       PROVE  HangsUp'
  <2>1. PICK id \in range[n] :
          /\ range'[n] = range[n] \ {id} /\ \A k \in Nodes \ {n} : range'[k] = range[k]
          /\ \A i \in IDs \ {id} : st'[i] = st[i]
          /\ \/ st'[id] = "ended" /\ unheard' = unheard
             \/ unheard' = unheard \union {id} /\ st'[id] = st[id]
             \/ st'[id] = "ended" /\ unheard' = unheard
    BY <1>11, HungUp
  <2>2. node' = node /\ home' = home /\ newcomers' = newcomers
    BY <1>11 DEF Hangup
  <2> QED BY <2>1, <2>2, HangsKept
<1>12. ASSUME NEW n \in Nodes, RangeServers(n)
       PROVE  HangsUp'
  <2>1. /\ node'[n] = "servers" /\ range'[n] = On(n) \ Clients(n)
        /\ \A k \in Nodes \ {n} : node'[k] = node[k] /\ range'[k] = range[k]
        /\ st' = st /\ home' = home /\ unheard' = unheard /\ newcomers' = newcomers
    BY <1>12 DEF TypeOK, RangeServers, dialogVars
  <2>2. Clients(n) \subseteq unheard \union newcomers
    BY <1>12 DEF HangsUp, RangeServers
  <2> QED BY <2>1, <2>2 DEF HangsUp, Clients, On
<1>13. CASE UNCHANGED vars
  BY <1>0, <1>13 DEF vars, dialogVars
<1> QED BY <1>1, <1>2, <1>3, <1>4, <1>5, <1>6, <1>7, <1>8, <1>9, <1>10, <1>11, <1>12,
   <1>13 DEF Next

\* The nodes as they start (src/dialog_cache_file.go:35-46).
LEMMA Initially == Init => IInv
<1> SUFFICES ASSUME Init PROVE IInv
  OBVIOUS
<1>1. TypeOK
  <2>1. Free \in Held /\ Idle \in Takers
    BY DEF Held, Takers
  <2> QED BY <2>1, BoundsAssumption DEF Init, TypeOK
<1>2. DownIdle /\ TakerSound /\ LeftSound
  BY SetsAssumption DEF Init, DownIdle, TakerSound, LeftSound, Up, Free, Idle
<1>3. FileSound /\ NoOrphanFiled
  BY Decoding DEF Init, FileSound, NoOrphanFiled, Writing
<1>4. HomeSound /\ RegSound /\ Cached /\ Ghosts
  BY SetsAssumption DEF Init, HomeSound, RegSound, Cached, Ghosts
<1>5. HangsUp
  BY DEF Init, HangsUp
<1> QED BY <1>1, <1>2, <1>3, <1>4, <1>5 DEF IInv

\* Every step keeps the invariant (src/dialog_cache_file.go:35-127,
\* src/pbx.go:55-74, 244-380).
LEMMA Inductive == IInv /\ [Next]_vars => IInv'
<1> SUFFICES ASSUME IInv, [Next]_vars PROVE IInv'
  OBVIOUS
<1> USE DEF IInv
<1>1. TypeOK' /\ DownIdle' /\ HomeSound' /\ RegSound'
  BY TypeStep, DownStep, HomeStep, RegStep
<1>2. LeftSound' /\ TakerSound'
  BY LeftStep, TakerStep
<1>3. FileSound' /\ NoOrphanFiled'
  BY FileStep, FiledStep
<1>4. Cached' /\ Ghosts' /\ HangsUp'
  BY CachedStep, GhostsStep, HangsUpStep
<1> QED BY <1>1, <1>2, <1>3, <1>4

----------------------------------------------------------------------------
(* What may become of a dialog whose node is gone                           *)

\* The ways in which a takeover, or the lack of one, loses an orphan.
TakeoverLoses(id) == GivenUp(id) \/ TakerDies(id) \/ StartedOver(id) \/ EmptiedUnread(id)

\* What OrphansAreKept says of a step (src/pbx.go:284-380).
OrphansStep ==
  \A id \in IDs :
    /\ Answered(id) \/ (st[id] = "orphan" /\ id \in Findable)
    /\ st'[id] = "orphan" /\ id \notin Findable'
    => \/ DiesUnfiled(id) \/ GivenUp(id) \/ TakerDies(id)
       \/ StartedOver(id) \/ EmptiedUnread(id)

\* A dialog that was answered is in the file of its node when that dies, but for
\* what FileCurrent and AnsweredIsCached except (src/dialog_cache_file.go:102-127).
LEMMA AnsweredIsFiled ==
  ASSUME IInv, [Next]_vars, NEW id \in IDs,
         Answered(id), st'[id] = "orphan", id \notin Findable'
  PROVE  DiesUnfiled(id)
<1> USE DEF IInv
<1>1. st[id] = "confirmed" /\ reg[id] = "yes" /\ due[id] = {}
  BY DEF Answered, Settled
<1>2. PICK n \in Nodes : n = home[id] /\ Up(n)
  BY <1>1 DEF HomeSound
<1>3. Orphaned(id)
  <2>1. Moves(id)
    BY DialogMoves
  <2> QED BY <1>1, <1>2, <2>1, SetsAssumption DEF Moves, Stays, Begins, Confirms, Finishes,
             Leaves, Registers, Loads, Handles
<1>4. Dies(n) /\ file' = file
  BY <1>2, <1>3, NodeGone DEF Orphaned, Dies, Up
<1>5. id \notin Decoded(file[n])
  BY <1>2, <1>4 DEF Findable, Decoded
<1>6. id \in dropped \/ id \in dialogs[n]
  BY <1>1, <1>2 DEF Cached
<1>7. Writing(n) \/ n \in emptied \union unwritten \/ id \in dropped
  BY <1>2, <1>5, <1>6 DEF FileSound
<1> QED BY <1>2, <1>4, <1>7 DEF DiesUnfiled

\* The file of a node that is up may lose what it holds, for it has no orphan
\* (src/dialog_cache_file.go:102-127).
LEMMA OrphansStay ==
  ASSUME HomeSound, NoOrphanFiled, NEW id \in IDs, st[id] = "orphan", id \in Findable,
         \A n \in Nodes : \/ id \in Decoded(file'[n]) \/ Up(n)
                          \/ id \notin Decoded(file[n]),
         \A n \in Nodes : id \in taker[n].left => id \in taker'[n].left
  PROVE  id \in Findable'
<1>1. PICK n \in Nodes : id \in Decoded(file[n]) \/ id \in taker[n].left
  BY DEF Findable
<1>2. id \in Decoded(file[n]) => ~Up(n)
  BY DEF NoOrphanFiled, HomeSound
<1>3. id \in Decoded(file'[n]) \/ id \in taker'[n].left
  BY <1>1, <1>2
<1> QED BY <1>3 DEF Findable, Decoded

\* No step loses an orphan but those that OrphansAreKept names (src/pbx.go:284-380,
\* src/dialog_cache_file.go:35-100).
LEMMA OrphansKept ==
  ASSUME IInv, [Next]_vars, NEW id \in IDs,
         st[id] = "orphan", id \in Findable, st'[id] = "orphan", id \notin Findable'
  PROVE  TakeoverLoses(id)
<1> USE DEF IInv, TakeoverLoses
<1>1. CASE Quiet
  BY <1>1, OrphansStay DEF Quiet, cacheVars, Decoded
<1>2. ASSUME NEW i \in IDs, Handle(i)
      PROVE  TakeoverLoses(id)
  <2>1. home[i] \in Nodes /\ Up(home[i]) /\ taker' = taker
    BY <1>2, HandledAt
  <2>2. \A n \in Nodes : file'[n] = file[n] \/ Up(n)
    BY <1>2, <2>1, HandledAt, Altered
  <2> QED BY <2>1, <2>2, OrphansStay DEF Decoded
<1>3. ASSUME NEW n \in Nodes, Dump(n)
      PROVE  TakeoverLoses(id)
  <2>1. Up(n)
    BY <1>3, DumpedAt DEF DownIdle, Writing
  <2>2. \A k \in Nodes : file'[k] = file[k] \/ Up(k)
    BY <1>3, <2>1, DumpedAt
  <2>3. \A k \in Nodes : taker'[k].left = taker[k].left
    <3>1. ToNext(taker[n]).left = taker[n].left
      BY DEF ToNext
    <3> QED BY <1>3, <3>1, DumpedAt
  <2> QED BY <2>2, <2>3, OrphansStay DEF Decoded
<1>4. ASSUME NEW m \in Nodes, TruncateLoaded(m)
      PROVE  EmptiedUnread(id)
  <2> DEFINE n == taker[m].from
  <2>1. /\ taker[m].at = "truncate" /\ n \in Nodes
        /\ \A k \in Nodes : taker'[k].left = taker[k].left
        /\ \A k \in Nodes \ {n} : file'[k] = file[k]
    BY <1>4, TruncatedAt DEF TypeOK
  <2>2. id \notin taker[m].left
    BY <2>1 DEF Findable
  <2>3. id \in Decoded(file[n])
    <3>1. ASSUME id \notin Decoded(file[n])
          PROVE  FALSE
      BY <2>1, <3>1, OrphansStay DEF Decoded
    <3> QED BY <3>1
  <2> QED BY <2>1, <2>2, <2>3 DEF EmptiedUnread
<1>5. ASSUME NEW m \in Nodes, LeaveTakeover(m)
      PROVE  GivenUp(id)
  <2>1. /\ UNCHANGED <<node, file>> /\ taker[m].at = "next" /\ taker'[m] = Idle
        /\ \A k \in Nodes \ {m} : taker'[k] = taker[k]
    BY <1>5 DEF TypeOK, LeaveTakeover, cacheVars
  <2>2. Up(m) /\ Up(m)'
    BY <2>1 DEF DownIdle, Idle, Up
  <2>3. id \in taker[m].left
    BY <2>1, OrphansStay DEF Decoded
  <2> QED BY <2>1, <2>2, <2>3 DEF GivenUp
<1>6. ASSUME NEW m \in Nodes, ReInvite(m)
      PROVE  TakeoverLoses(id)
  <2>1. PICK i \in taker[m].left, new \in IDs :
          /\ st'[new] = "confirmed"
          /\ new # i => st'[i] = IF st[i] = "orphan" THEN "moved" ELSE st[i]
          /\ taker' = [taker EXCEPT ![m] =
               [at |-> "register", from |-> taker[m].from,
                left |-> taker[m].left \ {i}, id |-> i, new |-> new]]
    BY <1>6, ReInvited
  <2>2. i # id
    BY <2>1
  <2>3. file' = file
    BY <1>6 DEF ReInvite, cacheVars
  <2>4. \A k \in Nodes : id \in taker[k].left => id \in taker'[k].left
    BY <2>1, <2>2 DEF TypeOK
  <2> QED BY <2>3, <2>4, OrphansStay DEF Decoded
<1>7. ASSUME NEW m \in Nodes, Forget(m)
      PROVE  TakeoverLoses(id)
  <2>1. \A n \in Nodes : file'[n] = file[n] \/ Up(n)
    BY <1>7, ForgottenAt, Altered
  <2>2. \A k \in Nodes : taker'[k].left = taker[k].left
    <3>1. ToNext(taker[m]).left = taker[m].left
      BY DEF ToNext
    <3>2. [taker[m] EXCEPT !.at = "forgetting"].left = taker[m].left
      BY <1>7, ForgottenAt, TakerMoves
    <3>3. taker'[m] \in {ToNext(taker[m]), [taker[m] EXCEPT !.at = "forgetting"]}
      BY <1>7, ForgottenAt DEF TypeOK
    <3>4. \A n \in Nodes \ {m} : taker'[n] = taker[n]
      BY <1>7, ForgottenAt DEF TypeOK
    <3> QED BY <3>1, <3>2, <3>3, <3>4
  <2> QED BY <2>1, <2>2, OrphansStay DEF Decoded
<1>8. ASSUME NEW n \in Nodes, Restart(n)
      PROVE  StartedOver(id)
  <2>1. /\ ~Up(n) /\ Up(n)' /\ taker' = taker
        /\ \A k \in Nodes \ {n} : file'[k] = file[k]
    BY <1>8 DEF TypeOK, Restart, Up
  <2>2. id \in Decoded(file[n])
    BY <2>1, OrphansStay DEF Decoded
  <2> QED BY <2>1, <2>2 DEF StartedOver
<1>9. ASSUME NEW n \in Nodes, Up(n), Gone(n)
      PROVE  TakerDies(id)
  <2>1. /\ file' = file /\ \A k \in Nodes \ {n} : taker'[k] = taker[k]
        /\ Dies(n)
    BY <1>9, NodeGone DEF Dies, Up
  <2>2. id \in taker[n].left
    BY <2>1, OrphansStay DEF Decoded
  <2> QED BY <2>1, <2>2 DEF TakerDies
<1>10. ASSUME NEW m \in Nodes, NEW n \in Nodes, LoadDialogs(m, n)
       PROVE  TakeoverLoses(id)
  <2>1. /\ file' = file /\ taker[m].left = {}
        /\ \A k \in Nodes \ {m} : taker'[k] = taker[k]
    BY <1>10 DEF TypeOK, LoadDialogs, Idle
  <2> QED BY <2>1, OrphansStay DEF Decoded
<1> QED BY <1>1, <1>2, <1>3, <1>4, <1>5, <1>6, <1>7, <1>8, <1>9, <1>10, CacheSteps DEF CacheStep

----------------------------------------------------------------------------
(* Theorems                                                                 *)

\* Crashes, takeovers, callbacks and Serve's end keep the invariant in any order
\* (src/dialog_cache_file.go:35-127, src/pbx.go:55-74, 244-380).
THEOREM Invariance == Spec => []IInv
  BY Initially, Inductive, PTL DEF Spec

\* The cache, the dialogs and the takeovers keep their types
\* (src/dialog_cache_file.go, src/pbx.go).
THEOREM TypeCorrect == Spec => []TypeOK
<1>1. IInv => TypeOK
  BY DEF IInv
<1> QED BY <1>1, Invariance, PTL

\* The file of a node that serves is its cache, but while a write is under way, after
\* a takeover has emptied it and after a write that failed
\* (src/dialog_cache_file.go:90, 102-127).
THEOREM FileCorrect == Spec => []FileCurrent
<1>1. IInv => FileCurrent
  <2> SUFFICES ASSUME IInv, NEW n \in Nodes, Up(n)
               PROVE  \/ Decoded(file[n]) = dialogs[n]
                      \/ Decoded(file[n]) = {} /\ (Writing(n) \/ n \in emptied)
                      \/ n \in unwritten
    BY DEF FileCurrent
  <2>1. Writing(n) => Decoded(file[n]) = {}
    BY Decoding DEF IInv, FileSound
  <2> QED BY <2>1 DEF IInv, FileSound
<1> QED BY <1>1, Invariance, PTL

\* registerOnStateDialog misses no answer, and the dialogs that are not cached are
\* those which the takeover that made them deleted (src/pbx.go:244-281, 375).
THEOREM CachedCorrect == Spec => []AnsweredIsCached
<1>1. IInv => AnsweredIsCached
  BY DEF IInv, Cached, AnsweredIsCached, Answered, Settled
<1> QED BY <1>1, Invariance, PTL

\* The cache keeps a dialog that is over only if its store was late
\* (src/pbx.go:244-281).
THEOREM GhostCorrect == Spec => []GhostOnlyLate
<1>1. IInv => GhostOnlyLate
  <2> SUFFICES ASSUME IInv, NEW n \in Nodes, NEW id \in dialogs[n],
                      st[id] = "ended", due[id] = {}
               PROVE  id \in late
    BY DEF GhostOnlyLate, Settled
  <2> QED BY DEF IInv, Ghosts, TypeOK
<1> QED BY <1>1, Invariance, PTL

\* Whether a node serves is changed by these steps alone (src/pbx.go:55-74,
\* src/dialog_cache_file.go:35-42).
LEMMA NodeSteps ==
  ASSUME [Next]_vars
  PROVE  \/ node' = node
         \/ \E n \in Nodes : Crash(n) \/ Restart(n) \/ Shutdown(n) \/ RangeServers(n) \/ Exit(n)
<1>1. ASSUME NEW n \in Nodes, NEW c, IncomingCall(n, c) \/ OutgoingCall(n, c)
      PROVE  node' = node
  BY <1>1 DEF IncomingCall, OutgoingCall, Appears
<1>2. ASSUME NEW m \in Nodes, NEW n \in Nodes, LoadDialogs(m, n)
      PROVE  node' = node
  BY <1>2 DEF LoadDialogs
<1>3. ASSUME NEW n \in Nodes, Dump(n) \/ TruncateLoaded(n) \/ LeaveTakeover(n)
      PROVE  node' = node
  BY <1>3 DEF Dump, TruncateLoaded, LeaveTakeover
<1>4. ASSUME NEW n \in Nodes, ReInvite(n) \/ Forget(n) \/ Hangup(n)
      PROVE  node' = node
  BY <1>4 DEF ReInvite, Forget, Alter, Hangup
<1>5. ASSUME NEW id \in IDs, Confirm(id) \/ End(id) \/ OrphanEnds(id)
      PROVE  node' = node
  BY <1>5 DEF Confirm, End, OrphanEnds
<1>6. ASSUME NEW id \in IDs, OnState(id) \/ LoadState(id) \/ Handle(id)
      PROVE  node' = node
  BY <1>6 DEF OnState, LoadState, Handle
<1>7. UNCHANGED vars => node' = node
  BY DEF vars
<1> QED BY <1>1, <1>2, <1>3, <1>4, <1>5, <1>6, <1>7 DEF Next

\* When Serve returns, a dialog that is left is one whose Hangup failed or one
\* that was dialled meanwhile (src/pbx.go:55-74).
THEOREM ShutdownCorrect == Spec => ShutdownHangsUp
<1>1. ASSUME IInv, [Next]_vars, NEW n \in Nodes,
             node[n] = "servers", node'[n] = "down", downs' = downs
      PROVE  On(n) \subseteq unheard \union newcomers
  <2>1. range[n] = {}
    <3>1. CASE \E k \in Nodes : Exit(k)
      <4>1. PICK k \in Nodes : Exit(k)
        BY <3>1
      <4>2. k = n
        BY <1>1, <4>1, NodeGone DEF Exit, IInv
      <4> QED BY <4>1, <4>2 DEF Exit
    <3>2. CASE ~\E k \in Nodes : Exit(k)
      <4>1. ~\E k \in Nodes : Crash(k)
        BY <1>1 DEF Crash, IInv, TypeOK
      <4>2. \/ node' = node
            \/ \E k \in Nodes : Restart(k) \/ Shutdown(k) \/ RangeServers(k)
        BY <1>1, <3>2, <4>1, NodeSteps
      <4>3. CASE \E k \in Nodes : Restart(k) \/ Shutdown(k) \/ RangeServers(k)
        <5>1. PICK k \in Nodes : Restart(k) \/ Shutdown(k) \/ RangeServers(k)
          BY <4>3
        <5>2. node' = [node EXCEPT ![k] = "up"] \/ node' = [node EXCEPT ![k] = "clients"]
              \/ node' = [node EXCEPT ![k] = "servers"]
          BY <5>1 DEF Restart, Shutdown, RangeServers
        <5> QED BY <1>1, <5>2 DEF IInv, TypeOK
      <4> QED BY <1>1, <4>2, <4>3
    <3> QED BY <3>1, <3>2
  <2> QED BY <1>1, <2>1 DEF IInv, HangsUp
<1>2. IInv /\ [Next]_vars =>
        [\A n \in Nodes : (node[n] = "servers" /\ node'[n] = "down" /\ downs' = downs)
                          => On(n) \subseteq unheard \union newcomers]_vars
  BY <1>1
<1> QED BY <1>2, Invariance, PTL DEF Spec, ShutdownHangsUp

\* From its answer a dialog is where a takeover finds it, or its node died at a moment
\* when its file was not its cache, or a takeover was given up, died, came too late or
\* emptied what it had not read (src/pbx.go:244-281, 369-377,
\* src/dialog_cache_file.go:35-127).
THEOREM OrphansCorrect == Spec => OrphansAreKept
<1>1. IInv /\ [Next]_vars => OrphansStep
  BY AnsweredIsFiled, OrphansKept DEF OrphansStep, TakeoverLoses
<1>2. IInv /\ [Next]_vars => [OrphansStep]_vars
  BY <1>1
<1>3. Spec => [][OrphansStep]_vars
  BY <1>2, Invariance, PTL DEF Spec
<1> QED BY <1>3 DEF OrphansStep, OrphansAreKept
=============================================================================
