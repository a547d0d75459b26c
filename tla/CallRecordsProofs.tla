------------------------ MODULE CallRecordsProofs ------------------------
(***************************************************************************)
(* The ring of cdr_storage.go for every capacity.                          *)
(*                                                                         *)
(* RingOrdered says what number each slot holds and is inductive with the  *)
(* types; that a find loses nothing, and that the ring is a log of the     *)
(* newest entries, follow from it a step at a time.                        *)
(***************************************************************************)
EXTENDS CallRecords, LeastElements, SequenceTheorems, TLAPS

IInv == TypeOK /\ RingOrdered

Number(slot) == IF slot <= end THEN written - end + slot
                ELSE written - end - Capacity + slot

\* What an entry written next is.
Newest(about) == [no |-> written + 1, about |-> about]

\* A write, of either storage.  No page is being read while a CDR is written.
Writes(about) == /\ Put(about)
                 /\ written < MaxWrites
                 /\ storage = "cdr" => about \in Records /\ page = NoPage
                 /\ UNCHANGED <<storage, page, find>>

\* A step is a write, a step of a page or a step of a find.
LEMMA Steps ==
  ASSUME Next
  PROVE  \/ \E about \in Contents : Writes(about)
         \/ /\ UNCHANGED <<ring, find>>
            /\ \/ \E form \in Forms, n \in 1..PageCap : CDRRead(form, n)
               \/ CDRReadSlot
               \/ CDRReadEnds
               \/ CDRReadReturns
         \/ /\ UNCHANGED <<ring, page>>
            /\ \/ \E id \in CallIDs : SIPTraceFind(id)
               \/ FindNext
               \/ FindEnds
<1>1. ASSUME NEW cdr \in Records, CDRWrite(cdr)
      PROVE  \E about \in Contents : Writes(about)
  BY <1>1 DEF CDRWrite, Writes, Contents
<1>2. ASSUME NEW m \in Messages, writeTrace(m)
      PROVE  \E about \in Contents : Writes(about)
  <2>1. parseSIPTrace(m) \in Contents
    BY DEF Contents, Traces
  <2> QED BY <1>2, <2>1 DEF writeTrace, Writes
<1> QED BY <1>1, <1>2 DEF Next, SIPTraceFind, FindNext, FindEnds,
                          CDRRead, CDRReadSlot, CDRReadEnds, CDRReadReturns

\* The slot written next is one of the ring.
LEMMA TargetInRing == ASSUME IInv PROVE Target \in Slots
BY CapacityAssumption DEF IInv, TypeOK, Target, Slots

-----------------------------------------------------------------------------
(* Types                                                                    *)

LEMMA TypeStep == ASSUME IInv, [Next]_vars PROVE TypeOK'
<1> USE CapacityAssumption DEF IInv, TypeOK
<1>1. ASSUME NEW about \in Contents, Writes(about)
      PROVE  TypeOK'
  <2>1. Newest(about) \in Entries
    BY <1>1 DEF Writes, Newest, Entries
  <2>2. data' \in [Slots -> Entries \union {Unset}]
    BY <1>1, <2>1, TargetInRing DEF Writes, Put, Newest
  <2>3. ind' \in 0..Capacity /\ end' \in Slots
    BY <1>1, TargetInRing DEF Writes, Put, Slots
  <2> QED BY <1>1, <2>2, <2>3 DEF Writes, Put
<1>2. ASSUME UNCHANGED <<ring, page>>, NEW id \in CallIDs, SIPTraceFind(id)
      PROVE  TypeOK'
  <2>1. find' \in Finds
    BY <1>2 DEF SIPTraceFind, Finds
  <2> QED BY <1>2, <2>1 DEF ring
<1>3. ASSUME UNCHANGED <<ring, page>>, FindNext
      PROVE  TypeOK'
  <2>1. find \in Finds
    BY <1>3 DEF FindNext, NoFind
  <2>2. PICK slot \in find.pos..(Capacity - 1) :
          /\ OfCall(find.callID, slot)
          /\ find' = [find EXCEPT !.pos = slot + 1, !.got = Append(@, data[slot])]
    BY <1>3 DEF FindNext
  <2>3. slot \in Slots /\ slot + 1 \in 0..Capacity
    BY <2>1 DEF Finds, Slots
  <2>4. data[slot] \in Entries
    BY <2>2, <2>3 DEF OfCall, IsSet, Unset
  <2>5. Append(find.got, data[slot]) \in Seq(Entries)
    BY <2>1, <2>4 DEF Finds
  <2>6. find' \in Finds
    BY <2>1, <2>2, <2>3, <2>5 DEF Finds
  <2> QED BY <1>3, <2>6 DEF ring
<1>4. ASSUME UNCHANGED <<ring, page>>, FindEnds
      PROVE  TypeOK'
  <2>1. find \in Finds
    BY <1>4 DEF FindEnds, NoFind
  <2>2. find' \in Finds
    BY <1>4, <2>1 DEF FindEnds, Finds
  <2> QED BY <1>4, <2>2 DEF ring
<1>5. ASSUME UNCHANGED <<ring, find>>,
             NEW form \in Forms, NEW n \in 1..PageCap, CDRRead(form, n)
      PROVE  TypeOK'
  <2>1. page' \in Pages
    BY <1>5 DEF CDRRead, Pages, Slots
  <2> QED BY <1>5, <2>1 DEF ring
<1>6. ASSUME UNCHANGED <<ring, find>>, CDRReadSlot
      PROVE  TypeOK'
  <2>1. page \in Pages /\ page.i \in Slots
    BY <1>6 DEF CDRReadSlot, Continues, NoPage, Pages, Slots
  <2>2. data[page.i] \in Entries
    BY <1>6, <2>1 DEF CDRReadSlot, Continues, IsSet, Unset
  <2>3. Append(page.rows, data[page.i]) \in Seq(Entries)
    BY <2>1, <2>2 DEF Pages
  <2>4. page.i - 1 \in -1..(Capacity - 1)
    BY <2>1 DEF Slots
  <2>5. page' \in Pages
    BY <1>6, <2>1, <2>3, <2>4 DEF CDRReadSlot, Pages
  <2> QED BY <1>6, <2>5 DEF ring
<1>7. ASSUME UNCHANGED <<ring, find>>, CDRReadEnds
      PROVE  TypeOK'
  <2>1. page \in Pages
    BY <1>7 DEF CDRReadEnds, NoPage
  <2>2. page' \in Pages
    BY <1>7, <2>1 DEF CDRReadEnds, Pages
  <2> QED BY <1>7, <2>2 DEF ring
<1>8. ASSUME UNCHANGED <<ring, find>>, CDRReadReturns
      PROVE  TypeOK'
  BY <1>8 DEF CDRReadReturns, ring
<1>9. CASE UNCHANGED vars
  BY <1>9 DEF vars, ring
<1> QED BY Steps, <1>1, <1>2, <1>3, <1>4, <1>5, <1>6, <1>7, <1>8, <1>9

-----------------------------------------------------------------------------
(* The ring                                                                 *)

LEMMA RingStep == ASSUME IInv, [Next]_vars PROVE RingOrdered'
<1> USE CapacityAssumption DEF IInv
<1>1. ASSUME NEW about \in Contents, Put(about)
      PROVE  RingOrdered'
  <2>1. written' = written + 1 /\ end' = Target /\ ind' = end' + 1
    BY <1>1 DEF Put
  <2>2. end' < written' /\ (written' \in 1..Capacity => end' + 1 = written')
    BY <2>1 DEF RingOrdered, Target, TypeOK, Slots
  <2>3. \A slot \in Slots : data'[slot].no = IF slot = Target THEN written + 1
                                             ELSE data[slot].no
    BY <1>1, TargetInRing DEF Put, TypeOK
  <2>4. ASSUME NEW slot \in Slots
        PROVE  data'[slot].no = IF Number(slot)' >= 1 /\ written' > 0
                                THEN Number(slot)' ELSE 0
    <3>1. data[slot].no = IF Number(slot) >= 1 /\ written > 0
                          THEN Number(slot) ELSE 0
      BY DEF RingOrdered, Number
    <3>2. written = 0 => ind = 0 /\ end = 0
      BY DEF RingOrdered
    <3>3. written > 0 => ind = end + 1 /\ end < written
      BY DEF RingOrdered
    <3>4. /\ written \in Nat /\ ind \in 0..Capacity
          /\ end \in 0..(Capacity - 1) /\ slot \in 0..(Capacity - 1)
      BY DEF TypeOK, Slots
    <3>5. CASE slot = Target
      BY <2>1, <2>3, <3>2, <3>3, <3>4, <3>5 DEF Number, Target
    <3>6. CASE slot # Target
      BY <2>1, <2>3, <3>1, <3>2, <3>3, <3>4, <3>6 DEF Number, Target
    <3> QED BY <3>5, <3>6
  <2> QED BY <2>1, <2>2, <2>4 DEF RingOrdered, Number, TypeOK
<1>2. CASE UNCHANGED ring
  BY <1>2 DEF RingOrdered, ring
<1> QED BY Steps, <1>1, <1>2 DEF vars, Writes

LEMMA InitIInv == ASSUME Init PROVE IInv
<1> USE CapacityAssumption DEF Init
<1>1. TypeOK
  BY DEF TypeOK, Slots, Unset
<1>2. RingOrdered
  BY DEF RingOrdered, Slots, Unset
<1> QED BY <1>1, <1>2 DEF IInv

\* The types and the numbers of all slots hold of every reachable state.
THEOREM Invariance == Spec => []IInv
<1>1. IInv /\ [Next]_vars => IInv'
  BY TypeStep, RingStep DEF IInv
<1> QED BY <1>1, InitIInv, PTL DEF Spec

\* cdr_storage.go:61-65: no index ever leaves the slice, for every capacity.
THEOREM TypeCorrect == Spec => []TypeOK
<1>1. IInv => TypeOK
  BY DEF IInv
<1> QED BY <1>1, Invariance, PTL

\* cdr_storage.go:72-87: for every capacity and however often the ring has
\* started over, its slots hold the newest entries in order of writing.
THEOREM RingCorrect == Spec => []RingOrdered
<1>1. IInv => RingOrdered
  BY DEF IInv
<1> QED BY <1>1, Invariance, PTL

-----------------------------------------------------------------------------
(* A find                                                                   *)

\* What a find has shown was overwritten since or is in a slot it has passed.
Shown == find.state # "none" =>
           /\ find.since <= written
           /\ \A i \in DOMAIN find.got :
                \/ find.got[i].no <= written - Capacity
                \/ \E slot \in 0..(find.pos - 1) : find.got[i] = data[slot]

FindInv == IInv /\ Shown /\ FindFaithful

\* Two slots that are set hold different entries, none of them overwritten.
LEMMA RingDistinct ==
  ASSUME IInv, NEW s \in Slots, NEW t \in Slots, IsSet(s), IsSet(t)
  PROVE  /\ data[s].no = data[t].no => s = t
         /\ data[s].no > written - Capacity
         /\ data[s].no <= written
<1> USE CapacityAssumption DEF IInv, TypeOK, Slots
<1>1. data[s].no = Number(s) /\ data[t].no = Number(t)
  BY DEF RingOrdered, IsSet, Number
<1>2. Number(s) >= 1 /\ Number(t) >= 1 /\ written > 0
  BY DEF RingOrdered, IsSet, Number
<1>3. end < written
  BY <1>2 DEF RingOrdered
<1> QED BY <1>1, <1>2, <1>3 DEF Number

\* What a write overwrites is the oldest of Capacity entries.
LEMMA OldestGoes ==
  ASSUME IInv, IsSet(Target)
  PROVE  data[Target].no = written + 1 - Capacity
<1> USE CapacityAssumption DEF IInv, TypeOK
<1>1. Target \in Slots
  BY TargetInRing
<1>2. data[Target].no = Number(Target) /\ written > 0
  BY <1>1 DEF RingOrdered, IsSet, Number
<1>3. ind = end + 1
  BY <1>2 DEF RingOrdered
<1> QED BY <1>1, <1>2, <1>3, RingDistinct DEF Number, Target, Slots

LEMMA FindWrite ==
  ASSUME FindInv, NEW about \in Contents, Put(about), UNCHANGED find
  PROVE  (Shown /\ FindFaithful)'
<1> USE CapacityAssumption DEF FindInv
<1>0. CASE find.state = "none"
  BY <1>0 DEF Shown, FindFaithful
<1>1. CASE find.state # "none"
  <2>1. find \in Finds /\ written \in Nat /\ find.pos \in 0..Capacity
    BY <1>1 DEF IInv, TypeOK, Finds, NoFind
  <2>2. written' = written + 1
    BY DEF Put
  <2>3. \A slot \in Slots :
          data'[slot] = IF slot = Target THEN Newest(about) ELSE data[slot]
    BY TargetInRing DEF Put, IInv, TypeOK, Newest
  <2>4. \A i \in DOMAIN find.got : find.got[i] \in Entries
    BY <2>1 DEF Finds
  <2>5. ASSUME NEW i \in DOMAIN find.got
        PROVE  \/ find.got[i].no <= written' - Capacity
               \/ \E slot \in 0..(find.pos - 1) : find.got[i] = data'[slot]
    <3>1. CASE find.got[i].no <= written - Capacity
      BY <2>1, <2>2, <2>4, <3>1 DEF Entries
    <3>2. ASSUME NEW slot \in 0..(find.pos - 1), find.got[i] = data[slot]
          PROVE  \/ find.got[i].no <= written' - Capacity
                 \/ \E s \in 0..(find.pos - 1) : find.got[i] = data'[s]
      <4>1. slot \in Slots
        BY <2>1, <3>2 DEF Slots
      <4>2. CASE slot = Target
        <5>1. IsSet(Target)
          BY <2>4, <3>2, <4>2 DEF IsSet, Entries
        <5> QED BY <2>1, <2>2, <3>2, <4>2, <5>1, OldestGoes
      <4>3. CASE slot # Target
        BY <2>3, <3>2, <4>1, <4>3
      <4> QED BY <4>2, <4>3
    <3> QED BY <1>1, <3>1, <3>2 DEF Shown
  <2>6. find.since <= written'
    BY <1>1, <2>1, <2>2 DEF Shown, Finds
  <2>7. Shown'
    BY <2>5, <2>6 DEF Shown
  <2>8. ASSUME NEW slot \in IF find.state = "done" THEN Slots ELSE 0..(find.pos - 1),
               OfCall(find.callID, slot)', data'[slot].no <= find.since
        PROVE  \E i \in DOMAIN find.got : find.got[i] = data'[slot]
    <3>1. slot \in Slots
      BY <2>1 DEF Slots
    <3>2. slot # Target
      <4>1. find.since <= written /\ find.since \in Nat
        BY <1>1, <2>1 DEF Shown, Finds
      <4> QED BY <2>1, <2>3, <2>8, <3>1, <4>1 DEF Newest
    <3>3. data'[slot] = data[slot]
      BY <2>3, <3>1, <3>2
    <3>4. OfCall(find.callID, slot)
      BY <2>8, <3>3 DEF OfCall, IsSet
    <3> QED BY <1>1, <2>8, <3>3, <3>4 DEF FindFaithful
  <2>9. FindFaithful'
    BY <1>1, <2>8 DEF FindFaithful
  <2> QED BY <2>7, <2>9
<1> QED BY <1>0, <1>1

LEMMA FindBegins ==
  ASSUME FindInv, NEW id \in CallIDs, SIPTraceFind(id)
  PROVE  (Shown /\ FindFaithful)'
<1>1. /\ find'.state = "running" /\ find'.pos = 0
      /\ find'.since = written /\ find'.got = <<>>
      /\ written' = written
  BY DEF SIPTraceFind, ring
<1>2. DOMAIN find'.got = {} /\ 0..(find'.pos - 1) = {}
  BY <1>1
<1>3. written \in Nat
  BY DEF FindInv, IInv, TypeOK
<1> QED BY <1>1, <1>2, <1>3 DEF Shown, FindFaithful

LEMMA FindAdvances ==
  ASSUME FindInv, FindNext
  PROVE  (Shown /\ FindFaithful)'
<1> USE CapacityAssumption DEF FindInv
<1>1. find \in Finds /\ find.state = "running"
  BY DEF FindNext, IInv, TypeOK, NoFind
<1>2. PICK slot \in find.pos..(Capacity - 1) :
        /\ OfCall(find.callID, slot)
        /\ \A s \in find.pos..(slot - 1) : ~OfCall(find.callID, s)
        /\ find' = [find EXCEPT !.pos = slot + 1, !.got = Append(@, data[slot])]
  BY DEF FindNext
<1>3. /\ UNCHANGED <<data, written>>
      /\ find'.state = "running" /\ find'.callID = find.callID
      /\ find'.since = find.since /\ find'.pos = slot + 1
      /\ find'.got = Append(find.got, data[slot])
  BY <1>1, <1>2 DEF FindNext, Finds, ring
<1>4. slot \in Slots /\ IsSet(slot) /\ find.pos \in Nat /\ find.got \in Seq(Entries)
  BY <1>1, <1>2 DEF Finds, Slots, OfCall
<1>5. data[slot] \in Entries
  BY <1>4 DEF IInv, TypeOK, IsSet, Unset
<1> DEFINE old == DOMAIN find.got
           new == Len(find.got) + 1
<1>6. /\ DOMAIN find'.got = old \union {new} /\ new \notin old
      /\ find'.got[new] = data[slot]
      /\ \A i \in old : find'.got[i] = find.got[i]
  BY <1>3, <1>4, <1>5
<1>7. Shown'
  <2>1. ASSUME NEW i \in DOMAIN find'.got
        PROVE  \/ find'.got[i].no <= written - Capacity
               \/ \E s \in 0..slot : find'.got[i] = data[s]
    <3>1. CASE i = new
      BY <1>4, <1>6, <3>1 DEF Slots
    <3>2. CASE i \in old
      <4>1. find'.got[i] = find.got[i]
        BY <1>6, <3>2
      <4>2. \/ find.got[i].no <= written - Capacity
            \/ \E s \in 0..(find.pos - 1) : find.got[i] = data[s]
        BY <1>1, <3>2 DEF Shown
      <4>3. 0..(find.pos - 1) \subseteq 0..slot
        BY <1>2, <1>4 DEF Slots
      <4> QED BY <4>1, <4>2, <4>3
    <3> QED BY <1>6, <3>1, <3>2
  <2> QED BY <1>1, <1>3, <1>4, <2>1 DEF Shown, Slots
<1>8. ASSUME NEW i \in old PROVE find.got[i].no # data[slot].no
  <2>0. find.got[i] \in Entries
    BY <1>4
  <2>1. CASE find.got[i].no <= written - Capacity
    <3>1. data[slot].no > written - Capacity
      BY <1>4, RingDistinct
    <3> QED BY <1>5, <2>0, <2>1, <3>1 DEF Entries, IInv, TypeOK
  <2>2. ASSUME NEW s \in 0..(find.pos - 1), find.got[i] = data[s]
        PROVE  find.got[i].no # data[slot].no
    <3>1. s \in Slots /\ s # slot
      BY <1>2, <1>4, <2>2 DEF Slots
    <3>2. IsSet(s)
      BY <2>0, <2>2 DEF IsSet, Entries
    <3> QED BY <1>4, <2>2, <3>1, <3>2, RingDistinct
  <2> QED BY <1>1, <2>1, <2>2 DEF Shown
<1>9. \A i, j \in DOMAIN find'.got :
        find'.got[i].no = find'.got[j].no => i = j
  BY <1>1, <1>6, <1>8 DEF FindFaithful
<1>10. \A i \in DOMAIN find'.got :
         find'.callID \in {find'.got[i].about.callID, find'.got[i].about.originator}
  <2>1. find.callID \in {data[slot].about.callID, data[slot].about.originator}
    BY <1>2 DEF OfCall
  <2>2. \A i \in old : find.callID \in {find.got[i].about.callID,
                                        find.got[i].about.originator}
    BY <1>1 DEF FindFaithful
  <2> QED BY <1>3, <1>6, <2>1, <2>2
<1>11. ASSUME NEW s \in 0..slot,
              OfCall(find.callID, s), data[s].no <= find.since
       PROVE  \E i \in DOMAIN find'.got : find'.got[i] = data[s]
  <2>1. CASE s = slot
    BY <1>6, <2>1
  <2>2. CASE s # slot
    <3>1. s \in 0..(find.pos - 1)
      BY <1>2, <1>4, <1>11, <2>2 DEF Slots
    <3> QED BY <1>1, <1>6, <1>11, <3>1 DEF FindFaithful
  <2> QED BY <2>1, <2>2
<1>12. FindFaithful'
  <2>1. 0..(find'.pos - 1) = 0..slot
    BY <1>3, <1>4 DEF Slots
  <2> QED BY <1>3, <1>9, <1>10, <1>11, <2>1 DEF FindFaithful, OfCall, IsSet
<1> QED BY <1>7, <1>12

LEMMA FindFinishes ==
  ASSUME FindInv, FindEnds
  PROVE  (Shown /\ FindFaithful)'
<1> USE CapacityAssumption DEF FindInv
<1>1. find \in Finds /\ find.state = "running"
  BY DEF FindEnds, IInv, TypeOK, NoFind
<1>2. /\ UNCHANGED <<data, written>>
      /\ find'.state = "done" /\ find'.callID = find.callID
      /\ find'.since = find.since /\ find'.pos = find.pos
      /\ find'.got = find.got
  BY <1>1 DEF FindEnds, Finds, ring
<1>3. Shown'
  BY <1>1, <1>2 DEF Shown
<1>4. ASSUME NEW slot \in Slots,
             OfCall(find.callID, slot), data[slot].no <= find.since
      PROVE  \E i \in DOMAIN find.got : find.got[i] = data[slot]
  <2>1. slot \in 0..(find.pos - 1)
    BY <1>1, <1>4 DEF FindEnds, Finds, Slots
  <2> QED BY <1>1, <1>4, <2>1 DEF FindFaithful
<1>5. FindFaithful'
  BY <1>1, <1>2, <1>4 DEF FindFaithful, OfCall, IsSet
<1> QED BY <1>3, <1>5

\* cdr_storage.go:260-271: whatever is written while the lock is given up, a
\* find shows every message that stays, once, for every capacity of the ring.
THEOREM FindCorrect == Spec => []FindFaithful
<1>1. Init => FindInv
  BY InitIInv DEF Init, FindInv, Shown, FindFaithful, NoFind
<1>2. FindInv /\ [Next]_vars => FindInv'
  <2> SUFFICES ASSUME FindInv, [Next]_vars PROVE FindInv'
    OBVIOUS
  <2>1. IInv'
    BY TypeStep, RingStep DEF FindInv, IInv
  <2>2. ASSUME UNCHANGED vars PROVE (Shown /\ FindFaithful)'
    BY <2>2 DEF vars, ring, FindInv, Shown, FindFaithful, OfCall, IsSet
  <2>3. ASSUME UNCHANGED <<ring, find>> PROVE (Shown /\ FindFaithful)'
    BY <2>3 DEF ring, FindInv, Shown, FindFaithful, OfCall, IsSet
  <2>4. ASSUME Next PROVE (Shown /\ FindFaithful)'
    BY <2>3, <2>4, Steps, FindWrite, FindBegins, FindAdvances, FindFinishes DEF Writes
  <2> QED BY <2>1, <2>2, <2>4 DEF FindInv
<1>3. FindInv => FindFaithful
  BY DEF FindInv
<1> QED BY <1>1, <1>2, <1>3, PTL DEF Spec

-----------------------------------------------------------------------------
(* A page of the history                                                    *)

\* The value that an option gets from the filters with its key: that of the
\* last one, and the default without any.
LEMMA LastCounts ==
  ASSUME NEW form \in Forms, NEW key, NEW default, NEW x
  PROVE  LET at == {i \in DOMAIN form.filters : form.filters[i].key = key} IN
         x \in LastOf(form.filters, key, default) <=>
           /\ at = {} => x \in default
           /\ \A i \in at : Counts(form.filters, i) => x \in form.filters[i].value
<1> DEFINE at == {i \in DOMAIN form.filters : form.filters[i].key = key}
           last == CHOOSE i \in at : \A j \in at : j <= i
<1>1. Len(form.filters) \in Nat /\ DOMAIN form.filters = 1..Len(form.filters)
  BY FormsAssumption
<1>2. CASE at = {}
  BY <1>2 DEF LastOf
<1>3. CASE at # {}
  <2>1. at \in SUBSET (1..Len(form.filters))
    BY <1>1
  <2>2. \E i \in at : \A j \in at : j <= i
    BY <1>1, <1>3, <2>1, GreatestExists
  <2>3. last \in at /\ \A j \in at : j <= last
    BY <2>2
  <2>4. ASSUME NEW i \in at PROVE Counts(form.filters, i) <=> i = last
    <3>1. \A j \in DOMAIN form.filters :
            form.filters[j].key = form.filters[i].key <=> j \in at
      OBVIOUS
    <3>2. Counts(form.filters, i) <=> \A j \in at : j <= i
      BY <3>1 DEF Counts
    <3>3. at \subseteq Int /\ last \in at /\ i \in at
      BY <1>1, <2>1, <2>3
    <3> HIDE DEF at, last
    <3> QED BY <2>3, <3>2, <3>3
  <2>5. LastOf(form.filters, key, default) = form.filters[last].value
    BY <1>3 DEF LastOf
  <2> QED BY <1>3, <2>3, <2>4, <2>5
<1> QED BY <1>2, <1>3

\* What the loop of CDRRead compares is what the form asks for, of a form without
\* orig_call_id.
LEMMA PassesAsked ==
  ASSUME NEW form \in Forms, NEW cdr \in Records, ~AskedAbout(form, "orig_call_id")
  PROVE  Passes(cdr, Options(form)) <=> Asked(form, cdr)
<1> DEFINE opts == Options(form)
           With(key) == {i \in DOMAIN form.filters : form.filters[i].key = key}
           LastIs(key, x) == \A i \in With(key) :
                               Counts(form.filters, i) => x \in form.filters[i].value
<1>1. InWindow(cdr, opts) <=>
        (form.dateFrom # 0 /\ form.dateTo # 0 => cdr.start \in form.dateFrom..form.dateTo)
  BY FormsAssumption, RecordsAssumption DEF Options, InWindow
<1>2. /\ cdr.from \in Users /\ cdr.to \in Users
      /\ cdr.callID \in CallIDs
  BY RecordsAssumption DEF Users
<1>3. cdr.to \in opts.to <=> LastIs("to", cdr.to)
  BY <1>2, LastCounts DEF Options
<1>4. cdr.callID \in opts.callID <=> LastIs("call_id", cdr.callID)
  BY <1>2, LastCounts DEF Options
<1>5. cdr.callID \in opts.originator
  <2>1. With("orig_call_id") = {}
    BY DEF AskedAbout
  <2> QED BY <1>2, <2>1 DEF Options, LastOf
<1>6. cdr.from \in opts.from <=>
        /\ form.filters # <<>> /\ ~Known(form) => cdr.from \in form.text
        /\ LastIs("from", cdr.from)
  <2>1. CASE form.filters # <<>> /\ ~Known(form)
    <3>1. With("from") = {}
      BY <2>1 DEF Known, Keys
    <3> QED BY <2>1, <3>1 DEF Options
  <2>2. CASE ~(form.filters # <<>> /\ ~Known(form))
    <3>1. opts.from = LastOf(form.filters, "from", Users)
      BY <2>2 DEF Options
    <3>2. cdr.from \in LastOf(form.filters, "from", Users) <=> LastIs("from", cdr.from)
      BY <1>2, LastCounts
    <3> QED BY <2>2, <3>1, <3>2
  <2> QED BY <2>1, <2>2
<1>7. Asked(form, cdr) <=>
        /\ form.dateFrom # 0 /\ form.dateTo # 0 =>
             cdr.start \in form.dateFrom..form.dateTo
        /\ form.filters # <<>> /\ ~Known(form) => cdr.from \in form.text
        /\ LastIs("from", cdr.from) /\ LastIs("to", cdr.to)
        /\ LastIs("call_id", cdr.callID)
  BY DEF Asked
<1> QED BY <1>1, <1>3, <1>4, <1>5, <1>6, <1>7 DEF Passes

\* What the ring of CDRs holds are CDRs.
OwnRecords ==
  storage = "cdr" => \A slot \in Slots : IsSet(slot) => data[slot].about \in Records

\* The slots that the loop has passed and that the form asks for.
Met(slot) == /\ page.i < slot /\ slot <= end /\ IsSet(slot)
             /\ Passes(data[slot].about, Options(page.form))

\* At every slot the rows are the entries met so far, newest first.  A loop that is
\* over has no slot left, or the rows are all that fit, or nothing was ever written.
Rows ==
  page # NoPage =>
    /\ storage = "cdr"
    /\ page.i <= end
    /\ Len(page.rows) <= page.n
    /\ \A k \in DOMAIN page.rows : \E s \in Slots : Met(s) /\ page.rows[k] = data[s]
    /\ \A s \in Slots : Met(s) => \E k \in DOMAIN page.rows : page.rows[k] = data[s]
    /\ \A j, k \in DOMAIN page.rows : j < k => page.rows[j].no > page.rows[k].no
    /\ page.state = "read" => ~Continues

PageInv == IInv /\ OwnRecords /\ Rows

\* Down from the newest entry to slot 0 every slot is set and the entries are older
\* and older.
LEMMA OlderBelow ==
  ASSUME IInv, NEW s \in Slots, NEW t \in Slots, s < t, t <= end, IsSet(t)
  PROVE  IsSet(s) /\ data[s].no < data[t].no
<1> USE CapacityAssumption DEF IInv, TypeOK, Slots
<1>1. data[t].no = Number(t) /\ written > 0
  BY DEF RingOrdered, IsSet, Number
<1>2. end < written
  BY <1>1 DEF RingOrdered
<1>3. Number(s) >= 1
  BY <1>2 DEF Number
<1>4. data[s].no = Number(s)
  BY <1>1, <1>3 DEF RingOrdered, Number
<1> QED BY <1>1, <1>2, <1>3, <1>4 DEF Number, IsSet

LEMMA RecordsKept == ASSUME PageInv, [Next]_vars PROVE OwnRecords'
<1> USE DEF PageInv, IInv, TypeOK
<1>1. ASSUME NEW about \in Contents, Writes(about)
      PROVE  OwnRecords'
  <2>1. \A slot \in Slots :
          data'[slot] = IF slot = Target THEN Newest(about) ELSE data[slot]
    BY <1>1, TargetInRing DEF Writes, Put, Newest
  <2> QED BY <1>1, <2>1 DEF OwnRecords, Writes, IsSet, Newest
<1>2. CASE UNCHANGED ring
  BY <1>2 DEF OwnRecords, IsSet, ring
<1> QED BY Steps, <1>1, <1>2 DEF vars

\* CDRRead begins at the newest entry with no row.
LEMMA PageBegins ==
  ASSUME PageInv, NEW form \in Forms, NEW n \in 1..PageCap, CDRRead(form, n)
  PROVE  Rows'
<1>1. /\ page'.state = "reading" /\ page'.i = end /\ page'.n = n
      /\ page'.rows = <<>> /\ storage = "cdr" /\ UNCHANGED ring
  BY DEF CDRRead
<1>2. end \in Int /\ \A s \in Slots : ~Met(s)'
  BY <1>1 DEF Met, Slots, ring, PageInv, IInv, TypeOK
<1>3. DOMAIN page'.rows = {} /\ Len(page'.rows) = 0
  BY <1>1
<1> QED BY <1>1, <1>2, <1>3 DEF Rows, ring

\* One slot further.
LEMMA PageAdvances == ASSUME PageInv, CDRReadSlot PROVE Rows'
<1> USE CapacityAssumption DEF PageInv
<1>1. /\ page \in Pages /\ page # NoPage /\ page.state = "reading"
      /\ page.i \in Slots /\ page.i \in Int /\ page.i <= end
      /\ Len(page.rows) < page.n /\ IsSet(page.i) /\ storage = "cdr"
  <2>1. page \in Pages /\ page # NoPage
    BY DEF CDRReadSlot, NoPage, IInv, TypeOK
  <2> QED BY <2>1 DEF CDRReadSlot, Continues, Pages, Slots, Rows
<1>2. data[page.i] \in Entries /\ page.rows \in Seq(Entries) /\ page.n \in Nat
  BY <1>1 DEF IInv, TypeOK, IsSet, Unset, Pages
<1>3. /\ UNCHANGED ring /\ page' # NoPage
      /\ page'.state = "reading" /\ page'.form = page.form /\ page'.n = page.n
      /\ page'.i = page.i - 1
      /\ page'.rows = IF Hit THEN Append(page.rows, data[page.i]) ELSE page.rows
  BY <1>1 DEF CDRReadSlot, Pages, NoPage
<1>4. \A s \in Slots : Met(s)' <=> Met(s) \/ (s = page.i /\ Hit)
  BY <1>1, <1>3 DEF Met, Hit, IsSet, Slots, ring
<1>5. \A s \in Slots : Met(s) => s # page.i /\ data[page.i].no < data[s].no
  BY <1>1, OlderBelow DEF Met, Slots
<1>a. /\ page'.i <= end' /\ storage' = "cdr" /\ data' = data /\ Slots' = Slots
      /\ page'.state # "read"
  BY <1>1, <1>3 DEF ring, Slots, IInv, TypeOK
<1>b. /\ Len(page.rows) <= page.n
      /\ \A k \in DOMAIN page.rows : \E s \in Slots : Met(s) /\ page.rows[k] = data[s]
      /\ \A s \in Slots : Met(s) => \E k \in DOMAIN page.rows : page.rows[k] = data[s]
      /\ \A j, k \in DOMAIN page.rows : j < k => page.rows[j].no > page.rows[k].no
  BY <1>1 DEF Rows
<1>6. CASE ~Hit
  <2>1. page'.rows = page.rows /\ page'.n = page.n
    BY <1>3, <1>6
  <2>2. \A s \in Slots : Met(s)' <=> Met(s)
    BY <1>4, <1>6
  <2> QED BY <1>a, <1>b, <2>1, <2>2 DEF Rows
<1>7. CASE Hit
  <2> DEFINE new == Len(page.rows) + 1
             old == DOMAIN page.rows
  <2>1. /\ DOMAIN page'.rows = old \union {new} /\ Len(page'.rows) = new
        /\ page'.rows[new] = data[page.i]
        /\ \A k \in old : page'.rows[k] = page.rows[k] /\ k < new /\ k \in Nat
        /\ new <= page.n
    BY <1>1, <1>2, <1>3, <1>7
  <2>2. /\ \A k \in old : \E s \in Slots : Met(s) /\ page.rows[k] = data[s]
        /\ \A s \in Slots : Met(s) => \E k \in old : page.rows[k] = data[s]
        /\ \A j, k \in old : j < k => page.rows[j].no > page.rows[k].no
    BY <1>b
  <2>3. UNCHANGED data
    BY <1>a
  <2> HIDE DEF new, old
  <2>4. ASSUME NEW k \in DOMAIN page'.rows
        PROVE  \E s \in Slots : Met(s)' /\ page'.rows[k] = data'[s]
    <3>1. CASE k = new
      BY <1>1, <1>4, <1>7, <2>1, <2>3, <3>1
    <3>2. CASE k \in old
      BY <1>4, <2>1, <2>2, <2>3, <3>2
    <3> QED BY <2>1, <3>1, <3>2
  <2>5. ASSUME NEW s \in Slots, Met(s)'
        PROVE  \E k \in DOMAIN page'.rows : page'.rows[k] = data'[s]
    <3>1. CASE Met(s)
      BY <2>1, <2>2, <2>3, <3>1
    <3>2. CASE s = page.i
      BY <2>1, <2>3, <3>2
    <3> QED BY <1>4, <2>5, <3>1, <3>2
  <2>6. ASSUME NEW j \in DOMAIN page'.rows, NEW k \in DOMAIN page'.rows, j < k
        PROVE  page'.rows[j].no > page'.rows[k].no
    <3>1. j \in old
      <4>1. CASE j = new
        BY <1>2, <2>1, <2>6, <4>1 DEF new
      <4> QED BY <2>1, <4>1
    <3>2. CASE k \in old
      BY <2>1, <2>2, <2>6, <3>1, <3>2
    <3>3. CASE k = new
      <4>1. PICK s \in Slots : Met(s) /\ page.rows[j] = data[s]
        BY <2>2, <3>1
      <4>2. data[s] \in Entries
        BY <4>1 DEF Met, IsSet, Unset, IInv, TypeOK
      <4>3. data[page.i].no < data[s].no
        BY <1>5, <4>1
      <4> QED BY <1>2, <2>1, <3>1, <3>3, <4>1, <4>2, <4>3 DEF Entries
    <3> QED BY <2>1, <3>2, <3>3
  <2> QED BY <1>3, <1>a, <2>1, <2>4, <2>5, <2>6 DEF Rows
<1> QED BY <1>6, <1>7

\* The loop ends, the lock is given back, and nothing else touches a page.
LEMMA PageKept ==
  ASSUME PageInv, \/ UNCHANGED <<ring, page>>
                  \/ UNCHANGED <<ring, find>> /\ CDRReadEnds
                  \/ UNCHANGED <<ring, find>> /\ CDRReadReturns
                  \/ \E about \in Contents : Writes(about)
  PROVE  Rows'
<1> USE DEF PageInv
<1>1. CASE UNCHANGED <<ring, page>>
  BY <1>1 DEF Rows, Met, Continues, IsSet, ring
<1>2. CASE UNCHANGED <<ring, find>> /\ CDRReadEnds
  <2>1. page \in Pages /\ page # NoPage
    BY <1>2 DEF CDRReadEnds, NoPage, IInv, TypeOK
  <2>2. /\ page'.form = page.form /\ page'.n = page.n /\ page'.i = page.i
        /\ page'.rows = page.rows
    BY <1>2, <2>1 DEF CDRReadEnds, Pages
  <2>3. ~Continues'
    BY <1>2, <2>2 DEF CDRReadEnds, Continues, IsSet, ring
  <2>4. \A s \in Slots : Met(s)' <=> Met(s)
    BY <1>2, <2>2 DEF Met, IsSet, ring
  <2> QED BY <1>2, <2>1, <2>2, <2>3, <2>4 DEF Rows, ring
<1>3. CASE UNCHANGED <<ring, find>> /\ CDRReadReturns
  BY <1>3 DEF CDRReadReturns, Rows
<1>4. ASSUME NEW about \in Contents, Writes(about)
      PROVE  Rows'
  <2>1. page' = page
    BY <1>4 DEF Writes
  <2>2. CASE storage = "cdr"
    BY <1>4, <2>1, <2>2 DEF Writes, Rows
  <2>3. CASE storage # "cdr"
    BY <2>1, <2>3 DEF Rows
  <2> QED BY <2>2, <2>3
<1> QED BY <1>1, <1>2, <1>3, <1>4

\* The entries that are hidden are those of the slots after end, and there are none
\* before the ring has started over.
LEMMA HiddenAfterEnd ==
  ASSUME IInv, NEW s \in Slots, IsSet(s)
  PROVE  /\ data[s] \in Hidden <=> s > end
         /\ s > end => written > Capacity
<1> USE CapacityAssumption DEF IInv, TypeOK, Slots
<1>1. data[s].no = Number(s) /\ Number(s) >= 1 /\ written > 0
  BY DEF RingOrdered, IsSet, Number
<1>2. end < written /\ (written \in 1..Capacity => end + 1 = written)
  BY <1>1 DEF RingOrdered
<1>3. data[0].no = written - end
  BY <1>1, <1>2 DEF RingOrdered
<1>4. data[s].no < data[0].no <=> s > end
  BY <1>1, <1>2, <1>3 DEF Number
<1>5. data[s] \in Stored
  BY DEF Stored
<1>6. data[s] \in Hidden <=> s > end
  BY <1>4, <1>5 DEF Hidden
<1>7. s > end => written > Capacity
  BY <1>1, <1>2 DEF Number
<1> QED BY <1>6, <1>7

\* When the loop is over its rows are the page that was asked for.
LEMMA RowsArePage == ASSUME PageInv PROVE PageFaithful
<1> USE CapacityAssumption DEF PageInv
<1> SUFFICES ASSUME page.state = "read", ~AskedAbout(page.form, "orig_call_id")
             PROVE  PageFaithful
  BY DEF PageFaithful
<1> DEFINE asked == {e \in Stored : Asked(page.form, e.about)}
           rows == page.rows
<1>1. page \in Pages /\ page # NoPage
  BY DEF NoPage, IInv, TypeOK
<1>2. /\ storage = "cdr" /\ Len(rows) <= page.n /\ page.i <= end /\ ~Continues
      /\ \A k \in DOMAIN rows : \E s \in Slots : Met(s) /\ rows[k] = data[s]
      /\ \A s \in Slots : Met(s) => \E k \in DOMAIN rows : rows[k] = data[s]
      /\ \A j, k \in DOMAIN rows : j < k => rows[j].no > rows[k].no
  BY <1>1 DEF Rows
<1>3. /\ page.form \in Forms /\ page.n \in Nat /\ page.n >= 1 /\ page.i \in Int
      /\ rows \in Seq(Entries) /\ end \in Slots /\ 0..end \subseteq Slots
      /\ page.i >= 0 => page.i \in Slots
  BY <1>1 DEF Pages, IInv, TypeOK, Slots
<1>4. \A s \in Slots : IsSet(s) =>
        (Passes(data[s].about, Options(page.form)) <=> Asked(page.form, data[s].about))
  BY <1>2, <1>3, PassesAsked DEF OwnRecords
<1> HIDE DEF rows
<1>5. ASSUME NEW k \in DOMAIN rows PROVE rows[k] \in asked \ Hidden
  <2>1. PICK s \in Slots : Met(s) /\ rows[k] = data[s]
    BY <1>2
  <2>2. s \in Slots /\ IsSet(s) /\ ~(s > end)
    BY <1>3, <2>1 DEF Met, Slots
  <2>3. rows[k] \in Stored /\ rows[k] \notin Hidden
    BY <2>1, <2>2, HiddenAfterEnd DEF Stored
  <2> QED BY <1>4, <2>1, <2>2, <2>3 DEF Met
<1>6. ASSUME NEW e \in asked
      PROVE  \/ \E k \in DOMAIN rows : rows[k] = e
             \/ Len(rows) = page.n /\ e.no < rows[page.n].no
             \/ e \in Hidden /\ written > Capacity
  <2>0. PICK s \in Slots : IsSet(s) /\ e = data[s] /\ Asked(page.form, e.about)
    BY DEF Stored
  <2>a. CASE s > end
    BY <2>0, <2>a, HiddenAfterEnd
  <2> SUFFICES ASSUME s <= end
               PROVE  \/ \E k \in DOMAIN rows : rows[k] = e
                      \/ Len(rows) = page.n /\ e.no < rows[page.n].no
    BY <1>3, <2>a DEF Slots
  <2>1. s <= end /\ IsSet(s) /\ e = data[s] /\ Asked(page.form, e.about)
    BY <2>0
  <2>2. CASE page.i < s
    <3>1. Met(s)
      BY <1>4, <2>1, <2>2 DEF Met
    <3> QED BY <1>2, <2>1, <3>1
  <2>3. CASE ~(page.i < s)
    <3>1. page.i \in Slots /\ s <= page.i
      BY <1>3, <2>3 DEF Slots
    <3>2. IsSet(page.i)
      <4>1. end \in Slots /\ s \in Int /\ page.i \in Int /\ end \in Int
        BY <1>3, <3>1 DEF Slots
      <4>2. data[s].no = Number(s) /\ written > 0
        BY <2>1 DEF IInv, RingOrdered, IsSet, Number
      <4>3. end < written /\ written \in Nat
        BY <4>2 DEF IInv, RingOrdered, TypeOK
      <4>4. Number(page.i) >= 1
        BY <1>2, <3>1, <4>1, <4>3 DEF Number, Slots
      <4> QED BY <3>1, <4>2, <4>4 DEF IInv, RingOrdered, IsSet, Number
    <3>3. Len(rows) = page.n
      BY <1>2, <1>3, <3>1, <3>2 DEF Continues, Slots, rows
    <3>4. page.n \in DOMAIN rows
      BY <1>3, <3>3
    <3>5. PICK t \in Slots : Met(t) /\ rows[page.n] = data[t]
      BY <1>2, <3>4
    <3>6. s < t /\ t <= end /\ IsSet(t)
      BY <1>3, <3>1, <3>5 DEF Met, Slots
    <3>7. data[s].no < data[t].no
      BY <3>6, OlderBelow
    <3> QED BY <2>1, <3>3, <3>5, <3>7
  <2> QED BY <2>2, <2>3
<1> QED BY <1>2, <1>5, <1>6 DEF PageFaithful, rows

\* cdr_storage.go:89-130, http.go:257-333: for every capacity, every length of the
\* buffer and every form without orig_call_id, a page has the newest calls of those
\* that the form's dates and its filters for from, to and call_id ask for; what it
\* leaves out did not fit, or is what was stored before the ring last started over.
THEOREM PageCorrect == Spec => []PageFaithful
<1>1. Init => PageInv
  BY InitIInv DEF Init, PageInv, OwnRecords, Rows, IsSet, Unset, Slots
<1>2. PageInv /\ [Next]_vars => PageInv'
  <2> SUFFICES ASSUME PageInv, [Next]_vars PROVE PageInv'
    OBVIOUS
  <2>1. IInv'
    BY TypeStep, RingStep DEF PageInv, IInv
  <2>2. OwnRecords'
    BY RecordsKept
  <2>3. ASSUME UNCHANGED vars PROVE Rows'
    BY <2>3, PageKept DEF vars
  <2>4. ASSUME Next PROVE Rows'
    BY <2>4, Steps, PageBegins, PageAdvances, PageKept
  <2> QED BY <2>1, <2>2, <2>3, <2>4 DEF PageInv
<1>3. PageInv => PageFaithful
  BY RowsArePage
<1> QED BY <1>1, <1>2, <1>3, PTL DEF Spec

-----------------------------------------------------------------------------
(* The log of the newest entries                                            *)

\* How many entries are kept, and the slot of the i-th of them.
Size == IF written < Capacity THEN written ELSE Capacity
SlotOf(i) == IF i <= Size - (end + 1) THEN end + i
             ELSE i - (Size - (end + 1)) - 1

KeptOK == /\ Kept \in Seq(Entries)
          /\ Len(Kept) = Size
          /\ \A i \in 1..Size : SlotOf(i) \in Slots /\ Kept[i] = data[SlotOf(i)]

LEMMA KeptShape == ASSUME IInv PROVE KeptOK
<1> USE CapacityAssumption DEF IInv
<1>1. CASE written = 0
  <2>1. end = 0 /\ ~IsSet(Capacity - 1)
    BY <1>1 DEF RingOrdered, IsSet, Slots
  <2>2. Size = 0 /\ Kept = [i \in 1..0 |-> data[IF i <= 0 THEN end + i ELSE i - 0 - 1]]
    BY <1>1, <2>1 DEF Kept, Size
  <2>3. Kept = <<>>
    BY <2>2
  <2> QED BY <2>2, <2>3, EmptySeq DEF KeptOK
<1>2. CASE written > 0
  <2> DEFINE older == IF IsSet(Capacity - 1) THEN Capacity - 1 - end ELSE 0
  <2>1. /\ end \in 0..(Capacity - 1) /\ end < written /\ written \in Nat
        /\ (written <= Capacity => end + 1 = written)
    BY <1>2 DEF TypeOK, Slots, RingOrdered
  <2>2. data[Capacity - 1].no = IF Number(Capacity - 1) >= 1
                                THEN Number(Capacity - 1) ELSE 0
    BY <1>2 DEF RingOrdered, Slots, Number
  <2>3. older + end + 1 = Size /\ older = Size - (end + 1)
    BY <2>1, <2>2 DEF IsSet, Number, Size
  <2>4. Kept = [i \in 1..Size |-> data[SlotOf(i)]]
    <3>1. older + (end + 1) = Size
      BY <2>1, <2>3 DEF Size
    <3>2. Kept = [i \in 1..(older + (end + 1)) |->
                    data[IF i <= older THEN end + i ELSE i - older - 1]]
      BY <1>2 DEF Kept
    <3> HIDE DEF older
    <3> QED BY <2>3, <3>1, <3>2 DEF SlotOf
  <2>5. ASSUME NEW i \in 1..Size PROVE SlotOf(i) \in Slots /\ data[SlotOf(i)] \in Entries
    <3>1. SlotOf(i) \in Slots
      BY <2>1 DEF SlotOf, Size, Slots
    <3>2. Number(SlotOf(i)) >= 1
      BY <2>1 DEF SlotOf, Size, Number
    <3>3. data[SlotOf(i)].no = Number(SlotOf(i))
      BY <1>2, <3>1, <3>2 DEF RingOrdered, Number
    <3>4. data[SlotOf(i)] # Unset
      BY <2>1, <3>2, <3>3 DEF Unset
    <3> QED BY <3>1, <3>4 DEF TypeOK
  <2>6. Size \in Nat
    BY <2>1 DEF Size
  <2> HIDE DEF older
  <2>7. Kept \in [1..Size -> Entries]
    BY <2>4, <2>5
  <2>8. Kept \in Seq(Entries) /\ Len(Kept) = Size
    BY <2>6, <2>7
  <2> QED BY <2>4, <2>5, <2>8 DEF KeptOK
<1> QED BY <1>1, <1>2 DEF TypeOK

\* A write appends the new entry and, when the ring is full, drops the oldest.
LEMMA LogGrows ==
  ASSUME IInv, IInv', NEW about \in Contents, Put(about), written < MaxWrites
  PROVE  Log!Add(Newest(about)) /\ Newest(about) \in Entries
<1> USE CapacityAssumption DEF IInv
<1> DEFINE rest == IF Len(Kept) < Capacity THEN Kept ELSE Tail(Kept)
           grown == Append(rest, Newest(about))
<1>1. Newest(about) \in Entries
  BY DEF Newest, Entries, TypeOK
<1>2. /\ written' = written + 1 /\ written \in Nat /\ end' = Target
      /\ end \in 0..(Capacity - 1)
      /\ written = 0 => ind = 0 /\ end = 0
      /\ written > 0 => ind = end + 1 /\ end < written
      /\ written \in 1..Capacity => end + 1 = written
      /\ Size \in Nat
  BY DEF Put, TypeOK, Slots, RingOrdered, Size
<1>3. \A slot \in Slots :
        data'[slot] = IF slot = Target THEN Newest(about) ELSE data[slot]
  BY TargetInRing DEF Put, TypeOK, Newest
<1>4. /\ rest \in Seq(Entries)
      /\ Len(rest) = IF Size < Capacity THEN Size ELSE Capacity - 1
      /\ \A i \in 1..Len(rest) :
           rest[i] = Kept[IF Size < Capacity THEN i ELSE i + 1]
  <2>1. CASE Size < Capacity
    BY <2>1, KeptShape DEF KeptOK
  <2>2. CASE ~(Size < Capacity)
    <3>1. Size = Capacity
      BY <2>2 DEF Size
    <3>2. Kept # <<>>
      BY <3>1, KeptShape DEF KeptOK
    <3> QED BY <2>2, <3>1, <3>2, KeptShape, HeadTailProperties DEF KeptOK
  <2> QED BY <2>1, <2>2
<1> HIDE DEF rest
<1>5. /\ grown \in Seq(Entries)
      /\ Len(grown) = Len(rest) + 1
      /\ grown[Len(rest) + 1] = Newest(about)
      /\ \A i \in 1..Len(rest) : grown[i] = rest[i]
  BY <1>1, <1>4
<1>a. KeptOK'
  BY KeptShape, PTL
<1>6. /\ Kept' \in Seq(Entries') /\ Len(Kept') = Size'
      /\ \A i \in 1..Size' : SlotOf(i)' \in Slots /\ Kept'[i] = data'[SlotOf(i)']
  BY <1>a DEF KeptOK
<1>7. Entries' = Entries
  BY DEF Entries
<1>8. Size' = Len(rest) + 1
  BY <1>2, <1>4 DEF Size
<1>9. ASSUME NEW i \in 1..Size' PROVE Kept'[i] = grown[i]
  <2>1. CASE i = Size'
    <3>1. SlotOf(i)' = Target
      BY <1>2, <2>1 DEF SlotOf, Size, Target
    <3> QED BY <1>3, <1>5, <1>6, <1>8, <2>1, <3>1, TargetInRing
  <2>2. CASE i # Size'
    <3> DEFINE k == IF Size < Capacity THEN i ELSE i + 1
    <3>1. i \in 1..Len(rest) /\ k \in 1..Size
      BY <1>2, <1>4, <1>8, <2>2 DEF Size
    <3>2. SlotOf(i)' = SlotOf(k) /\ SlotOf(k) # Target
      <4>1. CASE written < Capacity
        <5>1. /\ Target = end + 1 /\ end' = end + 1 /\ k = i
              /\ end + 1 = written /\ i \in 1..written
              /\ Size = written /\ Size' = written + 1
          <6>1. Size = written /\ k = i /\ Size' = written + 1
            BY <1>2, <4>1 DEF Size
          <6>2. i \in 1..written
            BY <3>1, <6>1
          <6>3. end + 1 = written
            BY <1>2, <4>1, <6>2
          <6>4. ind = end + 1
            BY <1>2, <6>2
          <6>5. Target = end + 1
            BY <1>2, <4>1, <6>3, <6>4 DEF Target
          <6> QED BY <1>2, <6>1, <6>2, <6>3, <6>5
        <5> HIDE DEF k
        <5> QED BY <1>2, <5>1 DEF SlotOf
      <4>2. CASE written >= Capacity /\ ind = Capacity
        BY <1>2, <3>1, <4>2 DEF SlotOf, Size, Target
      <4>3. CASE written >= Capacity /\ ind # Capacity
        <5>1. /\ Target = end + 1 /\ end' = end + 1 /\ k = i + 1
              /\ Size = Capacity /\ Size' = Capacity /\ i \in 1..(Capacity - 1)
          BY <1>2, <3>1, <4>3 DEF Size, Target
        <5> HIDE DEF k
        <5> QED BY <1>2, <5>1 DEF SlotOf
      <4> QED BY <1>2, <4>1, <4>2, <4>3
    <3>3. Kept'[i] = Kept[k]
      BY <1>3, <1>6, <3>1, <3>2, KeptShape DEF KeptOK
    <3> QED BY <1>4, <1>5, <3>1, <3>3
  <2> QED BY <2>1, <2>2
<1>10. Kept' = grown
  BY <1>5, <1>6, <1>7, <1>8, <1>9, SeqEqual
<1> QED BY <1>1, <1>10 DEF Log!Add, rest

\* cdr_storage.go:72-87, 248-258: for every capacity the ring is a log of the
\* newest entries, as many as fit.
THEOREM LogImplemented == Spec => LogSpec
<1>1. Init => Log!Init
  <2> SUFFICES ASSUME Init PROVE Kept = <<>>
    BY DEF Log!Init
  <2>1. Size = 0
    BY CapacityAssumption DEF Init, Size
  <2> QED BY <2>1, InitIInv, KeptShape, EmptySeq DEF KeptOK
<1>2. IInv /\ IInv' /\ [Next]_vars => [Log!Next]_Kept
  <2> SUFFICES ASSUME IInv, IInv', [Next]_vars PROVE [Log!Next]_Kept
    OBVIOUS
  <2>1. ASSUME UNCHANGED <<data, end, written>> PROVE Kept' = Kept
    BY <2>1 DEF Kept, IsSet
  <2>2. ASSUME NEW about \in Contents, Put(about), written < MaxWrites
        PROVE  Log!Next
    BY <2>2, LogGrows DEF Log!Next
  <2> QED BY <2>1, <2>2, Steps DEF vars, ring, Writes
<1> QED
  BY <1>1, <1>2, Invariance, PTL DEF Spec, LogSpec, Log!Spec
=============================================================================
