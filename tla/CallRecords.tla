---------------------------- MODULE CallRecords ----------------------------
(***************************************************************************)
(* The storages of src/cdr_storage.go and the pages of src/http.go that    *)
(* read them: the history of calls and the SIP messages of one call.       *)
(*                                                                         *)
(* CDRMemoryStorage and SipTracerMemoryStorage are the same ring under the *)
(* same kind of lock.  They share no state, so a run is of one of them     *)
(* (storage).  CDRWrite and writeTrace hold the lock from end to end and   *)
(* are one step each; CDRRead holds it too and is one step per slot.       *)
(* SIPTraceFind gives it back around each call of its callback, so that    *)
(* messages are written while a page is rendered.                          *)
(***************************************************************************)
EXTENDS Integers, Sequences

CONSTANTS Capacity,   \* len(data): 10000 in the code
          Records,    \* what CDRs say: callID, originator, start, from, to, mes
          Messages,   \* SIP messages: callID, originator, originatorFirst
          CallIDs,    \* values of the header Call-ID
          NoID,       \* no such header, or a field left empty
          HeaderText, \* a value that still has its header's name in front
          Forms,      \* what pageHistory is asked: dateFrom, dateTo, filters, text
          PageCap,    \* bound: the longest buffer given to CDRRead, 100 in the code
          MaxWrites   \* bound: entries written in a run

ASSUME CapacityAssumption == Capacity \in Nat \ {0} /\ MaxWrites \in Nat
ASSUME PageCapAssumption == PageCap \in Nat \ {0}
ASSUME CallIDsAssumption == NoID \notin CallIDs /\ HeaderText \notin CallIDs
ASSUME RecordsAssumption ==
  \A cdr \in Records : /\ cdr.start \in Nat /\ cdr.mes \in Nat
                        /\ {cdr.callID, cdr.originator} \subseteq CallIDs
ASSUME FormsAssumption ==
  \A form \in Forms :
    /\ form.dateFrom \in Nat /\ form.dateTo \in Nat
    /\ Len(form.filters) \in Nat
    /\ form.filters = [i \in 1..Len(form.filters) |-> form.filters[i]]

VARIABLES
  storage,  \* which of the two is modelled, chosen once
  data,     \* data: an entry per slot, numbered in the order of writing
  ind,      \* ind: where the next entry goes
  end,      \* end: where the newest entry is
  written,  \* how many entries were ever written
  page,     \* the CDRRead that holds the lock: its arguments, i and buf[:n]
  find      \* the SIPTraceFind of a page: what it looks for and where it is

ring == <<storage, data, ind, end, written>>
vars == <<ring, page, find>>

Slots == 0..(Capacity - 1)

\* A slot no entry was written to: the zero StartTime and the empty CallID.
Unset == [no |-> 0]
IsSet(slot) == data[slot].no # 0

----------------------------------------------------------------------------
(* What is written                                                          *)

\* parseSIPTrace looks for the text "Call-ID:", which "X-Orig-Call-ID:" ends
\* with: the first of the two headers is taken for the message's own.
FirstCallID(m) ==
  IF m.originator # NoID /\ (m.originatorFirst \/ m.callID = NoID)
  THEN m.originator ELSE m.callID

\* TrimLeft(callid, "Call-ID:") takes characters off, not a name, and stops at
\* the X of X-Orig-Call-ID: the value of that header is no Call-ID.
Linked(m) == IF m.originator = NoID THEN NoID ELSE HeaderText

parseSIPTrace(m) ==
  IF FirstCallID(m) = NoID
  THEN [callID |-> NoID, originator |-> NoID]
  ELSE [callID |-> FirstCallID(m), originator |-> Linked(m)]

Traces == {parseSIPTrace(m) : m \in Messages}
Contents == Records \union Traces
Entries == [no : 1..MaxWrites, about : Contents]

NoPage == [state |-> "none"]
Pages == [state : {"reading", "read"}, form : Forms, n : 1..PageCap,
          i : -1..(Capacity - 1), rows : Seq(Entries)]

NoFind == [state |-> "none"]
Finds == [state : {"running", "done"}, callID : CallIDs, pos : 0..Capacity,
          since : Nat, got : Seq(Entries)]

TypeOK == /\ storage \in {"cdr", "trace"}
          /\ data \in [Slots -> Entries \union {Unset}]
          /\ ind \in 0..Capacity
          /\ end \in Slots
          /\ written \in 0..MaxWrites
          /\ page \in Pages \union {NoPage}
          /\ find \in Finds \union {NoFind}

Init == /\ storage \in {"cdr", "trace"}
        /\ data = [slot \in Slots |-> Unset]
        /\ ind = 0
        /\ end = 0
        /\ written = 0
        /\ page = NoPage
        /\ find = NoFind

\* Mutants: the ring starts over one slot late, or at its second slot, or leaves
\* end behind.
Target_Late == IF ind > Capacity THEN 0 ELSE ind
Target_Second == IF ind = Capacity THEN 1 ELSE ind
Put_KeepsEnd(about) ==
  LET slot == IF ind = Capacity THEN 0 ELSE ind IN
  /\ data' = [data EXCEPT ![slot] = [no |-> written + 1, about |-> about]]
  /\ ind' = slot + 1
  /\ end' = IF slot = 0 THEN end ELSE slot
  /\ written' = written + 1

Target == IF ind = Capacity THEN 0 ELSE ind

Put(about) ==
  /\ data' = [data EXCEPT ![Target] = [no |-> written + 1, about |-> about]]
  /\ end' = Target
  /\ ind' = Target + 1
  /\ written' = written + 1

CDRWrite(cdr) ==
  /\ storage = "cdr"
  /\ page = NoPage
  /\ written < MaxWrites
  /\ Put(cdr)
  /\ UNCHANGED <<storage, page, find>>

writeTrace(m) ==
  /\ storage = "trace"
  /\ written < MaxWrites
  /\ Put(parseSIPTrace(m))
  /\ UNCHANGED <<storage, page, find>>

----------------------------------------------------------------------------
(* The history of calls                                                     *)

\* pageHistory reads a form: two dates, of which one alone is ignored, and a
\* list of filters, of which the last one of a key counts.  A pattern is the
\* set of the values that contain it.  A list without any known key is a
\* pattern for the caller; mes must be a number, and CDRRead never looks at it.
LastOf(filters, key, default) ==
  LET at == {i \in DOMAIN filters : filters[i].key = key} IN
  IF at = {} THEN default
  ELSE filters[CHOOSE i \in at : \A j \in at : j <= i].value

Keys == {"from", "to", "call_id", "orig_call_id", "mes"}
Known(form) == \E i \in DOMAIN form.filters : form.filters[i].key \in Keys

BadRequest(form) == \E i \in DOMAIN form.filters :
                      form.filters[i].key = "mes" /\ form.filters[i].value = {}

Users == {r.from : r \in Records} \union {r.to : r \in Records}

Options(form) ==
  [fromTime |-> IF form.dateTo = 0 THEN 0 ELSE form.dateFrom,
   toTime |-> IF form.dateFrom = 0 THEN 0 ELSE form.dateTo,
   from |-> IF form.filters # <<>> /\ ~Known(form) THEN form.text
            ELSE LastOf(form.filters, "from", Users),
   to |-> LastOf(form.filters, "to", Users),
   callID |-> LastOf(form.filters, "call_id", CallIDs),
   originator |-> LastOf(form.filters, "orig_call_id", CallIDs)]

\* The conditions of CDRRead.  The last one, of orig_call_id, compares CallID.
InWindow(cdr, opts) ==
  opts.fromTime # 0 /\ opts.toTime # 0 =>
    opts.fromTime <= cdr.start /\ cdr.start <= opts.toTime

Passes(cdr, opts) == /\ InWindow(cdr, opts)
                     /\ cdr.from \in opts.from
                     /\ cdr.to \in opts.to
                     /\ cdr.callID \in opts.callID
                     /\ cdr.callID \in opts.originator

\* pageHistory with a form that it can read: the lock, the first slot.
CDRRead(form, n) ==
  /\ storage = "cdr"
  /\ page = NoPage
  /\ ~BadRequest(form)
  /\ page' = [state |-> "reading", form |-> form, n |-> n, i |-> end, rows |-> <<>>]
  /\ UNCHANGED <<ring, find>>

\* The conditions on which the loop goes on.
Continues == page.i >= 0 /\ Len(page.rows) < page.n /\ IsSet(page.i)

Hit == Passes(data[page.i].about, Options(page.form))

CDRReadSlot ==
  /\ page.state = "reading"
  /\ Continues
  /\ page' = [page EXCEPT !.i = @ - 1,
                          !.rows = IF Hit THEN Append(@, data[page.i]) ELSE @]
  /\ UNCHANGED <<ring, find>>

\* Mutant: an entry that does not pass is a reason to stop.
CDRReadEnds_AtMiss ==
  /\ page.state = "reading"
  /\ Continues => ~Hit
  /\ page' = [page EXCEPT !.state = "read"]
  /\ UNCHANGED <<ring, find>>

CDRReadEnds ==
  /\ page.state = "reading"
  /\ ~Continues
  /\ page' = [page EXCEPT !.state = "read"]
  /\ UNCHANGED <<ring, find>>

\* The deferred Unlock.
CDRReadReturns ==
  /\ page.state = "read"
  /\ page' = NoPage
  /\ UNCHANGED <<ring, find>>

----------------------------------------------------------------------------
(* The messages of one call                                                 *)

OfCall(id, slot) ==
  IsSet(slot) /\ id \in {data[slot].about.callID, data[slot].about.originator}

\* pageHistorySipTrace begins: a request without callid is refused.
SIPTraceFind(id) ==
  /\ storage = "trace"
  /\ find.state # "running"
  /\ find' = [state |-> "running", callID |-> id, pos |-> 0,
              since |-> written, got |-> <<>>]
  /\ UNCHANGED <<ring, page>>

\* The lock is held from one match to the next; with the entry copied it is
\* given up, and the callback writes the entry to the page.
FindNext ==
  /\ find.state = "running"
  /\ \E slot \in find.pos..(Capacity - 1) :
       /\ OfCall(find.callID, slot)
       /\ \A s \in find.pos..(slot - 1) : ~OfCall(find.callID, s)
       /\ find' = [find EXCEPT !.pos = slot + 1, !.got = Append(@, data[slot])]
  /\ UNCHANGED <<ring, page>>

FindEnds_Newest ==  \* mutant: stops at end, as CDRRead does
  /\ find.state = "running"
  /\ \A s \in find.pos..end : ~OfCall(find.callID, s)
  /\ find' = [find EXCEPT !.state = "done"]
  /\ UNCHANGED <<ring, page>>

FindEnds ==
  /\ find.state = "running"
  /\ \A s \in find.pos..(Capacity - 1) : ~OfCall(find.callID, s)
  /\ find' = [find EXCEPT !.state = "done"]
  /\ UNCHANGED <<ring, page>>

----------------------------------------------------------------------------
Next == \/ \E cdr \in Records : CDRWrite(cdr)
        \/ \E m \in Messages : writeTrace(m)
        \/ \E form \in Forms, n \in 1..PageCap : CDRRead(form, n)
        \/ CDRReadSlot \/ CDRReadEnds \/ CDRReadReturns
        \/ \E id \in CallIDs : SIPTraceFind(id)
        \/ FindNext \/ FindEnds

Spec == Init /\ [][Next]_vars
----------------------------------------------------------------------------
(* Properties                                                               *)

\* However often the ring has started over, its slots hold the newest entries:
\* up to end those of this lap, after it those of the lap before
\* (cdr_storage.go:72-87, 248-258).
RingOrdered ==
  /\ written = 0 => ind = 0 /\ end = 0
  /\ written > 0 => ind = end + 1 /\ end < written
  /\ written \in 1..Capacity => end + 1 = written
  /\ \A slot \in Slots :
       LET no == IF slot <= end THEN written - end + slot
                 ELSE written - end - Capacity + slot
       IN  data[slot].no = IF no >= 1 /\ written > 0 THEN no ELSE 0

\* What a form asks for by its dates and its filters for from, to and call_id, of
\* each key the last; the two other filters are below.
Counts(filters, i) ==
  \A j \in DOMAIN filters : filters[j].key = filters[i].key => j <= i

Asked(form, cdr) ==
  /\ form.dateFrom # 0 /\ form.dateTo # 0 =>
       cdr.start \in form.dateFrom..form.dateTo
  /\ form.filters # <<>> /\ ~Known(form) => cdr.from \in form.text
  /\ \A i \in DOMAIN form.filters : Counts(form.filters, i) =>
       LET filter == form.filters[i] IN
         /\ filter.key = "from" => cdr.from \in filter.value
         /\ filter.key = "to" => cdr.to \in filter.value
         /\ filter.key = "call_id" => cdr.callID \in filter.value

AskedAbout(form, key) == \E i \in DOMAIN form.filters : form.filters[i].key = key

Stored == {data[slot] : slot \in {s \in Slots : IsSet(s)}}

\* The entries of the lap before the present one: slot 0 was written over since.
Hidden == {e \in Stored : e.no < data[0].no}

\* A page of the history has the newest calls that the form asks for, newest
\* first, each once, and leaves out a stored call only for want of room or because
\* the ring has started over since it ended: right after that a page has one call
\* at most of the Capacity that are stored (cdr_storage.go:93-130,
\* http.go:257-333).  This is of forms without orig_call_id; a filter for mes
\* changes nothing.
PageFaithful ==
  page.state = "read" /\ ~AskedAbout(page.form, "orig_call_id") =>
  LET asked == {e \in Stored : Asked(page.form, e.about)}
      rows == page.rows
  IN  /\ Len(rows) <= page.n
      /\ \A i \in DOMAIN rows : rows[i] \in asked \ Hidden
      /\ \A i, j \in DOMAIN rows : i < j => rows[i].no > rows[j].no
      /\ \A e \in asked :
           \/ \E i \in DOMAIN rows : rows[i] = e
           \/ Len(rows) = page.n /\ e.no < rows[page.n].no
           \/ e \in Hidden /\ written > Capacity

\* "orig_call_id:<originator call id>" (frontend/history.html:12): the calls of a
\* page are those of the originator that is asked for, outgoing legs included.
OfOriginator(form, cdr) ==
  \A i \in DOMAIN form.filters :
    form.filters[i].key = "orig_call_id" /\ Counts(form.filters, i) =>
      cdr.originator \in form.filters[i].value

OriginatorHonoured ==
  page.state = "read" =>
  LET asked == {e \in Stored \ Hidden :
                  Asked(page.form, e.about) /\ OfOriginator(page.form, e.about)}
      shown == {page.rows[i] : i \in DOMAIN page.rows}
  IN  shown \subseteq asked /\ (Len(page.rows) < page.n => shown = asked)

\* "mes: <0.0-1.0>" (frontend/history.html:12): a score that is asked for is a
\* bound, from below or from above, of those of the calls that are shown.
ScoreBounds(form, mes) ==
  \A i \in DOMAIN form.filters :
    form.filters[i].key = "mes" /\ Counts(form.filters, i) =>
      \A bound \in form.filters[i].value :
        (\A m \in mes : m >= bound) \/ (\A m \in mes : m <= bound)

ScoreHonoured ==
  page.state = "read" =>
    ScoreBounds(page.form, {page.rows[i].about.mes : i \in DOMAIN page.rows})

\* Messages are written between two callbacks of a find; all the same each
\* message that was there before and is still in the ring is shown once, in
\* the slots passed so far while it runs and in all of them when it is done
\* (cdr_storage.go:260-271).
FindFaithful ==
  find.state # "none" =>
  LET passed == IF find.state = "done" THEN Slots ELSE 0..(find.pos - 1) IN
  /\ \A slot \in passed :
       OfCall(find.callID, slot) /\ data[slot].no <= find.since =>
         \E i \in DOMAIN find.got : find.got[i] = data[slot]
  /\ \A i, j \in DOMAIN find.got : find.got[i].no = find.got[j].no => i = j
  /\ \A i \in DOMAIN find.got :
       find.callID \in {find.got[i].about.callID, find.got[i].about.originator}

\* The ring, read from the slot after end and around, is the log of the newest
\* entries that RecentLog promises.
Kept == LET older == IF IsSet(Capacity - 1) THEN Capacity - 1 - end ELSE 0
            newer == IF written = 0 THEN 0 ELSE end + 1
        IN  [i \in 1..(older + newer) |->
               data[IF i <= older THEN end + i ELSE i - older - 1]]
Log == INSTANCE RecentLog WITH log <- Kept
LogSpec == Log!Spec
=============================================================================
