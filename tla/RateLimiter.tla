---------------------------- MODULE RateLimiter ----------------------------
(***************************************************************************)
(* RateLimiterAtomic (src/rate_limiter.go) as its two callers use it.      *)
(*                                                                         *)
(* A thread is a goroutine that runs PBX.handler for one INVITE.  Every    *)
(* atomic operation of sync/atomic, the reading of the clock and the ctx   *)
(* select of Block is one step, so that the steps of several goroutines    *)
(* interleave wherever the Go code lets them.                              *)
(*                                                                         *)
(* The incoming limiter is asked once by handler, which then takes a place *)
(* among the active dialogs (pbx.go:102-113).  The outgoing one (blocking) *)
(* is asked in the loop of Block under a context with a timeout, and never *)
(* for a place (pbx.go:505-518).  They share no state: a run is of one.    *)
(***************************************************************************)
EXTENDS Integers, FiniteSets

CONSTANTS Threads,       \* goroutines running PBX.handler
          Max,           \* RateLimiterAtomic.Max
          RPS,           \* RateLimiterAtomic.RPS
          BlockTimeout,  \* seconds before the context given to Block expires
          MaxClock,      \* bound: the last second of the run
          MaxArrivals    \* bound: INVITEs of the run

ASSUME ThreadsAssumption == IsFiniteSet(Threads)
ASSUME LimitsAssumption == Max \in Nat /\ RPS \in Nat
ASSUME BoundsAssumption == /\ BlockTimeout \in Nat \ {0}
                           /\ MaxClock \in Nat \ {0}
                           /\ MaxArrivals \in Nat

VARIABLES
  blocking,       \* which of the two uses is modelled, chosen once
  rateCount,      \* RateLimiterAtomic.rateCount
  rateTimestamp,  \* RateLimiterAtomic.rateTimestamp
  activeCount,    \* RateLimiterAtomic.activeCount
  clock,          \* time.Now().Unix(), counted from 1: the timestamp starts at 0
  pc,             \* [Threads -> the next step of the goroutine]
  second,         \* [Threads -> currentSecond, the local variable]
  last,           \* [Threads -> lastSecond, the local variable]
  since,          \* [Threads -> the second at which Block was entered]
  wake,           \* [Threads -> the second at which time.After fires]
  cancelled,      \* the goroutines whose caller has hung up
  arrivals,       \* INVITEs received so far
  allowedNow,     \* history: requests begun and allowed in the present second
  sinceReset      \* history: requests allowed since rateCount was last stored

limiter == <<rateCount, rateTimestamp, activeCount>>
locals == <<second, last, since, wake>>
vars == <<blocking, limiter, clock, pc, locals, cancelled, arrivals, allowedNow, sinceReset>>

\* The goroutines whose AddInt64(&activeCount, 1) is not yet undone: those
\* that hold a place and those that are about to give back the one refused.
Holding == {t \in Threads : pc[t] = "running"}
GivingBack == {t \in Threads : pc[t] = "giveback"}
Counted == Holding \union GivingBack

PCs == {"idle", "clock", "load", "cas", "store", "add",
        "active", "giveback", "running", "wait", "passed"}

TypeOK == /\ blocking \in BOOLEAN
          /\ rateCount \in Nat
          /\ rateTimestamp \in 0..MaxClock
          /\ activeCount \in Nat
          /\ clock \in 1..MaxClock
          /\ pc \in [Threads -> PCs]
          /\ second \in [Threads -> 0..MaxClock]
          /\ last \in [Threads -> 0..MaxClock]
          /\ since \in [Threads -> 0..MaxClock]
          /\ wake \in [Threads -> 0..(MaxClock + 1)]
          /\ cancelled \in SUBSET Threads
          /\ arrivals \in 0..MaxArrivals
          /\ allowedNow \in Nat
          /\ sinceReset \in Nat

Init == /\ blocking \in BOOLEAN
        /\ rateCount = 0
        /\ rateTimestamp = 0
        /\ activeCount = 0
        /\ clock = 1
        /\ pc = [t \in Threads |-> "idle"]
        /\ second = [t \in Threads |-> 0]
        /\ last = [t \in Threads |-> 0]
        /\ since = [t \in Threads |-> 0]
        /\ wake = [t \in Threads |-> 0]
        /\ cancelled = {}
        /\ arrivals = 0
        /\ allowedNow = 0
        /\ sinceReset = 0

Goto(t, label) == pc' = [pc EXCEPT ![t] = label]

----------------------------------------------------------------------------
(* DialogRPSLimit                                                           *)

\* Where a call of DialogRPSLimit begins: at once past it when RPS is 0.
AfterRPS == IF blocking THEN "passed" ELSE "active"
EnterRPS == IF RPS = 0 THEN AfterRPS ELSE "clock"

\* A new INVITE: handler asks the limiter, or Block is entered with a context
\* that expires BlockTimeout seconds from now.
Arrive(t) ==
  /\ pc[t] = "idle"
  /\ arrivals < MaxArrivals
  /\ blocking => clock + BlockTimeout <= MaxClock
  /\ Goto(t, EnterRPS)
  /\ since' = [since EXCEPT ![t] = IF blocking THEN clock ELSE 0]
  /\ cancelled' = cancelled \ {t}
  /\ arrivals' = arrivals + 1
  /\ UNCHANGED <<blocking, limiter, clock, second, last, wake, allowedNow, sinceReset>>

ReadClock(t) ==
  /\ pc[t] = "clock"
  /\ second' = [second EXCEPT ![t] = clock]
  /\ Goto(t, "load")
  /\ UNCHANGED <<blocking, limiter, clock, last, since, wake, cancelled, arrivals,
                 allowedNow, sinceReset>>

LoadTimestamp(t) ==
  /\ pc[t] = "load"
  /\ last' = [last EXCEPT ![t] = rateTimestamp]
  /\ Goto(t, IF rateTimestamp # second[t] THEN "cas" ELSE "add")
  /\ UNCHANGED <<blocking, limiter, clock, second, since, wake, cancelled, arrivals,
                 allowedNow, sinceReset>>

\* CompareAndSwapInt64: the winner goes on to reset the counter.
SwapTimestamp(t) ==
  /\ pc[t] = "cas"
  /\ \/ /\ rateTimestamp = last[t]
        /\ rateTimestamp' = second[t]
        /\ Goto(t, "store")
     \/ /\ rateTimestamp # last[t]
        /\ UNCHANGED rateTimestamp
        /\ Goto(t, "add")
  /\ UNCHANGED <<blocking, rateCount, activeCount, clock, locals, cancelled, arrivals,
                 allowedNow, sinceReset>>

\* StoreInt64(counter, 0): a step of its own, after the swap.
ResetCounter(t) ==
  /\ pc[t] = "store"
  /\ rateCount' = 0
  /\ sinceReset' = 0
  /\ Goto(t, "add")
  /\ UNCHANGED <<blocking, rateTimestamp, activeCount, clock, locals, cancelled,
                 arrivals, allowedNow>>

\* AddInt64(counter, 1) <= RPS is the answer of DialogRPSLimit.
WithinRPS_Old(count) == count - 1 <= RPS  \* mutant: compares the value before
WithinRPS(count) == count <= RPS

\* currentSecond and lastSecond go out of scope with the return.
ForgetLocals(t) == /\ second' = [second EXCEPT ![t] = 0]
                   /\ last' = [last EXCEPT ![t] = 0]

\* Refused: handler returns, or Block goes to its select.
CountRequest(t) ==
  /\ pc[t] = "add"
  /\ rateCount' = rateCount + 1
  /\ \/ /\ WithinRPS(rateCount + 1)
        /\ Goto(t, AfterRPS)
        /\ sinceReset' = sinceReset + 1
        /\ allowedNow' = allowedNow + (IF second[t] = clock THEN 1 ELSE 0)
        /\ UNCHANGED wake
     \/ /\ ~WithinRPS(rateCount + 1)
        /\ Goto(t, IF blocking THEN "wait" ELSE "idle")
        /\ wake' = [wake EXCEPT ![t] = IF blocking THEN clock + 1 ELSE 0]
        /\ UNCHANGED <<sinceReset, allowedNow>>
  /\ ForgetLocals(t)
  /\ UNCHANGED <<blocking, rateTimestamp, activeCount, clock, since, cancelled, arrivals>>

----------------------------------------------------------------------------
(* DialogActiveLimit and DialogActiveDec                                    *)

BelowMax_Inclusive(count) == count <= Max  \* mutant: off by one
BelowMax(count) == count < Max

\* BelowMax(AddInt64(&activeCount, 1)) is the answer of DialogActiveLimit.
TakePlace(t) ==
  /\ pc[t] = "active"
  /\ \/ /\ Max = 0
        /\ UNCHANGED activeCount
        /\ Goto(t, "running")
     \/ /\ Max # 0
        /\ activeCount' = activeCount + 1
        /\ Goto(t, IF BelowMax(activeCount + 1) THEN "running" ELSE "giveback")
  /\ UNCHANGED <<blocking, rateCount, rateTimestamp, clock, locals, cancelled, arrivals,
                 allowedNow, sinceReset>>

\* DialogActiveDec: a refused goroutine undoes its own increment.
ActiveDec == activeCount' = IF Max = 0 THEN activeCount ELSE activeCount - 1

\* Mutants: the refused goroutine leaves its increment behind, or gives it back
\* and then returns through the deferred DialogActiveDec as well.
GiveBack_Forgotten(t) ==
  /\ pc[t] = "giveback"
  /\ Goto(t, "idle")
  /\ UNCHANGED <<blocking, limiter, clock, locals, cancelled, arrivals, allowedNow, sinceReset>>

GiveBack_Twice(t) ==
  /\ pc[t] = "giveback"
  /\ ActiveDec
  /\ Goto(t, "running")
  /\ UNCHANGED <<blocking, rateCount, rateTimestamp, clock, locals, cancelled, arrivals,
                 allowedNow, sinceReset>>

GiveBack(t) ==
  /\ pc[t] = "giveback"
  /\ ActiveDec
  /\ Goto(t, "idle")
  /\ UNCHANGED <<blocking, rateCount, rateTimestamp, clock, locals, cancelled, arrivals,
                 allowedNow, sinceReset>>

\* The end of handler, by whatever path: the deferred DialogActiveDec.
Finish(t) ==
  /\ pc[t] = "running"
  /\ ActiveDec
  /\ Goto(t, "idle")
  /\ UNCHANGED <<blocking, rateCount, rateTimestamp, clock, locals, cancelled, arrivals,
                 allowedNow, sinceReset>>

----------------------------------------------------------------------------
(* Block                                                                    *)

Expired(t) == clock >= since[t] + BlockTimeout

\* case <-time.After(1 * time.Second): another round of the loop.  When both
\* cases of the select are ready, Go takes either.
Retry(t) ==
  /\ pc[t] = "wait"
  /\ clock >= wake[t]
  /\ Goto(t, EnterRPS)
  /\ UNCHANGED <<blocking, limiter, clock, locals, cancelled, arrivals, allowedNow, sinceReset>>

\* Mutant: Block is given the dialog's context, without the timeout.
CtxDone_NoTimeout(t) ==
  /\ pc[t] = "wait"
  /\ t \in cancelled
  /\ Goto(t, "idle")
  /\ UNCHANGED <<blocking, limiter, clock, locals, cancelled, arrivals, allowedNow, sinceReset>>

\* case <-ctx.Done(): the deadline (429 to the caller) or the caller's hang up.
CtxDone(t) ==
  /\ pc[t] = "wait"
  /\ Expired(t) \/ t \in cancelled
  /\ Goto(t, "idle")
  /\ UNCHANGED <<blocking, limiter, clock, locals, cancelled, arrivals, allowedNow, sinceReset>>

\* Block returned nil: the call goes on to Ringing and bridgeAnswer.
Proceed(t) ==
  /\ pc[t] = "passed"
  /\ Goto(t, "idle")
  /\ UNCHANGED <<blocking, limiter, clock, locals, cancelled, arrivals, allowedNow, sinceReset>>

\* The caller's CANCEL or BYE cancels the dialog's context.
CallerHangsUp(t) ==
  /\ blocking
  /\ pc[t] # "idle"
  /\ t \notin cancelled
  /\ cancelled' = cancelled \union {t}
  /\ UNCHANGED <<blocking, limiter, clock, pc, locals, arrivals, allowedNow, sinceReset>>

Tick ==
  /\ clock < MaxClock
  /\ clock' = clock + 1
  /\ allowedNow' = 0
  /\ UNCHANGED <<blocking, limiter, pc, locals, cancelled, arrivals, sinceReset>>

----------------------------------------------------------------------------
RPSLimit(t) == \/ ReadClock(t) \/ LoadTimestamp(t) \/ SwapTimestamp(t)
               \/ ResetCounter(t) \/ CountRequest(t)
Active(t) == TakePlace(t) \/ GiveBack(t) \/ Finish(t)
Block(t) == Retry(t) \/ CtxDone(t) \/ Proceed(t)

Step(t) == RPSLimit(t) \/ Active(t) \/ Block(t)

Next == Tick \/ \E t \in Threads : Arrive(t) \/ Step(t) \/ CallerHangsUp(t)

Spec == Init /\ [][Next]_vars

\* The Go scheduler runs every goroutine that can run, and time passes.
FairSpec == Spec /\ WF_vars(Tick) /\ \A t \in Threads : WF_vars(Step(t))
----------------------------------------------------------------------------
(* Properties                                                               *)

\* The counter of active dialogs is the number of goroutines whose increment
\* stands, in every interleaving of AddInt64(+1) with AddInt64(-1): no path
\* out of handler leaves a place taken and none gives one back twice.
ActiveAccounted ==
  activeCount = IF Max = 0 THEN 0 ELSE Cardinality(Counted)

\* However many INVITEs race through DialogActiveLimit, fewer than Max of them
\* run handler at once: current < Max refuses the dialog that would be Max-th.
PlacesBounded == Max # 0 => Cardinality(Holding) < Max

\* Between two resets of rateCount at most RPS requests are allowed, although
\* the counter is shared and read by the same instruction that advances it.
EpochBounded == RPS # 0 => sinceReset <= RPS /\ sinceReset <= rateCount

\* No more than RPS requests begun in a second are allowed in that second.
\* (rate_limiter_test.go:24; ResetCounter is not one step with SwapTimestamp,
\* so a request counted between the two is forgotten.)
RPSPerSecond == RPS # 0 => allowedNow <= RPS

\* Under the deadline of its context Block returns, with whatever answer, for
\* every caller and under any competition for the counter.
BlockReturns == \A t \in Threads : pc[t] # "idle" ~> pc[t] = "idle"

\* The incoming limiter implements admission control: a call is let in by the
\* AddInt64 that answers less than Max, and every other step is a stutter.
AdmissionControl == INSTANCE Admission WITH holders <- Holding
AdmissionSpec == AdmissionControl!Spec
=============================================================================
