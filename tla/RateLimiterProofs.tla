------------------------- MODULE RateLimiterProofs -------------------------
(***************************************************************************)
(* The incoming limiter for every number of goroutines and every limit.    *)
(*                                                                         *)
(* The inductive invariant is TypeOK with the two accounts that make the   *)
(* shared counters mean something: activeCount is the number of increments *)
(* that stand, and rateCount is at least what was allowed since its reset. *)
(***************************************************************************)
EXTENDS RateLimiter, FiniteSetTheorems, TLAPS

Assumptions == /\ IsFiniteSet(Threads)
               /\ Max \in Nat
               /\ RPS \in Nat
               /\ BlockTimeout \in Nat \ {0}
               /\ MaxClock \in Nat \ {0}
               /\ MaxArrivals \in Nat

\* The part of TypeOK that holds a step at a time; that activeCount is a
\* natural number (no goroutine decrements what it did not increment) is not
\* of this kind and follows from ActiveAccounted.
Typed == /\ blocking \in BOOLEAN
         /\ rateCount \in Nat
         /\ rateTimestamp \in 0..MaxClock
         /\ clock \in 1..MaxClock
         /\ pc \in [Threads -> PCs]
         /\ second \in [Threads -> 0..MaxClock]
         /\ last \in [Threads -> 0..MaxClock]
         /\ since \in [Threads -> 0..MaxClock]
         /\ wake \in [Threads -> 0..(MaxClock + 1)]
         /\ cancelled \in SUBSET Threads
         /\ arrivals \in 0..MaxArrivals
         /\ allowedNow \in Nat
         /\ sinceReset \in Nat

IInv == Typed /\ ActiveAccounted /\ EpochBounded

\* The assumptions of RateLimiter on its constants, under one name.
LEMMA ConstantsOK == Assumptions
BY ThreadsAssumption, LimitsAssumption, BoundsAssumption
   DEF Assumptions

\* The steps of the goroutine t, in the order of the code.
LEMMA StepCases ==
  ASSUME Next
  PROVE  \/ Tick
         \/ \E t \in Threads : \/ Arrive(t) \/ CallerHangsUp(t)
                               \/ ReadClock(t) \/ LoadTimestamp(t)
                               \/ SwapTimestamp(t) \/ ResetCounter(t)
                               \/ CountRequest(t) \/ TakePlace(t)
                               \/ GiveBack(t) \/ Finish(t) \/ Retry(t)
                               \/ CtxDone(t) \/ Proceed(t)
BY DEF Next, Step, RPSLimit, Active, Block

-----------------------------------------------------------------------------
(* Types                                                                    *)

\* Every variable but activeCount keeps its type whatever goroutine steps.
LEMMA TypedStep == ASSUME Typed, [Next]_vars PROVE Typed'
<1> USE ConstantsOK DEF Assumptions, Typed, PCs
<1>1. CASE UNCHANGED vars
  BY <1>1 DEF vars, limiter, locals
<1>2. CASE Tick
  BY <1>2 DEF Tick, limiter, locals
<1>3. ASSUME NEW t \in Threads, Arrive(t) PROVE Typed'
  BY <1>3 DEF Arrive, Goto, EnterRPS, AfterRPS, limiter
<1>4. ASSUME NEW t \in Threads, CallerHangsUp(t) PROVE Typed'
  BY <1>4 DEF CallerHangsUp, limiter, locals
<1>5. ASSUME NEW t \in Threads, ReadClock(t) PROVE Typed'
  BY <1>5 DEF ReadClock, Goto, limiter
<1>6. ASSUME NEW t \in Threads, LoadTimestamp(t) PROVE Typed'
  BY <1>6 DEF LoadTimestamp, Goto, limiter
<1>7. ASSUME NEW t \in Threads, SwapTimestamp(t) PROVE Typed'
  BY <1>7 DEF SwapTimestamp, Goto, locals
<1>8. ASSUME NEW t \in Threads, ResetCounter(t) PROVE Typed'
  BY <1>8 DEF ResetCounter, Goto, locals
<1>9. ASSUME NEW t \in Threads, CountRequest(t) PROVE Typed'
  BY <1>9 DEF CountRequest, Goto, AfterRPS, ForgetLocals
<1>10. ASSUME NEW t \in Threads, TakePlace(t) PROVE Typed'
  BY <1>10 DEF TakePlace, Goto, BelowMax, locals
<1>11. ASSUME NEW t \in Threads, GiveBack(t) \/ Finish(t) PROVE Typed'
  BY <1>11 DEF GiveBack, Finish, Goto, locals
<1>12. ASSUME NEW t \in Threads, Retry(t) \/ CtxDone(t) \/ Proceed(t)
       PROVE  Typed'
  BY <1>12 DEF Retry, CtxDone, Proceed, Goto, EnterRPS, AfterRPS, limiter, locals
<1> QED
  BY StepCases, <1>1, <1>2, <1>3, <1>4, <1>5, <1>6, <1>7, <1>8, <1>9, <1>10,
     <1>11, <1>12

-----------------------------------------------------------------------------
(* The active dialogs                                                       *)

\* The number of counted goroutines is a natural number.
LEMMA CountedFinite == /\ IsFiniteSet(Counted)
                       /\ Cardinality(Counted) \in Nat
                       /\ IsFiniteSet(Holding)
                       /\ Cardinality(Holding) \in Nat
                       /\ Cardinality(Holding) <= Cardinality(Counted)
<1>1. Counted \subseteq Threads /\ Holding \subseteq Counted
  BY DEF Counted, Holding, GivingBack
<1>2. IsFiniteSet(Counted) /\ IsFiniteSet(Holding)
  BY <1>1, FS_Subset, ThreadsAssumption
<1> QED
  BY <1>1, <1>2, FS_Subset, FS_CardinalityType

\* A step that moves no goroutine into or out of the counted ones and leaves
\* the counter alone keeps the account.
LEMMA AccountKept ==
  ASSUME ActiveAccounted, activeCount' = activeCount, Counted' = Counted
  PROVE  ActiveAccounted'
BY DEF ActiveAccounted

LEMMA ActiveStep ==
  ASSUME Typed, ActiveAccounted, [Next]_vars PROVE ActiveAccounted'
<1> USE ConstantsOK DEF Assumptions
<1>1. CASE UNCHANGED vars
  <2>1. activeCount' = activeCount /\ pc' = pc
    BY <1>1 DEF vars, limiter
  <2> QED BY <2>1, AccountKept DEF Counted, Holding, GivingBack
<1>2. CASE Tick
  <2>1. activeCount' = activeCount /\ pc' = pc
    BY <1>2 DEF Tick, limiter
  <2> QED BY <2>1, AccountKept DEF Counted, Holding, GivingBack
<1>3. ASSUME NEW t \in Threads,
             \/ Arrive(t) \/ CallerHangsUp(t) \/ ReadClock(t)
             \/ LoadTimestamp(t) \/ SwapTimestamp(t) \/ ResetCounter(t)
             \/ CountRequest(t) \/ Retry(t) \/ CtxDone(t) \/ Proceed(t)
      PROVE  ActiveAccounted'
  <2>1. activeCount' = activeCount
    BY <1>3 DEF Arrive, CallerHangsUp, ReadClock, LoadTimestamp, SwapTimestamp,
                ResetCounter, CountRequest, Retry, CtxDone, Proceed, limiter
  <2>2. \/ pc' = pc
        \/ \E l : /\ pc' = [pc EXCEPT ![t] = l]
                  /\ l \notin {"running", "giveback"}
                  /\ pc[t] \notin {"running", "giveback"}
    BY <1>3 DEF Arrive, CallerHangsUp, ReadClock, LoadTimestamp, SwapTimestamp,
                ResetCounter, CountRequest, Retry, CtxDone, Proceed, Goto,
                EnterRPS, AfterRPS
  <2>3. Counted' = Counted
    BY <2>2 DEF Counted, Holding, GivingBack, Typed
  <2> QED BY <2>1, <2>3, AccountKept
<1>4. ASSUME NEW t \in Threads, TakePlace(t) PROVE ActiveAccounted'
  <2>1. CASE Max = 0
    BY <1>4, <2>1 DEF TakePlace, ActiveAccounted
  <2>2. CASE Max # 0
    <3>1. activeCount' = activeCount + 1 /\ t \notin Counted
      BY <1>4, <2>2 DEF TakePlace, Counted, Holding, GivingBack
    <3>2. Counted' = Counted \union {t}
      BY <1>4, <2>2 DEF TakePlace, BelowMax, Goto, Counted, Holding, GivingBack, Typed
    <3> QED BY <2>2, <3>1, <3>2, CountedFinite, FS_AddElement DEF ActiveAccounted
  <2> QED BY <2>1, <2>2
<1>5. ASSUME NEW t \in Threads, GiveBack(t) \/ Finish(t)
      PROVE  ActiveAccounted'
  <2>1. CASE Max = 0
    BY <1>5, <2>1 DEF GiveBack, Finish, ActiveDec, ActiveAccounted
  <2>2. CASE Max # 0
    <3>1. activeCount' = activeCount - 1 /\ t \in Counted
      BY <1>5, <2>2 DEF GiveBack, Finish, ActiveDec, Counted, Holding, GivingBack
    <3>2. Counted' = Counted \ {t}
      BY <1>5 DEF GiveBack, Finish, Goto, Counted, Holding, GivingBack, Typed
    <3> QED BY <2>2, <3>1, <3>2, CountedFinite, FS_RemoveElement DEF ActiveAccounted
  <2> QED BY <2>1, <2>2
<1> QED
  BY StepCases, <1>1, <1>2, <1>3, <1>4, <1>5

-----------------------------------------------------------------------------
(* The requests per second                                                  *)

LEMMA EpochStep ==
  ASSUME Typed, EpochBounded, [Next]_vars PROVE EpochBounded'
<1> USE ConstantsOK DEF Assumptions, EpochBounded
<1>1. CASE UNCHANGED <<rateCount, sinceReset>>
  BY <1>1
<1>2. ASSUME NEW t \in Threads, ResetCounter(t) PROVE EpochBounded'
  BY <1>2 DEF ResetCounter
<1>3. ASSUME NEW t \in Threads, CountRequest(t) PROVE EpochBounded'
  BY <1>3 DEF CountRequest, WithinRPS, Typed
<1>4. CASE Tick
  BY <1>1, <1>4 DEF Tick, limiter
<1>5. CASE UNCHANGED vars
  BY <1>1, <1>5 DEF vars, limiter
<1>6. ASSUME NEW t \in Threads,
             \/ Arrive(t) \/ CallerHangsUp(t) \/ ReadClock(t)
             \/ LoadTimestamp(t) \/ SwapTimestamp(t) \/ TakePlace(t)
             \/ GiveBack(t) \/ Finish(t) \/ Retry(t) \/ CtxDone(t) \/ Proceed(t)
      PROVE  UNCHANGED <<rateCount, sinceReset>>
  BY <1>6 DEF Arrive, CallerHangsUp, ReadClock, LoadTimestamp, SwapTimestamp,
              TakePlace, GiveBack, Finish, Retry, CtxDone, Proceed, limiter
<1> QED
  BY StepCases, <1>1, <1>2, <1>3, <1>4, <1>5, <1>6

-----------------------------------------------------------------------------
(* The invariant and what follows from it                                   *)

LEMMA InitIInv == ASSUME Init PROVE IInv
<1> USE ConstantsOK DEF Assumptions, Init
<1>1. Typed
  BY DEF Typed, PCs
<1>2. Counted = {}
  BY DEF Counted, Holding, GivingBack
<1>3. ActiveAccounted
  BY <1>2, FS_EmptySet DEF ActiveAccounted
<1>4. EpochBounded
  BY DEF EpochBounded
<1> QED BY <1>1, <1>3, <1>4 DEF IInv

\* The inductive invariant of the limiter holds of every reachable state.
THEOREM Invariance == Spec => []IInv
<1>1. IInv /\ [Next]_vars => IInv'
  BY TypedStep, ActiveStep, EpochStep DEF IInv
<1> QED BY <1>1, InitIInv, PTL DEF Spec

\* rate_limiter.go: every variable stays in its range, and in particular no
\* interleaving of DialogActiveLimit and DialogActiveDec makes activeCount
\* negative.
THEOREM TypeCorrect == Spec => []TypeOK
<1>1. IInv => TypeOK
  BY ConstantsOK, CountedFinite DEF IInv, Typed, ActiveAccounted, TypeOK, Assumptions
<1> QED BY <1>1, Invariance, PTL

\* pbx.go:108-112: activeCount is the number of goroutines that hold a place
\* or are about to give back the one they were refused, for any number of them.
THEOREM ActiveCorrect == Spec => []ActiveAccounted
<1>1. IInv => ActiveAccounted
  BY DEF IInv
<1> QED BY <1>1, Invariance, PTL

\* rate_limiter.go:95-115: between two resets no more than RPS are allowed.
THEOREM EpochCorrect == Spec => []EpochBounded
<1>1. IInv => EpochBounded
  BY DEF IInv
<1> QED BY <1>1, Invariance, PTL

-----------------------------------------------------------------------------
(* Admission control                                                        *)

\* Cardinality as the instance of Admission has it is Cardinality.
LEMMA SameCardinality ==
  ASSUME NEW S PROVE AdmissionControl!Cardinality(S) = Cardinality(S)
BY DEF Cardinality, AdmissionControl!Cardinality

\* AddInt64 answers less than Max only while the holders leave room, because
\* the counter also counts the refused that have not yet given back.
LEMMA PlaceTaken ==
  ASSUME Typed, ActiveAccounted, NEW t \in Threads, TakePlace(t)
  PROVE  AdmissionControl!Admit(t) \/ Holding' = Holding
<1> USE ConstantsOK DEF Assumptions
<1>1. CASE pc' = [pc EXCEPT ![t] = "running"]
  <2>1. t \notin Holding /\ Holding' = Holding \union {t}
    BY <1>1 DEF TakePlace, Holding, Typed
  <2>2. Max = 0 \/ Cardinality(Holding) + 1 < Max
    <3>1. CASE Max # 0
      <4>1. activeCount + 1 < Max
        BY <1>1, <3>1 DEF TakePlace, BelowMax, Goto, Typed
      <4>2. activeCount = Cardinality(Counted)
        BY <3>1 DEF ActiveAccounted
      <4> QED BY <4>1, <4>2, CountedFinite
    <3> QED BY <3>1
  <2> QED BY <2>1, <2>2, SameCardinality DEF AdmissionControl!Admit, AdmissionControl!Room
<1>2. CASE pc' = [pc EXCEPT ![t] = "giveback"]
  BY <1>2 DEF TakePlace, Holding, Typed
<1> QED BY <1>1, <1>2 DEF TakePlace, Goto

LEMMA AdmissionStep ==
  ASSUME Typed, ActiveAccounted, [Next]_vars
  PROVE  [AdmissionControl!Next]_Holding
<1>1. ASSUME NEW t \in Threads, TakePlace(t)
      PROVE  [AdmissionControl!Next]_Holding
  BY <1>1, PlaceTaken DEF AdmissionControl!Next
<1>2. ASSUME NEW t \in Threads, Finish(t)
      PROVE  [AdmissionControl!Next]_Holding
  <2>1. t \in Holding /\ Holding' = Holding \ {t}
    BY <1>2 DEF Finish, Goto, Holding, Typed
  <2> QED BY <2>1 DEF AdmissionControl!Leave, AdmissionControl!Next
<1>3. ASSUME NEW t \in Threads,
             \/ Arrive(t) \/ CallerHangsUp(t) \/ ReadClock(t)
             \/ LoadTimestamp(t) \/ SwapTimestamp(t) \/ ResetCounter(t)
             \/ CountRequest(t) \/ GiveBack(t) \/ Retry(t) \/ CtxDone(t)
             \/ Proceed(t)
      PROVE  Holding' = Holding
  <2>1. \/ pc' = pc
        \/ \E l : /\ pc' = [pc EXCEPT ![t] = l]
                  /\ l # "running" /\ pc[t] # "running"
    BY <1>3 DEF Arrive, CallerHangsUp, ReadClock, LoadTimestamp, SwapTimestamp,
                ResetCounter, CountRequest, GiveBack, Retry, CtxDone, Proceed,
                Goto, EnterRPS, AfterRPS
  <2> QED BY <2>1 DEF Holding, Typed
<1>4. CASE Tick \/ UNCHANGED vars
  BY <1>4 DEF Tick, vars, Holding
<1> QED BY StepCases, <1>1, <1>2, <1>3, <1>4

\* pbx.go:102-113 with rate_limiter.go:75-92: for every number of goroutines
\* and every Max, the two atomic additions implement admission control.
THEOREM AdmissionImplemented == Spec => AdmissionSpec
<1>1. Init => AdmissionControl!Init
  BY DEF Init, AdmissionControl!Init, Holding
<1>2. IInv /\ [Next]_vars => [AdmissionControl!Next]_Holding
  BY AdmissionStep DEF IInv
<1> QED
  BY <1>1, <1>2, Invariance, PTL DEF Spec, AdmissionSpec, AdmissionControl!Spec

\* One more goroutine among the holders, one less, or the same ones.
LEMMA PlacesStep ==
  ASSUME PlacesBounded, [AdmissionControl!Next]_Holding
  PROVE  PlacesBounded'
<1> USE ConstantsOK DEF Assumptions
<1>1. ASSUME NEW t \in Threads, AdmissionControl!Admit(t) PROVE PlacesBounded'
  <2>1. Cardinality(Holding') = Cardinality(Holding) + 1
    BY <1>1, CountedFinite, FS_AddElement DEF AdmissionControl!Admit
  <2>2. Max # 0 => Cardinality(Holding) + 1 < Max
    BY <1>1, SameCardinality DEF AdmissionControl!Admit, AdmissionControl!Room
  <2> QED BY <2>1, <2>2 DEF PlacesBounded
<1>2. ASSUME NEW t \in Threads, AdmissionControl!Leave(t) PROVE PlacesBounded'
  <2>1. Cardinality(Holding') = Cardinality(Holding) - 1
    BY <1>2, CountedFinite, FS_RemoveElement DEF AdmissionControl!Leave
  <2> QED BY <2>1, CountedFinite DEF PlacesBounded
<1>3. CASE Holding' = Holding
  BY <1>3 DEF PlacesBounded
<1> QED BY <1>1, <1>2, <1>3 DEF AdmissionControl!Next

\* rate_limiter.go:79-82: fewer than Max goroutines run handler at any time.
THEOREM PlacesCorrect == Spec => []PlacesBounded
<1>1. Init => PlacesBounded
  <2>1. ASSUME Init PROVE Holding = {}
    BY <2>1 DEF Init, Holding
  <2> QED BY <2>1, FS_EmptySet, ConstantsOK DEF PlacesBounded, Assumptions
<1>2. IInv /\ [Next]_vars /\ PlacesBounded => PlacesBounded'
  BY AdmissionStep, PlacesStep DEF IInv
<1> QED BY <1>1, <1>2, Invariance, PTL DEF Spec
=============================================================================
