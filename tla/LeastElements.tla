--------------------------- MODULE LeastElements ---------------------------
(***************************************************************************)
(* That the least element of a set of numbers exists, on which the CHOOSE  *)
(* of "the first" and of "the smallest" rests in the specifications.       *)
(***************************************************************************)
EXTENDS Integers, FiniteSets, FiniteSetTheorems, WellFoundedInduction, TLAPS

\* A finite set of integers that is not empty has a least element: the loop
\* over the contacts of a request keeps a running minimum
\* (src/registrar.go:185-195).
LEMMA LeastExists ==
  ASSUME NEW T \in SUBSET Int, IsFiniteSet(T), T # {}
  PROVE  \E x \in T : \A y \in T : x <= y
<1> DEFINE Lower == {U \in SUBSET T : U # {} /\ \A t \in T : \E u \in U : u <= t}
<1>1. Lower \subseteq FiniteSubsetsOf(Int)
  <2> SUFFICES ASSUME NEW U \in Lower PROVE U \in FiniteSubsetsOf(Int)
    OBVIOUS
  <2> QED BY FS_Subset DEF FiniteSubsetsOf
<1>2. T \in Lower
  OBVIOUS
<1>3. PICK U \in Lower : \A V \in Lower : <<V, U>> \notin StrictSubsetOrdering(Int)
  <2> HIDE DEF Lower
  <2> QED BY <1>1, <1>2, WFMin, FS_StrictSubsetOrderingWellFounded
<1>4. ASSUME NEW a \in U, NEW b \in U, a # b, a <= b
      PROVE  FALSE
  <2> DEFINE V == U \ {b}
  <2>1. ASSUME NEW t \in T PROVE \E v \in V : v <= t
    <3>1. PICK u \in U : u <= t
      OBVIOUS
    <3>2. CASE u = b
      BY <1>4, <3>1, <3>2
    <3>3. CASE u # b
      BY <3>1, <3>3
    <3> QED BY <3>2, <3>3
  <2>2. V \in Lower
    BY <1>4, <2>1
  <2>3. <<V, U>> \in StrictSubsetOrdering(Int)
    BY DEF StrictSubsetOrdering
  <2> QED BY <1>3, <2>2, <2>3
<1>5. PICK x \in U : TRUE
  OBVIOUS
<1>6. ASSUME NEW y \in U PROVE y = x
  <2>1. x \in Int /\ y \in Int
    OBVIOUS
  <2> QED BY <1>4, <1>5, <2>1
<1> QED BY <1>5, <1>6

\* So has any set of natural numbers: the first entry that matches, of a list
\* gone through in order (src/routing.go:57-64, 242-248).
LEMMA LeastNatExists ==
  ASSUME NEW T \in SUBSET Nat, T # {}
  PROVE  \E x \in T : \A y \in T : x <= y
<1>1. PICK n \in T : n \in Nat
  OBVIOUS
<1> DEFINE Below == {t \in T : t <= n}
<1>2. \A t \in Below : t \in T /\ t \in Nat /\ t <= n
  OBVIOUS
<1>3. \A t \in T : t <= n => t \in Below
  OBVIOUS
<1>4. n \in Below
  <2>1. n <= n
    BY <1>1
  <2> QED BY <2>1
<1> HIDE DEF Below
<1>5. IsFiniteSet(Below)
  <2>1. IsFiniteSet(0..n)
    BY <1>1, FS_Interval
  <2>2. Below \in SUBSET (0..n)
    BY <1>1, <1>2
  <2> QED BY <2>1, <2>2, FS_Subset
<1>6. Below \in SUBSET Int
  BY <1>2
<1>7. PICK x \in Below : \A y \in Below : x <= y
  BY <1>4, <1>5, <1>6, LeastExists
<1>8. ASSUME NEW y \in T PROVE x <= y
  <2>1. x \in Nat /\ x <= n /\ y \in Nat
    BY <1>2
  <2>2. CASE y <= n
    BY <1>3, <1>7, <2>2
  <2>3. CASE ~(y <= n)
    BY <1>1, <2>1, <2>3
  <2> QED BY <2>2, <2>3
<1> QED BY <1>2, <1>8

\* So has a set of places of a list a greatest one: the last of the filters with
\* the same key is the one that counts (src/http.go:283-313).
LEMMA GreatestExists ==
  ASSUME NEW n \in Nat, NEW T \in SUBSET (1..n), T # {}
  PROVE  \E x \in T : \A y \in T : y <= x
<1> DEFINE Behind == {n - t : t \in T}
<1>1. Behind \in SUBSET Nat /\ Behind # {}
  <2>1. \A t \in T : n - t \in Nat
    OBVIOUS
  <2>2. PICK t \in T : TRUE
    OBVIOUS
  <2>3. n - t \in Behind
    OBVIOUS
  <2> QED BY <2>1, <2>3
<1>2. PICK b \in Behind : \A c \in Behind : b <= c
  <2> HIDE DEF Behind
  <2> QED BY <1>1, LeastNatExists
<1>3. PICK x \in T : b = n - x
  OBVIOUS
<1>4. ASSUME NEW y \in T PROVE y <= x
  <2>1. n - x <= n - y
    BY <1>2, <1>3
  <2> QED BY <2>1
<1> QED BY <1>4
=============================================================================
