------------------------------- MODULE Induction -------------------------------
(***************************************************************************)
(* Induction and recursion over the natural numbers, stated for sets and   *)
(* functions.  The induction theorems of the library are stated for        *)
(* operators; these say the same of what the other modules need, and rest  *)
(* on the well-foundedness of the finite sets of natural numbers.          *)
(***************************************************************************)
EXTENDS Integers, FiniteSets, FiniteSetTheorems, WellFoundedInduction, TLAPS

(* A set of natural numbers has a least element.                           *)
LEMMA Least ==
  ASSUME NEW T \in SUBSET Nat, T # {}
  PROVE  \E n \in T : \A m \in T : n <= m
<1>. DEFINE F == FiniteSubsetsOf(Nat)
            R == StrictSubsetOrdering(Nat)
            I == { 0 .. n : n \in T }
<1>1. \A n \in Nat : IsFiniteSet(0 .. n)
  BY FS_Interval
<1>2. I \subseteq F /\ I # {}
  <2>1. \A n \in Nat : (0 .. n) \in SUBSET Nat
    OBVIOUS
  <2>2. \A n \in Nat : (0 .. n) \in F
    BY <1>1, <2>1 DEF FiniteSubsetsOf
  <2>. HIDE DEF F
  <2>. QED
    BY <2>2
<1>3. IsWellFoundedOn(R, F)
  BY FS_StrictSubsetOrderingWellFounded
<1>. HIDE DEF F, R, I
<1>4. PICK s \in I : \A t \in I : << t, s >> \notin R
  BY <1>2, <1>3, WFMin
<1>. USE DEF F, R, I
<1>5. PICK n \in T : s = 0 .. n
  BY <1>4
<1>6. ASSUME NEW m \in T, m < n PROVE FALSE
  <2>1. (0 .. m) \subseteq (0 .. n) /\ (0 .. m) # (0 .. n)
    <3>1. n \in 0 .. n /\ n \notin 0 .. m
      BY <1>6
    <3>. QED
      BY <1>6, <3>1
  <2>2. (0 .. m) \in SUBSET Nat /\ (0 .. n) \in SUBSET Nat
    OBVIOUS
  <2>3. << 0 .. m, 0 .. n >> \in R
    BY <2>1, <2>2 DEF StrictSubsetOrdering
  <2>4. (0 .. m) \in I
    OBVIOUS
  <2>. QED
    BY <1>4, <1>5, <2>3, <2>4
<1>. QED
  BY <1>6

(* What is in T at 0 and stays in T is in T up to N.                       *)
LEMMA UpTo ==
  ASSUME NEW N \in Nat, NEW T, 0 \in T,
         \A n \in 0 .. N - 1 : n \in T => n + 1 \in T
  PROVE  0 .. N \subseteq T
<1>. DEFINE Bad == (0 .. N) \ T
<1>. SUFFICES ASSUME Bad # {} PROVE FALSE
  OBVIOUS
<1>1. PICK b \in Bad : \A m \in Bad : b <= m
  <2>1. Bad \in SUBSET Nat
    OBVIOUS
  <2>. HIDE DEF Bad
  <2>. QED
    BY <2>1, Least
<1>2. b - 1 \in 0 .. N - 1 /\ b - 1 \notin Bad /\ b - 1 \in 0 .. N
  BY <1>1
<1>3. b \in T
  BY <1>2
<1>. QED
  BY <1>3

(* g takes the value base at 0 and goes on by the rule h.                  *)
Recursive(g, N, S, base, h) ==
  /\ g \in [0 .. N -> S] /\ g[0] = base
  /\ \A k \in 1 .. N : g[k] = h[k][g[k - 1]]

(* There is a function for each rule.                                      *)
LEMMA Recursion ==
  ASSUME NEW N \in Nat, NEW S, NEW base \in S, NEW h \in [1 .. N -> [S -> S]]
  PROVE  \E g : Recursive(g, N, S, base, h)
<1>. DEFINE Good(n, g) == g[0] = base /\ \A k \in 1 .. n : g[k] = h[k][g[k - 1]]
            T == { n \in 0 .. N : \E g \in [0 .. N -> S] : Good(n, g) }
<1>1. 0 \in T
  <2>1. Good(0, [k \in 0 .. N |-> base]) /\ [k \in 0 .. N |-> base] \in [0 .. N -> S]
    OBVIOUS
  <2>. HIDE DEF Good
  <2>. QED
    BY <2>1
<1>2. ASSUME NEW n \in 0 .. N - 1, n \in T PROVE n + 1 \in T
  <2>1. PICK g \in [0 .. N -> S] : Good(n, g)
    BY <1>2
  <2>. DEFINE f == [g EXCEPT ![n + 1] = h[n + 1][g[n]]]
  <2>2. n \in 0 .. N /\ n + 1 \in 1 .. N /\ n + 1 \in 0 .. N
    OBVIOUS
  <2>3. h[n + 1][g[n]] \in S
    BY <2>2
  <2>4. f \in [0 .. N -> S]
    BY <2>3
  <2>5. f[n + 1] = h[n + 1][g[n]] /\ \A k \in 0 .. n : f[k] = g[k]
    BY <2>2
  <2>. HIDE DEF f
  <2>6. Good(n + 1, f)
    <3>1. f[0] = base
      BY <2>1, <2>5
    <3>2. ASSUME NEW k \in 1 .. n + 1 PROVE f[k] = h[k][f[k - 1]]
      <4>1. CASE k = n + 1
        <5>1. k - 1 = n /\ n \in 0 .. n
          BY <4>1
        <5>. QED
          BY <2>5, <4>1, <5>1
      <4>2. CASE k # n + 1
        <5>1. k \in 1 .. n /\ k \in 0 .. n /\ k - 1 \in 0 .. n
          BY <4>2
        <5>. QED
          BY <2>1, <2>5, <5>1
      <4>. QED
        BY <4>1, <4>2
    <3>. QED
      BY <3>1, <3>2
  <2>. HIDE DEF Good
  <2>. QED
    BY <2>2, <2>4, <2>6
<1>. HIDE DEF T
<1>3. N \in T
  <2>1. 0 .. N \subseteq T
    BY <1>1, <1>2, UpTo
  <2>. QED
    BY <2>1
<1>. USE DEF T
<1>. QED
  BY <1>3 DEF Recursive
===============================================================================
