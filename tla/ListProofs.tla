------------------------------ MODULE ListProofs ------------------------------
(***************************************************************************)
(* Proofs about ForwardList and DoubleList, for any finite number of nodes *)
(* and any lists.                                                          *)
(***************************************************************************)
EXTENDS MCLists, SequenceTheorems, Induction

(* A sequence without repetitions, and what it means that links follow it  *)
(* or lead back along it.                                                  *)
Simple(s) == \A i, j \in 1 .. Len(s) : s[i] = s[j] => i = j
Follows(s, link, null) ==
  \A i \in 1 .. Len(s) : link[s[i]] = IF i < Len(s) THEN s[i + 1] ELSE null
LeadsBack(s, link, null) ==
  \A i \in 1 .. Len(s) : link[s[i]] = IF i > 1 THEN s[i - 1] ELSE null

LEMMA SeqFacts ==
  ASSUME NEW S, NEW s \in Seq(S)
  PROVE  /\ Len(s) \in Nat /\ DOMAIN s = 1 .. Len(s)
         /\ \A i \in 1 .. Len(s) : s[i] \in S
         /\ s # << >> <=> Len(s) >= 1
<1>1. Len(s) \in Nat /\ DOMAIN s = 1 .. Len(s) /\ \A i \in 1 .. Len(s) : s[i] \in S
  BY LenProperties, ElementOfSeq
<1>2. (s # << >> => Len(s) \in Nat \ {0}) /\ Len(<< >>) = 0
  BY EmptySeq
<1> QED
  BY <1>1, <1>2

(* A sequence without repetitions is no longer than there are things.      *)
LEMMA SimpleIsShort ==
  ASSUME NEW S, IsFiniteSet(S), NEW s \in Seq(S), Simple(s)
  PROVE  Len(s) <= Cardinality(S)
<1>1. Len(s) \in Nat /\ DOMAIN s = 1 .. Len(s) /\ s \in [1 .. Len(s) -> S]
  BY LenProperties
<1>2. s \in Injection(1 .. Len(s), S)
  BY <1>1 DEF Simple, Injection, IsInjective
<1>3. Cardinality(1 .. Len(s)) <= Cardinality(S)
  BY <1>2, FS_Injection
<1>4. Cardinality(1 .. Len(s)) = Len(s)
  <2>1. Cardinality(1 .. Len(s)) = IF 1 > Len(s) THEN 0 ELSE Len(s) - 1 + 1
    BY <1>1, FS_Interval
  <2> QED
    BY <1>1, <2>1
<1> QED
  BY <1>3, <1>4

(* Trail finds the sequence that the links follow.                         *)
LEMMA TrailIs ==
  ASSUME NEW link, IsFiniteSet(DOMAIN link), NEW null, null \notin DOMAIN link,
         NEW s \in Seq(DOMAIN link), Simple(s), Follows(s, link, null),
         NEW from, from = IF s = << >> THEN null ELSE s[1]
  PROVE  Trail(from, link) = s
<1> DEFINE c == Cardinality(DOMAIN link)
           rule(v) == [k \in 0 .. c |->
                         IF k = 0 THEN from
                         ELSE IF v[k - 1] \in DOMAIN link THEN link[v[k - 1]] ELSE v[k - 1]]
           g == [k \in 0 .. c |-> IF k < Len(s) THEN s[k + 1] ELSE null]
           v == CHOOSE v : v = rule(v)
           found == {k \in 0 .. c : v[k] \in DOMAIN link}
<1>1. Len(s) \in Nat /\ c \in Nat /\ Len(s) <= c
  <2>1. c \in Nat
    BY FS_CardinalityType
  <2>2. Len(s) \in Nat
    BY SeqFacts
  <2> QED
    BY <2>1, <2>2, SimpleIsShort
<1>2. /\ \A i \in 1 .. Len(s) : s[i] \in DOMAIN link
      /\ s # << >> <=> Len(s) >= 1
  BY SeqFacts
<1>7. Trail(from, link) = [k \in 1 .. Cardinality(found) |-> v[k - 1]]
  BY DEF Trail
<1> HIDE DEF c
<1>3. \A k \in 0 .. c : g[k] = IF k < Len(s) THEN s[k + 1] ELSE null
  OBVIOUS
<1>4. ASSUME NEW k \in 0 .. c PROVE g[k] = rule(g)[k]
  <2>1. CASE k = 0
    <3>1. g[0] = from
      BY <1>1, <1>2, <1>3, <2>1
    <3> QED
      BY <2>1, <3>1
  <2>2. CASE k # 0
    <3>1. k - 1 \in 0 .. c /\ (k - 1) + 1 = k
      BY <1>1, <2>2
    <3>2. rule(g)[k] = IF g[k - 1] \in DOMAIN link THEN link[g[k - 1]] ELSE g[k - 1]
      BY <2>2
    <3> HIDE DEF g, rule
    <3>3. CASE k - 1 < Len(s)
      <4>1. k \in 1 .. Len(s)
        BY <1>1, <2>2, <3>3
      <4>2. g[k - 1] = s[k] /\ s[k] \in DOMAIN link
        BY <1>2, <1>3, <3>1, <3>3, <4>1
      <4>3. link[s[k]] = IF k < Len(s) THEN s[k + 1] ELSE null
        BY <4>1 DEF Follows
      <4> QED
        BY <1>3, <3>2, <4>2, <4>3
    <3>4. CASE ~(k - 1 < Len(s))
      <4>1. g[k - 1] = null /\ ~(k < Len(s))
        BY <1>1, <1>3, <3>1, <3>4
      <4> QED
        BY <1>3, <3>2, <4>1
    <3> QED
      BY <3>3, <3>4
  <2> QED
    BY <2>1, <2>2
<1>5. v = rule(v)
  <2>1. g = [k \in 0 .. c |-> g[k]] /\ rule(g) = [k \in 0 .. c |-> rule(g)[k]]
    OBVIOUS
  <2> HIDE DEF rule, g
  <2>2. g = rule(g)
    BY <1>4, <2>1
  <2> QED
    BY <2>2, Zenon
<1> HIDE DEF v
<1> DEFINE T == {k \in 0 .. c : v[k] = g[k]}
<1>6. \A k \in 0 .. c : v[k] = g[k]
  <2>0. \A k \in 0 .. c : v[k] = rule(v)[k]
    BY <1>5, Zenon
  <2>1. 0 \in T
    <3>1. 0 \in 0 .. c
      BY <1>1
    <3>2. v[0] = from
      BY <2>0, <3>1
    <3>3. g[0] = from
      BY <1>4, <3>1
    <3> QED
      BY <3>1, <3>2, <3>3
  <2>2. ASSUME NEW k \in 0 .. c - 1, k \in T PROVE k + 1 \in T
    <3>1. k + 1 \in 0 .. c /\ k + 1 # 0 /\ (k + 1) - 1 = k
      BY <1>1
    <3>2. v[k + 1] = IF v[k] \in DOMAIN link THEN link[v[k]] ELSE v[k]
      BY <2>0, <3>1
    <3>3. rule(g)[k + 1] = IF g[k] \in DOMAIN link THEN link[g[k]] ELSE g[k]
      BY <3>1
    <3> HIDE DEF g, rule
    <3>4. v[k + 1] = g[k + 1]
      <4>1. g[k + 1] = rule(g)[k + 1]
        BY <1>4, <3>1
      <4>2. v[k] = g[k]
        BY <2>2
      <4> QED
        BY <3>2, <3>3, <4>1, <4>2
    <3> QED
      BY <3>1, <3>4
  <2> HIDE DEF T
  <2>3. 0 .. c \subseteq T
    BY <1>1, <2>1, <2>2, UpTo
  <2> USE DEF T
  <2> QED
    BY <2>3
<1> HIDE DEF g, rule
<1>8. found = 0 .. Len(s) - 1
  <2>1. ASSUME NEW k \in 0 .. c PROVE v[k] \in DOMAIN link <=> k < Len(s)
    <3>1. CASE k < Len(s)
      <4>1. k + 1 \in 1 .. Len(s)
        BY <1>1, <3>1
      <4> QED
        BY <1>2, <1>3, <1>6, <3>1, <4>1
    <3>2. CASE ~(k < Len(s))
      BY <1>3, <1>6, <3>2
    <3> QED
      BY <3>1, <3>2
  <2> QED
    BY <1>1, <2>1
<1>9. Cardinality(found) = Len(s)
  <2>1. 0 \in Int /\ Len(s) - 1 \in Int
    BY <1>1
  <2>2. Cardinality(0 .. Len(s) - 1) = IF 0 > Len(s) - 1 THEN 0 ELSE (Len(s) - 1) - 0 + 1
    BY <2>1, FS_Interval
  <2>3. Cardinality(0 .. Len(s) - 1) = Len(s)
    BY <1>1, <2>2
  <2> QED
    BY <1>8, <2>3
<1>10. ASSUME NEW k \in 1 .. Len(s) PROVE v[k - 1] = s[k]
  <2>1. k - 1 \in 0 .. c /\ k - 1 < Len(s) /\ (k - 1) + 1 = k
    BY <1>1
  <2> QED
    BY <1>3, <1>6, <2>1
<1>11. s = [k \in 1 .. Len(s) |-> s[k]]
  BY LenProperties
<1>12. [k \in 1 .. Len(s) |-> v[k - 1]] = [k \in 1 .. Len(s) |-> s[k]]
  BY <1>10
<1> QED
  BY <1>7, <1>9, <1>11, <1>12
-------------------------------------------------------------------------------
(* Putting sequences together and taking something out of one.             *)

LEMMA JoinFacts ==
  ASSUME NEW S, NEW s \in Seq(S), NEW u \in Seq(S), NEW t, t = s \o u
  PROVE  /\ t \in Seq(S) /\ Len(t) = Len(s) + Len(u)
         /\ \A i \in 1 .. Len(s) : t[i] = s[i]
         /\ \A i \in 1 .. Len(u) : t[i + Len(s)] = u[i]
         /\ \A i \in 1 .. Len(t) : i \in 1 .. Len(s) \/ i - Len(s) \in 1 .. Len(u)
<1>1. /\ t \in Seq(S) /\ Len(t) = Len(s) + Len(u)
      /\ \A i \in 1 .. Len(s) + Len(u) : t[i] = IF i <= Len(s) THEN s[i] ELSE u[i - Len(s)]
  BY ConcatProperties
<1>2. Len(s) \in Nat /\ Len(u) \in Nat
  BY LenProperties
<1>3. ASSUME NEW i \in 1 .. Len(s) PROVE t[i] = s[i]
  <2>1. i \in 1 .. Len(s) + Len(u) /\ i <= Len(s)
    BY <1>2
  <2> QED
    BY <1>1, <2>1
<1>4. ASSUME NEW i \in 1 .. Len(u) PROVE t[i + Len(s)] = u[i]
  <2>1. i + Len(s) \in 1 .. Len(s) + Len(u) /\ ~(i + Len(s) <= Len(s)) /\ (i + Len(s)) - Len(s) = i
    BY <1>2
  <2> QED
    BY <1>1, <2>1
<1>5. ASSUME NEW i \in 1 .. Len(t) PROVE i \in 1 .. Len(s) \/ i - Len(s) \in 1 .. Len(u)
  BY <1>1, <1>2
<1> QED
  BY <1>1, <1>3, <1>4, <1>5

(* The members of a sequence. *)
Member(x, s) == \E i \in 1 .. Len(s) : s[i] = x

LEMMA MemberOfJoin ==
  ASSUME NEW S, NEW s \in Seq(S), NEW u \in Seq(S), NEW t, t = s \o u, NEW x
  PROVE  Member(x, t) <=> Member(x, s) \/ Member(x, u)
<1>1. /\ t \in Seq(S) /\ Len(t) = Len(s) + Len(u)
      /\ \A i \in 1 .. Len(s) : t[i] = s[i]
      /\ \A i \in 1 .. Len(u) : t[i + Len(s)] = u[i]
      /\ \A i \in 1 .. Len(t) : i \in 1 .. Len(s) \/ i - Len(s) \in 1 .. Len(u)
  BY JoinFacts
<1>2. Len(s) \in Nat /\ Len(u) \in Nat
  BY SeqFacts
<1>3. ASSUME NEW i \in 1 .. Len(t), t[i] = x PROVE Member(x, s) \/ Member(x, u)
  <2>1. CASE i \in 1 .. Len(s)
    BY <1>1, <1>3, <2>1 DEF Member
  <2>2. CASE i - Len(s) \in 1 .. Len(u)
    <3>1. (i - Len(s)) + Len(s) = i
      BY <1>1, <1>2
    <3>2. u[i - Len(s)] = t[i]
      BY <1>1, <2>2, <3>1
    <3> QED
      BY <1>3, <2>2, <3>2 DEF Member
  <2> QED
    BY <1>1, <2>1, <2>2
<1>4. ASSUME NEW i \in 1 .. Len(s), s[i] = x PROVE Member(x, t)
  <2>1. i \in 1 .. Len(t) /\ t[i] = x
    BY <1>1, <1>2, <1>4
  <2> QED
    BY <2>1 DEF Member
<1>5. ASSUME NEW i \in 1 .. Len(u), u[i] = x PROVE Member(x, t)
  <2>1. i + Len(s) \in 1 .. Len(t) /\ t[i + Len(s)] = x
    BY <1>1, <1>2, <1>5
  <2> QED
    BY <2>1 DEF Member
<1> QED
  BY <1>3, <1>4, <1>5 DEF Member

LEMMA SimpleJoin ==
  ASSUME NEW S, NEW s \in Seq(S), NEW u \in Seq(S), NEW t, t = s \o u,
         Simple(s), Simple(u), \A i \in 1 .. Len(s), j \in 1 .. Len(u) : s[i] # u[j]
  PROVE  Simple(t)
<1>1. /\ t \in Seq(S) /\ Len(t) = Len(s) + Len(u)
      /\ \A i \in 1 .. Len(s) : t[i] = s[i]
      /\ \A i \in 1 .. Len(u) : t[i + Len(s)] = u[i]
      /\ \A i \in 1 .. Len(t) : i \in 1 .. Len(s) \/ i - Len(s) \in 1 .. Len(u)
  BY JoinFacts
<1>2. Len(s) \in Nat /\ Len(u) \in Nat
  BY SeqFacts
<1>3. ASSUME NEW i \in 1 .. Len(t), i - Len(s) \in 1 .. Len(u) PROVE t[i] = u[i - Len(s)]
  <2>1. (i - Len(s)) + Len(s) = i
    BY <1>1, <1>2
  <2> QED
    BY <1>1, <1>3, <2>1
<1>4. ASSUME NEW i \in 1 .. Len(t), NEW j \in 1 .. Len(t), t[i] = t[j] PROVE i = j
  <2>1. CASE i \in 1 .. Len(s) /\ j \in 1 .. Len(s)
    BY <1>1, <1>4, <2>1 DEF Simple
  <2>2. CASE i \in 1 .. Len(s) /\ j - Len(s) \in 1 .. Len(u)
    BY <1>1, <1>3, <1>4, <2>2
  <2>3. CASE i - Len(s) \in 1 .. Len(u) /\ j \in 1 .. Len(s)
    BY <1>1, <1>3, <1>4, <2>3
  <2>4. CASE i - Len(s) \in 1 .. Len(u) /\ j - Len(s) \in 1 .. Len(u)
    <3>1. i - Len(s) = j - Len(s)
      BY <1>3, <1>4, <2>4 DEF Simple
    <3> QED
      BY <1>1, <1>2, <3>1
  <2> QED
    BY <1>1, <2>1, <2>2, <2>3, <2>4
<1> QED
  BY <1>4 DEF Simple

(* The links of two sequences in a row: those of the first lead to the     *)
(* second.                                                                 *)
LEMMA FollowsJoin ==
  ASSUME NEW S, NEW s \in Seq(S), NEW u \in Seq(S), u # << >>, NEW t, t = s \o u,
         NEW link, NEW null, Follows(u, link, null), Follows(s, link, u[1])
  PROVE  Follows(t, link, null)
<1>1. /\ t \in Seq(S) /\ Len(t) = Len(s) + Len(u)
      /\ \A i \in 1 .. Len(s) : t[i] = s[i]
      /\ \A i \in 1 .. Len(u) : t[i + Len(s)] = u[i]
      /\ \A i \in 1 .. Len(t) : i \in 1 .. Len(s) \/ i - Len(s) \in 1 .. Len(u)
  BY JoinFacts
<1>2. Len(s) \in Nat /\ Len(u) \in Nat /\ Len(u) >= 1
  BY SeqFacts
<1>3. \A i \in 1 .. Len(s) : link[s[i]] = IF i < Len(s) THEN s[i + 1] ELSE u[1]
  BY DEF Follows
<1>4. ASSUME NEW i \in 1 .. Len(t)
      PROVE  link[t[i]] = IF i < Len(t) THEN t[i + 1] ELSE null
  <2>1. CASE i \in 1 .. Len(s)
    <3>1. i < Len(t) /\ t[i] = s[i]
      BY <1>1, <1>2, <2>1
    <3>2. CASE i < Len(s)
      <4>1. i + 1 \in 1 .. Len(s)
        BY <1>2, <2>1, <3>2
      <4> QED
        BY <1>1, <1>3, <2>1, <3>1, <3>2, <4>1
    <3>3. CASE ~(i < Len(s))
      <4>1. i + 1 = 1 + Len(s) /\ 1 \in 1 .. Len(u)
        BY <1>2, <2>1, <3>3
      <4>2. t[i + 1] = u[1]
        BY <1>1, <4>1
      <4> QED
        BY <1>3, <2>1, <3>1, <3>3, <4>2
    <3> QED
      BY <3>2, <3>3
  <2>2. CASE i - Len(s) \in 1 .. Len(u)
    <3> DEFINE j == i - Len(s)
    <3>1. i = j + Len(s) /\ j \in 1 .. Len(u) /\ (i < Len(t) <=> j < Len(u)) /\ i + 1 = (j + 1) + Len(s)
      BY <1>1, <1>2, <2>2
    <3> HIDE DEF j
    <3>2. t[i] = u[j]
      BY <1>1, <3>1
    <3>3. j < Len(u) => t[i + 1] = u[j + 1]
      <4>1. j < Len(u) => j + 1 \in 1 .. Len(u)
        BY <1>2, <3>1
      <4> QED
        BY <1>1, <3>1, <4>1
    <3>4. link[u[j]] = IF j < Len(u) THEN u[j + 1] ELSE null
      BY <3>1 DEF Follows
    <3> QED
      BY <3>1, <3>2, <3>3, <3>4
  <2> QED
    BY <1>1, <2>1, <2>2
<1> QED
  BY <1>4 DEF Follows

LEMMA LeadsBackJoin ==
  ASSUME NEW S, NEW s \in Seq(S), NEW u \in Seq(S), NEW t, t = s \o u,
         NEW link, NEW null, LeadsBack(s, link, null),
         NEW last, last = IF s = << >> THEN null ELSE s[Len(s)], LeadsBack(u, link, last)
  PROVE  LeadsBack(t, link, null)
<1>1. /\ t \in Seq(S) /\ Len(t) = Len(s) + Len(u)
      /\ \A i \in 1 .. Len(s) : t[i] = s[i]
      /\ \A i \in 1 .. Len(u) : t[i + Len(s)] = u[i]
      /\ \A i \in 1 .. Len(t) : i \in 1 .. Len(s) \/ i - Len(s) \in 1 .. Len(u)
  BY JoinFacts
<1>2. Len(s) \in Nat /\ Len(u) \in Nat /\ (s # << >> <=> Len(s) >= 1)
  BY SeqFacts
<1>3. \A i \in 1 .. Len(u) : link[u[i]] = IF i > 1 THEN u[i - 1] ELSE last
  BY DEF LeadsBack
<1>4. ASSUME NEW i \in 1 .. Len(t)
      PROVE  link[t[i]] = IF i > 1 THEN t[i - 1] ELSE null
  <2>1. CASE i \in 1 .. Len(s)
    <3>1. i > 1 => i - 1 \in 1 .. Len(s)
      BY <1>2, <2>1
    <3>2. link[s[i]] = IF i > 1 THEN s[i - 1] ELSE null
      BY <2>1 DEF LeadsBack
    <3> QED
      BY <1>1, <2>1, <3>1, <3>2
  <2>2. CASE i - Len(s) \in 1 .. Len(u)
    <3> DEFINE j == i - Len(s)
    <3>1. i = j + Len(s) /\ j \in 1 .. Len(u) /\ i - 1 = (j - 1) + Len(s)
      BY <1>1, <1>2, <2>2
    <3> HIDE DEF j
    <3>2. link[t[i]] = IF j > 1 THEN u[j - 1] ELSE last
      BY <1>1, <1>3, <3>1
    <3>3. CASE j > 1
      <4>1. j - 1 \in 1 .. Len(u) /\ i > 1
        BY <1>2, <3>1, <3>3
      <4>2. t[i - 1] = u[j - 1]
        BY <1>1, <3>1, <4>1
      <4> QED
        BY <3>2, <3>3, <4>1, <4>2
    <3>4. CASE ~(j > 1)
      <4>1. j = 1 /\ i - 1 = Len(s)
        BY <1>2, <3>1, <3>4
      <4>2. CASE s = << >>
        <5>1. ~(i > 1)
          BY <1>2, <3>1, <4>1, <4>2
        <5> QED
          BY <3>2, <3>4, <4>2, <5>1
      <4>3. CASE s # << >>
        <5>1. i > 1 /\ Len(s) \in 1 .. Len(s)
          BY <1>2, <3>1, <4>1, <4>3
        <5>2. t[i - 1] = s[Len(s)]
          BY <1>1, <4>1, <5>1
        <5> QED
          BY <3>2, <3>4, <4>3, <5>1, <5>2
      <4> QED
        BY <4>2, <4>3
    <3> QED
      BY <3>3, <3>4
  <2> QED
    BY <1>1, <2>1, <2>2
<1> QED
  BY <1>4 DEF LeadsBack
LEMMA RemoveFacts ==
  ASSUME NEW S, NEW s \in Seq(S), NEW i \in 1 .. Len(s), NEW t, t = RemoveAt(s, i)
  PROVE  /\ t \in Seq(S) /\ Len(t) = Len(s) - 1
         /\ \A j \in 1 .. Len(t) : t[j] = IF j < i THEN s[j] ELSE s[j + 1]
<1> DEFINE a == SubSeq(s, 1, i - 1)
           b == SubSeq(s, i + 1, Len(s))
<1>0. Len(s) \in Nat /\ \A j \in 1 .. Len(s) : s[j] \in S
  BY SeqFacts
<1>1. /\ a \in Seq(S) /\ Len(a) = i - 1
      /\ \A j \in 1 .. i - 1 : a[j] = s[j]
  <2>1. \A j \in 1 .. i - 1 : s[j] \in S
    BY <1>0
  <2>2. i - 1 \in Int /\ 1 \in Int
    BY <1>0
  <2>3. /\ a \in Seq(S) /\ Len(a) = IF 1 <= i - 1 THEN (i - 1) - 1 + 1 ELSE 0
        /\ \A j \in 1 .. (i - 1) - 1 + 1 : a[j] = s[1 + j - 1]
    BY <2>1, <2>2, SubSeqProperties
  <2> HIDE DEF a
  <2>4. Len(a) = i - 1
    BY <1>0, <2>3
  <2>5. ASSUME NEW j \in 1 .. i - 1 PROVE a[j] = s[j]
    <3>1. j \in 1 .. (i - 1) - 1 + 1 /\ 1 + j - 1 = j
      BY <1>0
    <3> QED
      BY <2>3, <3>1
  <2> QED
    BY <2>3, <2>4, <2>5
<1>2. /\ b \in Seq(S) /\ Len(b) = Len(s) - i
      /\ \A j \in 1 .. Len(s) - i : b[j] = s[i + j]
  <2>1. \A j \in i + 1 .. Len(s) : s[j] \in S
    BY <1>0
  <2>2. i + 1 \in Int /\ Len(s) \in Int
    BY <1>0
  <2>3. /\ b \in Seq(S) /\ Len(b) = IF i + 1 <= Len(s) THEN Len(s) - (i + 1) + 1 ELSE 0
        /\ \A j \in 1 .. Len(s) - (i + 1) + 1 : b[j] = s[(i + 1) + j - 1]
    BY <2>1, <2>2, SubSeqProperties
  <2> HIDE DEF b
  <2>4. Len(b) = Len(s) - i
    BY <1>0, <2>3
  <2>5. ASSUME NEW j \in 1 .. Len(s) - i PROVE b[j] = s[i + j]
    <3>1. j \in 1 .. Len(s) - (i + 1) + 1 /\ (i + 1) + j - 1 = i + j
      BY <1>0
    <3> QED
      BY <2>3, <3>1
  <2> QED
    BY <2>3, <2>4, <2>5
<1>3. t = a \o b
  BY DEF RemoveAt
<1> HIDE DEF a, b
<1>4. /\ t \in Seq(S) /\ Len(t) = Len(a) + Len(b)
      /\ \A j \in 1 .. Len(a) : t[j] = a[j]
      /\ \A j \in 1 .. Len(b) : t[j + Len(a)] = b[j]
  <2>1. a \in Seq(S) /\ b \in Seq(S)
    BY <1>1, <1>2
  <2> QED
    BY <1>3, <2>1, JoinFacts
<1>5. Len(t) = Len(s) - 1
  BY <1>0, <1>1, <1>2, <1>4
<1>6. ASSUME NEW j \in 1 .. Len(t) PROVE t[j] = IF j < i THEN s[j] ELSE s[j + 1]
  <2>1. CASE j < i
    <3>1. j \in 1 .. Len(a) /\ j \in 1 .. i - 1
      BY <1>0, <1>1, <1>5, <2>1
    <3> QED
      BY <1>1, <1>4, <2>1, <3>1
  <2>2. CASE ~(j < i)
    <3> DEFINE k == j - (i - 1)
    <3>1. k \in 1 .. Len(b) /\ k \in 1 .. Len(s) - i /\ k + Len(a) = j /\ i + k = j + 1
      BY <1>0, <1>1, <1>2, <1>5, <2>2
    <3> HIDE DEF k
    <3>2. t[k + Len(a)] = b[k] /\ b[k] = s[i + k]
      BY <1>2, <1>4, <3>1
    <3> QED
      BY <2>2, <3>1, <3>2
  <2> QED
    BY <2>1, <2>2
<1> QED
  BY <1>4, <1>5, <1>6

LEMMA SimpleRemove ==
  ASSUME NEW S, NEW s \in Seq(S), NEW i \in 1 .. Len(s), NEW t, t = RemoveAt(s, i), Simple(s)
  PROVE  /\ Simple(t)
         /\ \A x : Member(x, t) <=> Member(x, s) /\ x # s[i]
<1>1. /\ t \in Seq(S) /\ Len(t) = Len(s) - 1
      /\ \A j \in 1 .. Len(t) : t[j] = IF j < i THEN s[j] ELSE s[j + 1]
  BY RemoveFacts
<1>2. Len(s) \in Nat
  BY SeqFacts
<1>3. ASSUME NEW j \in 1 .. Len(t), NEW k \in 1 .. Len(t), t[j] = t[k] PROVE j = k
  <2>1. j \in 1 .. Len(s) /\ j + 1 \in 1 .. Len(s) /\ k \in 1 .. Len(s) /\ k + 1 \in 1 .. Len(s)
    BY <1>1, <1>2
  <2>2. (IF j < i THEN j ELSE j + 1) = (IF k < i THEN k ELSE k + 1)
    <3>1. s[IF j < i THEN j ELSE j + 1] = s[IF k < i THEN k ELSE k + 1]
      BY <1>1, <1>3
    <3>2. /\ (IF j < i THEN j ELSE j + 1) \in 1 .. Len(s)
          /\ (IF k < i THEN k ELSE k + 1) \in 1 .. Len(s)
      BY <2>1
    <3> QED
      BY <3>1, <3>2 DEF Simple
  <2> QED
    BY <1>2, <2>1, <2>2
<1>4. ASSUME NEW j \in 1 .. Len(t)
      PROVE  /\ (IF j < i THEN j ELSE j + 1) \in 1 .. Len(s) /\ (IF j < i THEN j ELSE j + 1) # i
             /\ t[j] = s[IF j < i THEN j ELSE j + 1]
  BY <1>1, <1>2
<1>5. ASSUME NEW x, Member(x, t) PROVE Member(x, s) /\ x # s[i]
  <2>1. PICK j \in 1 .. Len(t) : t[j] = x
    BY <1>5 DEF Member
  <2>2. PICK k \in 1 .. Len(s) : k # i /\ s[k] = x
    BY <1>4, <2>1
  <2> QED
    BY <2>2 DEF Member, Simple
<1>6. ASSUME NEW x, Member(x, s), x # s[i] PROVE Member(x, t)
  <2>1. PICK k \in 1 .. Len(s) : s[k] = x
    BY <1>6 DEF Member
  <2>2. k # i
    BY <1>6, <2>1
  <2>3. CASE k < i
    <3>1. k \in 1 .. Len(t)
      BY <1>1, <1>2, <2>3
    <3>2. t[k] = x
      BY <1>1, <2>1, <2>3, <3>1
    <3> QED
      BY <3>1, <3>2 DEF Member
  <2>4. CASE ~(k < i)
    <3>1. k - 1 \in 1 .. Len(t) /\ ~(k - 1 < i) /\ (k - 1) + 1 = k
      BY <1>1, <1>2, <2>2, <2>4
    <3>2. t[k - 1] = x
      BY <1>1, <2>1, <3>1
    <3> QED
      BY <3>1, <3>2 DEF Member
  <2> QED
    BY <2>3, <2>4
<1> QED
  BY <1>3, <1>5, <1>6 DEF Simple

(* Unlinking a node from its predecessor, if it has one.                   *)
Bypassed(s, i, old, link) ==
  /\ \A j \in 1 .. Len(s) : j # i /\ j + 1 # i => link[s[j]] = old[s[j]]
  /\ i > 1 => link[s[i - 1]] = old[s[i]]

LEMMA FollowsRemove ==
  ASSUME NEW S, NEW s \in Seq(S), NEW i \in 1 .. Len(s), NEW t, t = RemoveAt(s, i),
         NEW old, NEW link, NEW null, Follows(s, old, null), Bypassed(s, i, old, link)
  PROVE  Follows(t, link, null)
<1>1. /\ t \in Seq(S) /\ Len(t) = Len(s) - 1
      /\ \A j \in 1 .. Len(t) : t[j] = IF j < i THEN s[j] ELSE s[j + 1]
  BY RemoveFacts
<1>2. Len(s) \in Nat
  BY SeqFacts
<1>3. \A j \in 1 .. Len(s) : old[s[j]] = IF j < Len(s) THEN s[j + 1] ELSE null
  BY DEF Follows
<1>4. /\ \A j \in 1 .. Len(s) : j # i /\ j + 1 # i => link[s[j]] = old[s[j]]
      /\ i > 1 => link[s[i - 1]] = old[s[i]]
  BY DEF Bypassed
<1>5. ASSUME NEW j \in 1 .. Len(t)
      PROVE  link[t[j]] = IF j < Len(t) THEN t[j + 1] ELSE null
  <2>0. /\ j \in 1 .. Len(s) /\ j + 1 \in 1 .. Len(s)
        /\ j < Len(t) => j + 1 \in 1 .. Len(t) /\ j + 2 \in 1 .. Len(s)
    BY <1>1, <1>2
  <2>1. CASE j + 1 < i
    <3>1. j < Len(t) /\ j < Len(s) /\ j < i /\ j # i /\ j + 1 # i
      BY <1>1, <1>2, <2>0, <2>1
    <3>2. t[j] = s[j] /\ t[j + 1] = s[j + 1]
      BY <1>1, <2>0, <2>1, <3>1
    <3>3. link[s[j]] = s[j + 1]
      BY <1>3, <1>4, <2>0, <3>1
    <3> QED
      BY <3>1, <3>2, <3>3
  <2>2. CASE j + 1 = i
    <3>1. j < i /\ i > 1 /\ i - 1 = j /\ (i < Len(s) <=> j < Len(t)) /\ ~(j + 1 < i)
      BY <1>1, <1>2, <2>0, <2>2
    <3>2. t[j] = s[j] /\ link[s[j]] = old[s[i]]
      BY <1>1, <1>4, <3>1
    <3>3. j < Len(t) => t[j + 1] = s[i + 1]
      <4>1. j < Len(t) => t[j + 1] = s[(j + 1) + 1]
        BY <1>1, <2>0, <3>1
      <4> QED
        BY <2>2, <4>1
    <3>4. old[s[i]] = IF i < Len(s) THEN s[i + 1] ELSE null
      BY <1>3
    <3> QED
      BY <3>1, <3>2, <3>3, <3>4
  <2>3. CASE j + 1 > i
    <3>1. ~(j < i) /\ ~(j + 1 < i) /\ j + 1 # i /\ (j + 1) + 1 # i /\ (j + 1 < Len(s) <=> j < Len(t))
      BY <1>1, <1>2, <2>0, <2>3
    <3>2. t[j] = s[j + 1] /\ (j < Len(t) => t[j + 1] = s[(j + 1) + 1])
      BY <1>1, <2>0, <3>1
    <3>3. link[s[j + 1]] = old[s[j + 1]]
      BY <1>4, <2>0, <3>1
    <3>4. old[s[j + 1]] = IF j + 1 < Len(s) THEN s[(j + 1) + 1] ELSE null
      BY <1>3, <2>0
    <3> QED
      BY <3>1, <3>2, <3>3, <3>4
  <2> QED
    BY <1>2, <2>0, <2>1, <2>2, <2>3
<1> QED
  BY <1>5 DEF Follows

(* And from its successor. *)
BypassedBack(s, i, old, link) ==
  /\ \A j \in 1 .. Len(s) : j # i /\ j # i + 1 => link[s[j]] = old[s[j]]
  /\ i < Len(s) => link[s[i + 1]] = old[s[i]]

LEMMA LeadsBackRemove ==
  ASSUME NEW S, NEW s \in Seq(S), NEW i \in 1 .. Len(s), NEW t, t = RemoveAt(s, i),
         NEW old, NEW link, NEW null, LeadsBack(s, old, null), BypassedBack(s, i, old, link)
  PROVE  LeadsBack(t, link, null)
<1>1. /\ t \in Seq(S) /\ Len(t) = Len(s) - 1
      /\ \A j \in 1 .. Len(t) : t[j] = IF j < i THEN s[j] ELSE s[j + 1]
  BY RemoveFacts
<1>2. Len(s) \in Nat
  BY SeqFacts
<1>3. \A j \in 1 .. Len(s) : old[s[j]] = IF j > 1 THEN s[j - 1] ELSE null
  BY DEF LeadsBack
<1>4. /\ \A j \in 1 .. Len(s) : j # i /\ j # i + 1 => link[s[j]] = old[s[j]]
      /\ i < Len(s) => link[s[i + 1]] = old[s[i]]
  BY DEF BypassedBack
<1>5. ASSUME NEW j \in 1 .. Len(t)
      PROVE  link[t[j]] = IF j > 1 THEN t[j - 1] ELSE null
  <2>0. /\ j \in 1 .. Len(s) /\ j + 1 \in 1 .. Len(s)
        /\ j > 1 => j - 1 \in 1 .. Len(t) /\ j - 1 \in 1 .. Len(s) /\ (j - 1) + 1 = j
    BY <1>1, <1>2
  <2>1. CASE j < i
    <3>1. j # i /\ j # i + 1 /\ (j > 1 => j - 1 < i)
      BY <1>2, <2>0, <2>1
    <3>2. t[j] = s[j] /\ (j > 1 => t[j - 1] = s[j - 1])
      BY <1>1, <2>0, <2>1, <3>1
    <3>3. link[s[j]] = IF j > 1 THEN s[j - 1] ELSE null
      BY <1>3, <1>4, <2>0, <3>1
    <3> QED
      BY <3>2, <3>3
  <2>2. CASE j = i
    <3>1. i < Len(s) /\ ~(j < i) /\ (j > 1 => j - 1 < i)
      BY <1>2, <2>0, <2>2
    <3>2. t[j] = s[i + 1] /\ (j > 1 => t[j - 1] = s[i - 1])
      BY <1>1, <2>0, <2>2, <3>1
    <3>3. link[s[i + 1]] = IF i > 1 THEN s[i - 1] ELSE null
      BY <1>3, <1>4, <3>1
    <3> QED
      BY <2>2, <3>2, <3>3
  <2>3. CASE j > i
    <3>1. ~(j < i) /\ j > 1 /\ ~(j - 1 < i) /\ j + 1 # i /\ j + 1 # i + 1 /\ j + 1 > 1 /\ (j + 1) - 1 = j
      BY <1>2, <2>0, <2>3
    <3>2. t[j] = s[j + 1] /\ t[j - 1] = s[j]
      BY <1>1, <2>0, <3>1
    <3>3. link[s[j + 1]] = s[j]
      BY <1>3, <1>4, <2>0, <3>1
    <3> QED
      BY <3>1, <3>2, <3>3
  <2> QED
    BY <1>2, <2>0, <2>1, <2>2, <2>3
<1> QED
  BY <1>5 DEF LeadsBack

LEMMA OneFacts ==
  ASSUME NEW S, NEW x \in S
  PROVE  /\ << x >> \in Seq(S) /\ Len(<< x >>) = 1 /\ << x >>[1] = x /\ << x >> # << >>
         /\ Simple(<< x >>) /\ \A y : Member(y, << x >>) <=> y = x
<1> DEFINE s == << x >>
<1>1. s = Append(<< >>, x) /\ << >> \in Seq(S) /\ Len(<< >>) = 0
  BY EmptySeq
<1>2. s \in Seq(S) /\ s # << >> /\ Len(s) = 1 /\ s[1] = x
  BY <1>1, AppendProperties
<1> HIDE DEF s
<1>3. \A i \in 1 .. Len(s) : i = 1
  BY <1>2
<1>4. 1 \in 1 .. Len(s)
  BY <1>2
<1>5. Simple(s) /\ \A y : Member(y, s) <=> y = x
  BY <1>2, <1>3, <1>4 DEF Simple, Member
<1> QED
  BY <1>2, <1>5 DEF s-------------------------------------------------------------------------------
(* ForwardList.  The nodes of list l are those of s, first to last.        *)
First(s) == IF s = << >> THEN Null ELSE s[1]

Holds(l, s) ==
  /\ s \in Seq(Nodes) /\ Simple(s)
  /\ \A n \in Nodes : Member(n, s) <=> place[n] = l
  /\ head[l] = First(s)
  /\ Follows(s, next, Null)

ListTypes ==
  /\ head \in [Names -> Nodes \cup {Null}]
  /\ next \in [Nodes -> Nodes \cup {Null}]
  /\ place \in [Nodes -> {"raw", "held"} \cup Names]

(* No list has a node that is not in a list.  That the others have no link *)
(* is not enough: it is the link of the last node of a list that has to be *)
(* null, and every node that a list leads to has to be in that list.       *)
ListInvariant ==
  /\ ListTypes
  /\ \A n \in Nodes : place[n] \in {"raw", "held"} => next[n] = Null
  /\ \A l \in Names : \E s : Holds(l, s)

(* What the links lead to is what the list holds.                          *)
LEMMA ContentsAre ==
  ASSUME ListTypes, NEW l \in Names, NEW s, Holds(l, s)
  PROVE  Contents(l) = s
<1>1. DOMAIN next = Nodes /\ IsFiniteSet(Nodes) /\ Null \notin Nodes
  BY ListsAssumption DEF ListTypes
<1>2. /\ s \in Seq(DOMAIN next) /\ Simple(s) /\ Follows(s, next, Null)
      /\ head[l] = IF s = << >> THEN Null ELSE s[1]
  BY <1>1 DEF Holds, First
<1> QED
  BY <1>1, <1>2, TrailIs DEF Contents

LEMMA ContentsAreNext ==
  ASSUME ListTypes', NEW l \in Names, NEW s, Holds(l, s)'
  PROVE  Contents(l)' = s
<1>1. DOMAIN next' = Nodes /\ IsFiniteSet(Nodes) /\ Null \notin Nodes
  BY ListsAssumption DEF ListTypes
<1>2. /\ s \in Seq(DOMAIN next') /\ Simple(s) /\ Follows(s, next', Null)
      /\ head'[l] = IF s = << >> THEN Null ELSE s[1]
  BY <1>1 DEF Holds, First
<1>3. Trail(head'[l], next') = s
  BY <1>1, <1>2, TrailIs
<1> QED
  BY <1>3 DEF Contents

(* The first node and the last one.                                        *)
LEMMA HoldsEnds ==
  ASSUME NEW l, NEW s, Holds(l, s)
  PROVE  /\ Len(s) \in Nat
         /\ \A i \in 1 .. Len(s) : s[i] \in Nodes /\ place[s[i]] = l
         /\ s # << >> => 1 \in 1 .. Len(s) /\ Len(s) \in 1 .. Len(s) /\ head[l] = s[1]
         /\ head[l] # Null <=> s # << >>
         /\ Last(s) = s[Len(s)]
<1>1. /\ s \in Seq(Nodes) /\ \A n \in Nodes : Member(n, s) <=> place[n] = l
      /\ head[l] = First(s)
  BY DEF Holds
<1>2. /\ Len(s) \in Nat /\ \A i \in 1 .. Len(s) : s[i] \in Nodes
      /\ s # << >> <=> Len(s) >= 1
  BY <1>1, SeqFacts
<1>3. ASSUME NEW i \in 1 .. Len(s) PROVE place[s[i]] = l
  BY <1>1, <1>2 DEF Member
<1>4. s # << >> => 1 \in 1 .. Len(s) /\ Len(s) \in 1 .. Len(s)
  BY <1>2
<1>5. (s # << >> => head[l] = s[1]) /\ (s = << >> => head[l] = Null)
  BY <1>1 DEF First
<1>6. head[l] # Null <=> s # << >>
  BY <1>2, <1>4, <1>5, ListsAssumption
<1> QED
  BY <1>2, <1>3, <1>4, <1>5, <1>6 DEF Last

(* A step that changes list l from s to t and leaves the others alone.     *)
Changes(l, s, t) ==
  /\ Holds(l, s) /\ Holds(l, t)'
  /\ \A m \in Names \ {l} : \A u : Holds(m, u) => Holds(m, u)'

LEMMA OthersHold ==
  ASSUME NEW l, NEW m \in Names \ {l}, NEW u, Holds(m, u),
         head'[m] = head[m],
         \A n \in Nodes : place[n] = m => next'[n] = next[n],
         \A n \in Nodes : place[n] = m <=> place'[n] = m
  PROVE  Holds(m, u)'
<1>1. /\ u \in Seq(Nodes) /\ Simple(u) /\ \A n \in Nodes : Member(n, u) <=> place[n] = m
      /\ head[m] = First(u)
      /\ \A i \in 1 .. Len(u) : next[u[i]] = IF i < Len(u) THEN u[i + 1] ELSE Null
  BY DEF Holds, Follows
<1>2. ASSUME NEW i \in 1 .. Len(u) PROVE next'[u[i]] = next[u[i]]
  <2>1. u[i] \in Nodes /\ place[u[i]] = m
    BY HoldsEnds
  <2> QED
    BY <2>1
<1>3. Follows(u, next', Null)
  BY <1>1, <1>2 DEF Follows
<1>4. \A n \in Nodes : Member(n, u) <=> place'[n] = m
  BY <1>1
<1>5. head'[m] = First(u)
  BY <1>1
<1> QED
  BY <1>1, <1>3, <1>4, <1>5 DEF Holds

LEMMA ChangesKeep ==
  ASSUME ListInvariant, ListTypes', NEW l \in Names, NEW s, NEW t, Changes(l, s, t),
         \A n \in Nodes : place'[n] \in {"raw", "held"} => next'[n] = Null
  PROVE  /\ ListInvariant'
         /\ Contents(l) = s
         /\ [m \in Names |-> Contents(m)]' = [[m \in Names |-> Contents(m)] EXCEPT ![l] = t]
<1>1. Holds(l, s) /\ Holds(l, t)' /\ ListTypes
  BY DEF Changes, ListInvariant
<1>2. Contents(l) = s /\ Contents(l)' = t
  BY <1>1, ContentsAre, ContentsAreNext
<1>3. ASSUME NEW m \in Names \ {l}
      PROVE  Contents(m)' = Contents(m) /\ \E u : Holds(m, u)'
  <2>1. PICK u : Holds(m, u)
    BY DEF ListInvariant
  <2>2. Holds(m, u)'
    BY <2>1 DEF Changes
  <2>3. Contents(m) = u
    BY <1>1, <2>1, ContentsAre
  <2>4. Contents(m)' = u
    BY <2>2, ContentsAreNext
  <2> QED
    BY <2>2, <2>3, <2>4
<1>4. \A m \in Names : \E u : Holds(m, u)'
  BY <1>1, <1>3
<1>5. \A m \in Names : Contents(m)' = IF m = l THEN t ELSE Contents(m)
  BY <1>2, <1>3
<1>6. [m \in Names |-> Contents(m)]' = [[m \in Names |-> Contents(m)] EXCEPT ![l] = t]
  BY <1>5
<1> QED
  BY <1>2, <1>4, <1>6 DEF ListInvariant-------------------------------------------------------------------------------
(* A chain of nodes that no list has is put at the end of list l.          *)
LEMMA AppendChanges ==
  ASSUME ListInvariant, NEW l \in Names, NEW s, Holds(l, s),
         NEW u \in Seq(Nodes), u # << >>, Simple(u),
         \A i \in 1 .. Len(u) : place[u[i]] \in {"raw", "held"},
         NEW links \in [Nodes -> Nodes \cup {Null}], Follows(u, links, Null),
         \A n \in Nodes : ~Member(n, u) => links[n] = next[n],
         Appended(l, u[1], links),
         place' = [n \in Nodes |-> IF Member(n, u) THEN l ELSE place[n]]
  PROVE  /\ ListTypes' /\ Changes(l, s, s \o u)
         /\ \A n \in Nodes : place'[n] \in {"raw", "held"} => next'[n] = Null
<1>1. /\ s \in Seq(Nodes) /\ Simple(s) /\ \A n \in Nodes : Member(n, s) <=> place[n] = l
      /\ head[l] = First(s)
      /\ \A i \in 1 .. Len(s) : next[s[i]] = IF i < Len(s) THEN s[i + 1] ELSE Null
  BY DEF Holds, Follows
<1>2. /\ Len(s) \in Nat
      /\ \A i \in 1 .. Len(s) : s[i] \in Nodes /\ place[s[i]] = l
      /\ s # << >> => 1 \in 1 .. Len(s) /\ Len(s) \in 1 .. Len(s) /\ head[l] = s[1]
      /\ head[l] # Null <=> s # << >>
      /\ Last(s) = s[Len(s)]
  BY HoldsEnds
<1>3. ListTypes /\ Contents(l) = s
  BY ContentsAre DEF ListInvariant
<1>4. /\ Len(u) \in Nat /\ 1 \in 1 .. Len(u)
      /\ \A i \in 1 .. Len(u) : u[i] \in Nodes
  <2>1. Len(u) \in Nat /\ Len(u) >= 1 /\ \A i \in 1 .. Len(u) : u[i] \in Nodes
    BY SeqFacts
  <2> QED
    BY <2>1
<1>5. Names \cap {"raw", "held"} = {}
  BY ListsAssumption
<1>6. ASSUME NEW i \in 1 .. Len(s) PROVE ~Member(s[i], u)
  BY <1>2, <1>5, <1>6 DEF Member
<1>7. \A i \in 1 .. Len(s), j \in 1 .. Len(u) : s[i] # u[j]
  BY <1>6 DEF Member
(* The links. *)
<1>8. ASSUME NEW n \in Nodes
      PROVE  next'[n] = IF s # << >> /\ n = s[Len(s)] THEN u[1] ELSE links[n]
  BY <1>2, <1>3 DEF Appended
<1>9. next' \in [Nodes -> Nodes \cup {Null}]
  BY <1>2, <1>3, <1>4 DEF Appended
<1>10. head' = IF s = << >> THEN [head EXCEPT ![l] = u[1]] ELSE head
  BY <1>2 DEF Appended
<1>11. ListTypes'
  <2>1. head' \in [Names -> Nodes \cup {Null}]
    BY <1>3, <1>4, <1>10 DEF ListTypes
  <2>2. place' \in [Nodes -> {"raw", "held"} \cup Names]
    BY <1>3 DEF ListTypes
  <2> QED
    BY <1>9, <2>1, <2>2 DEF ListTypes
(* The list itself. *)
<1>12. PICK t : t = s \o u
  OBVIOUS
<1>13. /\ t \in Seq(Nodes) /\ Len(t) = Len(s) + Len(u)
       /\ \A i \in 1 .. Len(s) : t[i] = s[i]
       /\ \A i \in 1 .. Len(u) : t[i + Len(s)] = u[i]
  BY <1>1, <1>12, JoinFacts
<1>14. Simple(t)
  BY <1>1, <1>7, <1>12, SimpleJoin
<1>15. ASSUME NEW n \in Nodes PROVE Member(n, t) <=> place'[n] = l
  <2>1. Member(n, t) <=> Member(n, s) \/ Member(n, u)
    BY <1>1, <1>12, MemberOfJoin
  <2> QED
    BY <1>1, <2>1
<1>16. head'[l] = First(t)
  <2>1. CASE s = << >>
    <3>1. head'[l] = u[1]
      BY <1>3, <1>10, <2>1 DEF ListTypes
    <3>2. Len(s) = 0 /\ 1 + Len(s) = 1
      BY <2>1, EmptySeq
    <3>3. t[1] = u[1] /\ t # << >>
      <4>1. t[1 + Len(s)] = u[1]
        BY <1>4, <1>13
      <4>2. Len(t) # 0
        BY <1>4, <1>13, <3>2
      <4> QED
        BY <3>2, <4>1, <4>2, EmptySeq
    <3> QED
      BY <3>1, <3>3 DEF First
  <2>2. CASE s # << >>
    <3>1. head'[l] = s[1] /\ t[1] = s[1]
      BY <1>2, <1>10, <1>13, <2>2
    <3>2. t # << >>
      <4>1. Len(t) # 0
        BY <1>2, <1>4, <1>13
      <4> QED
        BY <4>1, EmptySeq
    <3> QED
      BY <3>1, <3>2 DEF First
  <2> QED
    BY <2>1, <2>2
<1>17. Follows(t, next', Null)
  <2>1. Follows(u, next', Null)
    <3>1. ASSUME NEW i \in 1 .. Len(u) PROVE next'[u[i]] = links[u[i]]
      <4>1. u[i] \in Nodes /\ (s # << >> => u[i] # s[Len(s)])
        BY <1>2, <1>4, <1>7
      <4> QED
        BY <1>8, <4>1
    <3> QED
      BY <3>1 DEF Follows
  <2>2. ASSUME NEW i \in 1 .. Len(s)
        PROVE  next'[s[i]] = IF i < Len(s) THEN s[i + 1] ELSE u[1]
    <3>1. s # << >> /\ (i < Len(s) => s[i] # s[Len(s)])
      <4>1. Len(s) # 0 /\ Len(s) \in 1 .. Len(s)
        BY <1>2
      <4>2. s # << >>
        BY <4>1, EmptySeq
      <4>3. i < Len(s) => i # Len(s)
        BY <1>2
      <4> QED
        BY <1>1, <4>1, <4>2, <4>3 DEF Simple
    <3>2. s[i] \in Nodes /\ ~Member(s[i], u)
      BY <1>2, <1>6
    <3>3. CASE i < Len(s)
      <4>1. next'[s[i]] = links[s[i]]
        BY <1>8, <3>1, <3>2, <3>3
      <4>2. links[s[i]] = next[s[i]]
        BY <3>2
      <4> QED
        BY <1>1, <3>3, <4>1, <4>2
    <3>4. CASE ~(i < Len(s))
      <4>1. i = Len(s)
        BY <1>2, <3>4
      <4> QED
        BY <1>8, <3>1, <3>2, <3>4, <4>1
    <3> QED
      BY <3>3, <3>4
  <2> QED
    <3>1. Follows(s, next', u[1])
      BY <2>2 DEF Follows
    <3> QED
      BY <1>1, <1>12, <2>1, <3>1, FollowsJoin, Zenon
<1>18. Holds(l, t)'
  BY <1>13, <1>14, <1>15, <1>16, <1>17 DEF Holds
(* The others. *)
<1>19. ASSUME NEW n \in Nodes, place[n] # l, ~Member(n, u) PROVE next'[n] = next[n]
  <2>1. s # << >> => n # s[Len(s)]
    BY <1>2, <1>19
  <2> QED
    BY <1>8, <1>19, <2>1
<1>20. ASSUME NEW m \in Names \ {l}, NEW w, Holds(m, w) PROVE Holds(m, w)'
  <2>1. ASSUME NEW n \in Nodes PROVE /\ place[n] = m => ~Member(n, u)
                                     /\ place[n] = m <=> place'[n] = m
    <3>1. Member(n, u) => place[n] \in {"raw", "held"}
      BY DEF Member
    <3> QED
      BY <1>5, <3>1
  <2>2. head'[m] = head[m]
    BY <1>3, <1>10 DEF ListTypes
  <2>3. \A n \in Nodes : place[n] = m => next'[n] = next[n]
    BY <1>19, <2>1

  <2> QED
    BY <1>20, <2>1, <2>2, <2>3, OthersHold
<1>21. Changes(l, s, t)
  BY <1>18, <1>20 DEF Changes
<1>22. ASSUME NEW n \in Nodes, place'[n] \in {"raw", "held"} PROVE next'[n] = Null
  <2>1. place[n] = place'[n] /\ ~Member(n, u)
    BY <1>5, <1>22
  <2>2. next[n] = Null /\ place[n] # l
    BY <1>5, <1>22, <2>1 DEF ListInvariant
  <2> QED
    BY <1>19, <2>1, <2>2
<1> QED
  BY <1>11, <1>12, <1>21, <1>22-------------------------------------------------------------------------------
(* A finite set put in order.                                              *)
LEMMA InOrder ==
  ASSUME NEW S, IsFiniteSet(S), NEW u, u = SetToSeq(S)
  PROVE  /\ u \in SetToSeqs(S) /\ u \in Seq(S) /\ Len(u) = Cardinality(S) /\ Simple(u)
         /\ \A x : Member(x, u) <=> x \in S
<1> DEFINE c == Cardinality(S)
           K == 1 .. c
<1>1. c \in Nat /\ ExistsBijection(K, S)
  BY FS_CountingElements, FS_NatBijection, FS_CardinalityType
<1>2. \E f \in [K -> S] : IsInjective(f)
  BY <1>1 DEF ExistsBijection, Bijection, Injection
<1>3. u \in [K -> S] /\ IsInjective(u)
  <2>1. u = CHOOSE f \in [K -> S] : IsInjective(f)
    BY DEF SetToSeq
  <2> HIDE DEF K
  <2> QED
    BY <1>2, <2>1
<1>4. \A i, j \in K : u[i] = u[j] => i = j
  BY <1>3 DEF IsInjective
<1>5. u \in SetToSeqs(S)
  BY <1>3, <1>4 DEF SetToSeqs
<1>6. u \in Seq(S) /\ Len(u) = c
  <2>1. u \in Seq(S)
    BY <1>1, <1>3, SeqDef
  <2>2. Len(u) \in Nat /\ DOMAIN u = 1 .. Len(u) /\ DOMAIN u = 1 .. c
    BY <1>3, <2>1, LenProperties
  <2> QED
    BY <1>1, <2>1, <2>2
<1>7. u \in Surjection(K, S)
  <2>1. u \in Injection(K, S)
    BY <1>3 DEF Injection
  <2>2. Cardinality(K) = c
    BY <1>1, FS_Interval
  <2> HIDE DEF K
  <2> QED
    BY <2>1, <2>2, FS_Injection
<1>8. \A x : Member(x, u) <=> x \in S
  BY <1>3, <1>6, <1>7 DEF Surjection, Member
<1> HIDE DEF c, K
<1>9. Simple(u)
  BY <1>4, <1>6 DEF Simple, K
<1> QED
  BY <1>5, <1>6, <1>8, <1>9 DEF c

(* ba_init_blocknode_range chains the nodes of a range.                    *)
LEMMA ChainedFacts ==
  ASSUME ListTypes, NEW u \in Seq(Nodes), Simple(u)
  PROVE  /\ Chained(u) \in [Nodes -> Nodes \cup {Null}]
         /\ Follows(u, Chained(u), Null)
         /\ \A n \in Nodes : ~Member(n, u) => Chained(u)[n] = next[n]
<1>1. /\ Len(u) \in Nat /\ DOMAIN u = 1 .. Len(u)
      /\ \A i \in 1 .. Len(u) : u[i] \in Nodes
  BY SeqFacts
<1>2. \A n : n \in ToSet(u) <=> Member(n, u)
  BY <1>1 DEF ToSet, Member
<1>3. Last(u) = u[Len(u)]
  BY DEF Last
<1>4. ASSUME NEW i \in 1 .. Len(u)
      PROVE  Chained(u)[u[i]] = IF i < Len(u) THEN u[i + 1] ELSE Null
  <2>1. u[i] \in Nodes /\ Member(u[i], u)
    BY <1>1 DEF Member
  <2>2. (CHOOSE j \in DOMAIN u : u[j] = u[i]) = i
    BY <1>1 DEF Simple
  <2>3. Chained(u)[u[i]] = IF u[i] = u[Len(u)] THEN Null ELSE u[i + 1]
    <3>1. u[i] \in Nodes /\ u[i] \in ToSet(u)
      BY <1>2, <2>1
    <3>2. Chained(u)[u[i]] = IF u[i] = Last(u) THEN Null
                             ELSE u[(CHOOSE j \in DOMAIN u : u[j] = u[i]) + 1]
      BY <3>1, Zenon DEF Chained
    <3> QED
      BY <1>3, <2>2, <3>2, Zenon
  <2>4. u[i] = u[Len(u)] <=> ~(i < Len(u))
    <3>1. Len(u) \in 1 .. Len(u)
      BY <1>1
    <3>2. Len(u) \in Nat /\ i \in Nat /\ i <= Len(u)
      BY <1>1
    <3>3. i < Len(u) <=> i # Len(u)
      BY <3>2
    <3>4. u[i] = u[Len(u)] => i = Len(u)
      BY <3>1 DEF Simple
    <3> QED
      BY <3>3, <3>4
  <2> QED
    BY <2>3, <2>4
<1>5. ASSUME NEW n \in Nodes, ~Member(n, u) PROVE Chained(u)[n] = next[n]
  BY <1>2, <1>5 DEF Chained
<1>6. ASSUME NEW n \in Nodes PROVE Chained(u)[n] \in Nodes \cup {Null}
  <2>1. CASE Member(n, u)
    <3>1. PICK i \in 1 .. Len(u) : u[i] = n
      BY <2>1 DEF Member
    <3>2. i < Len(u) => i + 1 \in 1 .. Len(u)
      BY <1>1
    <3> QED
      BY <1>1, <1>4, <3>1, <3>2
  <2>2. CASE ~Member(n, u)
    BY <1>5, <2>2 DEF ListTypes
  <2> QED
    BY <2>1, <2>2
<1>7. Chained(u) = [n \in Nodes |-> Chained(u)[n]]
  BY DEF Chained
<1> QED
  BY <1>4, <1>5, <1>6, <1>7 DEF Follows-------------------------------------------------------------------------------
(* What each function does to the sequences.                               *)
LEMMA NodesInNoList ==
  ASSUME ListInvariant, NEW n \in Nodes, place[n] \in {"raw", "held"}
  PROVE  AsSequences!Loose(n)
<1>1. ASSUME NEW m \in Names PROVE n \notin ToSet([k \in Names |-> Contents(k)][m])
  <2>1. PICK s : Holds(m, s)
    BY DEF ListInvariant
  <2>2. Contents(m) = s
    BY <2>1, ContentsAre DEF ListInvariant
  <2>3. ~Member(n, s)
    BY <2>1, ListsAssumption DEF Holds
  <2>4. DOMAIN s = 1 .. Len(s)
    BY <2>1, SeqFacts DEF Holds
  <2> QED
    BY <2>2, <2>3, <2>4 DEF ToSet, Member
<1> QED
  BY <1>1 DEF AsSequences!Loose, AsSequences!ToSet, ToSet

LEMMA SetUpStep ==
  ASSUME ListInvariant, NEW l \in Names, NEW S \in kSubset(RangeLen, Raw),
         SetUpRange(l, SetToSeq(S))
  PROVE  ListInvariant' /\ AsSequences!Next
<1>1. S \in SUBSET Raw /\ Cardinality(S) = RangeLen
  BY DEF kSubset
<1>2. S \in SUBSET Nodes /\ \A n \in S : place[n] = "raw"
  BY <1>1 DEF Raw
<1>3. IsFiniteSet(S)
  BY <1>2, ListsAssumption, FS_Subset
<1>4. PICK u : u = SetToSeq(S)
  OBVIOUS
<1>5. /\ u \in SetToSeqs(S) /\ u \in Seq(S) /\ Len(u) = Cardinality(S) /\ Simple(u)
      /\ \A x : Member(x, u) <=> x \in S
  BY <1>3, <1>4, InOrder
<1>6. u \in Seq(Nodes) /\ u # << >>
  <2>1. u \in Seq(Nodes)
    BY <1>2, <1>5, SeqMonotonic
  <2>2. Len(u) # 0
    BY <1>1, <1>5, ListsAssumption
  <2> QED
    BY <2>1, <2>2, EmptySeq
<1>7. \A i \in 1 .. Len(u) : place[u[i]] \in {"raw", "held"}
  BY <1>2, <1>5 DEF Member
<1>8. ListTypes
  BY DEF ListInvariant
<1>9. /\ Chained(u) \in [Nodes -> Nodes \cup {Null}]
      /\ Follows(u, Chained(u), Null)
      /\ \A n \in Nodes : ~Member(n, u) => Chained(u)[n] = next[n]
  BY <1>5, <1>6, <1>8, ChainedFacts
<1>10. /\ Appended(l, u[1], Chained(u))
       /\ place' = [n \in Nodes |-> IF Member(n, u) THEN l ELSE place[n]]
       /\ ret' = Nothing
  <2>1. \A n : n \in ToSet(u) <=> Member(n, u)
    <3>1. DOMAIN u = 1 .. Len(u)
      BY <1>6, SeqFacts
    <3> QED
      BY <3>1 DEF ToSet, Member
  <2> QED
    BY <1>4, <2>1 DEF SetUpRange
<1>11. PICK s : Holds(l, s)
  BY DEF ListInvariant
<1>12. /\ ListTypes' /\ Changes(l, s, s \o u)
       /\ \A n \in Nodes : place'[n] \in {"raw", "held"} => next'[n] = Null
  BY <1>5, <1>6, <1>7, <1>9, <1>10, <1>11, AppendChanges
<1>13. /\ ListInvariant' /\ Contents(l) = s
       /\ [m \in Names |-> Contents(m)]' = [[m \in Names |-> Contents(m)] EXCEPT ![l] = s \o u]
  BY <1>12, ChangesKeep
<1>14. AsSequences!Join(l, u)
  <2>1. AsSequences!Nothing = Nothing
    BY DEF AsSequences!Nothing, Nothing
  <2> QED
    BY <1>10, <1>13, <2>1 DEF AsSequences!Join
<1>15. S \in SUBSET {n \in Nodes : AsSequences!Loose(n)}
  BY <1>2, NodesInNoList
<1>16. u \in AsSequences!SetToSeqs(S)
  <2>1. AsSequences!Cardinality(S) = Cardinality(S)
    BY DEF AsSequences!Cardinality, Cardinality
  <2> QED
    BY <1>5, <2>1 DEF AsSequences!SetToSeqs, SetToSeqs
<1>17. AsSequences!Next
  BY <1>14, <1>15, <1>16, Zenon DEF AsSequences!Next
<1> QED
  BY <1>13, <1>17

LEMMA AppendStep ==
  ASSUME ListInvariant, NEW l \in Names, NEW n \in Nodes, flist_append(l, n)
  PROVE  ListInvariant' /\ AsSequences!Next
<1>1. /\ place[n] = "held" /\ Appended(l, n, next)
      /\ place' = [place EXCEPT ![n] = l] /\ ret' = Nothing
  BY DEF flist_append, Held
<1>2. ListTypes /\ next[n] = Null
  BY <1>1 DEF ListInvariant
<1>3. PICK u : u = << n >>
  OBVIOUS
<1>4. /\ u \in Seq(Nodes) /\ Len(u) = 1 /\ u[1] = n /\ u # << >>
      /\ Simple(u) /\ \A x : Member(x, u) <=> x = n
  BY <1>3, OneFacts
<1>5. Follows(u, next, Null) /\ \A i \in 1 .. Len(u) : place[u[i]] \in {"raw", "held"}
  <2>1. \A i \in 1 .. Len(u) : i = 1 /\ ~(i < Len(u))
    BY <1>4
  <2> QED
    BY <1>1, <1>2, <1>4, <2>1 DEF Follows
<1>6. next \in [Nodes -> Nodes \cup {Null}]
  BY <1>2 DEF ListTypes
<1>7. place' = [x \in Nodes |-> IF Member(x, u) THEN l ELSE place[x]]
  BY <1>1, <1>2, <1>4 DEF ListTypes
<1>8. PICK s : Holds(l, s)
  BY DEF ListInvariant
<1>9. /\ ListTypes' /\ Changes(l, s, s \o u)
      /\ \A x \in Nodes : place'[x] \in {"raw", "held"} => next'[x] = Null
  <2>1. Appended(l, u[1], next)
    BY <1>1, <1>4
  <2> QED
    BY <1>4, <1>5, <1>6, <1>7, <1>8, <2>1, AppendChanges
<1>10. /\ ListInvariant' /\ Contents(l) = s
       /\ [m \in Names |-> Contents(m)]' = [[m \in Names |-> Contents(m)] EXCEPT ![l] = s \o u]
  BY <1>9, ChangesKeep
<1>11. AsSequences!Join(l, u)
  <2>1. AsSequences!Nothing = Nothing
    BY DEF AsSequences!Nothing, Nothing
  <2> QED
    BY <1>1, <1>10, <2>1 DEF AsSequences!Join
<1>12. {n} \in SUBSET {x \in Nodes : AsSequences!Loose(x)}
  BY <1>1, NodesInNoList
<1>13. u \in SetToSeqs({n})
  <2>1. Cardinality({n}) = 1
    BY FS_Singleton
  <2>2. u \in [1 .. 1 -> {n}]
    <3>1. u \in Seq({n})
      BY <1>3, OneFacts
    <3> QED
      BY <1>4, <3>1, LenProperties
  <2> QED
    BY <2>1, <2>2 DEF SetToSeqs
<1>14. u \in AsSequences!SetToSeqs({n})
  <2>1. AsSequences!Cardinality({n}) = Cardinality({n})
    BY DEF AsSequences!Cardinality, Cardinality
  <2> QED
    BY <1>13, <2>1 DEF AsSequences!SetToSeqs, SetToSeqs
<1>15. AsSequences!Next
  BY <1>11, <1>12, <1>14, Zenon DEF AsSequences!Next
<1> QED
  BY <1>10, <1>15
LEMMA PrependChanges ==
  ASSUME ListInvariant, NEW l \in Names, NEW n \in Nodes, flist_prepend(l, n), NEW s, Holds(l, s)
  PROVE  /\ ListTypes' /\ Changes(l, s, << n >> \o s)
         /\ \A x \in Nodes : place'[x] \in {"raw", "held"} => next'[x] = Null
<1>1. /\ place[n] = "held" /\ place' = [place EXCEPT ![n] = l]
      /\ next' = IF head[l] # Null THEN [next EXCEPT ![n] = head[l]] ELSE next
      /\ head' = [head EXCEPT ![l] = n]
  BY DEF flist_prepend, Held
<1>2. ListTypes /\ next[n] = Null
  BY <1>1 DEF ListInvariant
<1>3. PICK u : u = << n >>
  OBVIOUS
<1>4. /\ u \in Seq(Nodes) /\ Len(u) = 1 /\ u[1] = n /\ u # << >>
      /\ Simple(u) /\ \A x : Member(x, u) <=> x = n
  BY <1>3, OneFacts
<1>5. PICK t : t = u \o s
  OBVIOUS
<1>6. /\ s \in Seq(Nodes) /\ Simple(s) /\ \A x \in Nodes : Member(x, s) <=> place[x] = l
      /\ head[l] = First(s) /\ Follows(s, next, Null)
  BY DEF Holds
<1>7. /\ Len(s) \in Nat
      /\ \A i \in 1 .. Len(s) : s[i] \in Nodes /\ place[s[i]] = l
      /\ s # << >> => 1 \in 1 .. Len(s) /\ Len(s) \in 1 .. Len(s) /\ head[l] = s[1]
      /\ head[l] # Null <=> s # << >>
  BY HoldsEnds
<1>8. /\ t \in Seq(Nodes) /\ Len(t) = Len(u) + Len(s)
      /\ \A i \in 1 .. Len(u) : t[i] = u[i]
  BY <1>4, <1>5, <1>6, JoinFacts
<1>9. "held" \notin Names
  BY ListsAssumption
<1>10. \A i \in 1 .. Len(s) : s[i] # n
  BY <1>1, <1>7, <1>9
<1>11. next' = [next EXCEPT ![n] = head[l]]
  BY <1>1, <1>2 DEF ListTypes
<1>12. \A x \in Nodes \ {n} : next'[x] = next[x]
  BY <1>2, <1>11 DEF ListTypes
<1>13. next'[n] = head[l]
  BY <1>2, <1>11 DEF ListTypes
<1>14. ListTypes'
  <2>1. head' \in [Names -> Nodes \cup {Null}]
    BY <1>1, <1>2 DEF ListTypes
  <2>2. next' \in [Nodes -> Nodes \cup {Null}]
    BY <1>2, <1>11 DEF ListTypes
  <2>3. place' \in [Nodes -> {"raw", "held"} \cup Names]
    BY <1>1, <1>2 DEF ListTypes
  <2> QED
    BY <2>1, <2>2, <2>3 DEF ListTypes
<1>15. Simple(t)
  <2>1. \A i \in 1 .. Len(u), j \in 1 .. Len(s) : u[i] # s[j]
    BY <1>4, <1>10
  <2> QED
    BY <1>4, <1>5, <1>6, <2>1, SimpleJoin
<1>16. \A x \in Nodes : Member(x, t) <=> place'[x] = l
  <2>1. \A x : Member(x, t) <=> Member(x, u) \/ Member(x, s)
    BY <1>4, <1>5, <1>6, MemberOfJoin
  <2> QED
    BY <1>1, <1>2, <1>4, <1>6, <2>1 DEF ListTypes
<1>17. head'[l] = First(t)
  <2>1. head'[l] = n
    BY <1>1, <1>2 DEF ListTypes
  <2>2. t # << >>
    <3>1. Len(t) # 0
      BY <1>4, <1>7, <1>8
    <3> QED
      BY <3>1, EmptySeq
  <2>3. t[1] = n
    BY <1>4, <1>8
  <2> QED
    BY <2>1, <2>2, <2>3 DEF First
<1>18. Follows(t, next', Null)
  <2>1. Follows(s, next', Null)
    <3>1. \A i \in 1 .. Len(s) : next'[s[i]] = next[s[i]]
      BY <1>7, <1>10, <1>12
    <3> QED
      BY <1>6, <3>1 DEF Follows
  <2>2. \A i \in 1 .. Len(u) : i = 1 /\ ~(i < Len(u))
    BY <1>4
  <2>3. CASE s = << >>
    <3>1. t = u
      <4>1. u \o << >> = u
        BY <1>4, ConcatEmptySeq
      <4> QED
        BY <1>5, <2>3, <4>1
    <3>2. next'[n] = Null
      BY <1>7, <1>13, <2>3
    <3> QED
      BY <1>4, <2>2, <3>1, <3>2 DEF Follows
  <2>4. CASE s # << >>
    <3>1. next'[n] = s[1]
      BY <1>7, <1>13, <2>4
    <3>2. Follows(u, next', s[1])
      BY <1>4, <2>2, <3>1 DEF Follows
    <3> QED
      BY <1>4, <1>5, <1>6, <2>1, <2>4, <3>2, FollowsJoin, Zenon
  <2> QED
    BY <2>3, <2>4
<1>19. Holds(l, t)'
  BY <1>8, <1>15, <1>16, <1>17, <1>18 DEF Holds
<1>20. ASSUME NEW m \in Names \ {l}, NEW w, Holds(m, w) PROVE Holds(m, w)'
  <2>1. \A x \in Nodes : place[x] = m <=> place'[x] = m
    BY <1>1, <1>2, <1>9 DEF ListTypes
  <2>2. head'[m] = head[m]
    BY <1>1, <1>2 DEF ListTypes
  <2>3. \A x \in Nodes : place[x] = m => next'[x] = next[x]
    BY <1>1, <1>9, <1>12
  <2> QED
    BY <1>20, <2>1, <2>2, <2>3, OthersHold
<1>21. Changes(l, s, t)
  BY <1>19, <1>20 DEF Changes
<1>22. ASSUME NEW x \in Nodes, place'[x] \in {"raw", "held"} PROVE next'[x] = Null
  <2>1. Names \cap {"raw", "held"} = {}
    BY ListsAssumption
  <2>2. x # n /\ place[x] = place'[x]
    BY <1>1, <1>2, <1>22, <2>1 DEF ListTypes
  <2> QED
    BY <1>12, <1>22, <2>2 DEF ListInvariant
<1> QED
  BY <1>3, <1>5, <1>14, <1>21, <1>22

LEMMA PrependStep ==
  ASSUME ListInvariant, NEW l \in Names, NEW n \in Nodes, flist_prepend(l, n)
  PROVE  ListInvariant' /\ AsSequences!Next
<1>1. PICK s : Holds(l, s)
  BY DEF ListInvariant
<1>2. /\ ListTypes' /\ Changes(l, s, << n >> \o s)
      /\ \A x \in Nodes : place'[x] \in {"raw", "held"} => next'[x] = Null
  BY <1>1, PrependChanges
<1>3. /\ ListInvariant' /\ Contents(l) = s
      /\ [m \in Names |-> Contents(m)]' = [[m \in Names |-> Contents(m)] EXCEPT ![l] = << n >> \o s]
  BY <1>2, ChangesKeep
<1>4. place[n] = "held" /\ ret' = Nothing
  BY DEF flist_prepend, Held
<1>5. AsSequences!Loose(n)
  BY <1>4, NodesInNoList
<1>6. AsSequences!Prepend(l, n)
  BY <1>3, <1>4 DEF AsSequences!Prepend, AsSequences!Cons, AsSequences!Nothing, Nothing
<1> QED
  BY <1>3, <1>5, <1>6 DEF AsSequences!Next
(* A node is taken out of list l.                                          *)
LEMMA TakeChanges ==
  ASSUME ListInvariant, NEW l \in Names, NEW s, Holds(l, s), NEW i \in 1 .. Len(s),
         head' \in [Names -> Nodes \cup {Null}], next' \in [Nodes -> Nodes \cup {Null}],
         place' = [place EXCEPT ![s[i]] = "held"],
         \A m \in Names \ {l} : head'[m] = head[m],
         head'[l] = IF i = 1 THEN next[s[i]] ELSE head[l],
         Bypassed(s, i, next, next'),
         next'[s[i]] = Null,
         \A n \in Nodes : ~Member(n, s) => next'[n] = next[n]
  PROVE  /\ ListTypes' /\ Changes(l, s, RemoveAt(s, i))
         /\ \A n \in Nodes : place'[n] \in {"raw", "held"} => next'[n] = Null
<1>1. /\ s \in Seq(Nodes) /\ Simple(s) /\ \A n \in Nodes : Member(n, s) <=> place[n] = l
      /\ Follows(s, next, Null)
  BY DEF Holds
<1>2. /\ Len(s) \in Nat
      /\ \A j \in 1 .. Len(s) : s[j] \in Nodes /\ place[s[j]] = l
      /\ s # << >> => 1 \in 1 .. Len(s) /\ Len(s) \in 1 .. Len(s) /\ head[l] = s[1]
  BY HoldsEnds
<1>3. ListTypes /\ Names \cap {"raw", "held"} = {}
  BY ListsAssumption DEF ListInvariant
<1>4. PICK t : t = RemoveAt(s, i)
  OBVIOUS
<1>5. /\ t \in Seq(Nodes) /\ Len(t) = Len(s) - 1
      /\ \A j \in 1 .. Len(t) : t[j] = IF j < i THEN s[j] ELSE s[j + 1]
  BY <1>1, <1>4, RemoveFacts
<1>6. /\ Simple(t)
      /\ \A n : Member(n, t) <=> Member(n, s) /\ n # s[i]
  BY <1>1, <1>4, SimpleRemove
<1>7. \A n \in Nodes : place'[n] = IF n = s[i] THEN "held" ELSE place[n]
  BY <1>3 DEF ListTypes
<1>8. ListTypes'
  <2>1. place' \in [Nodes -> {"raw", "held"} \cup Names]
    BY <1>3 DEF ListTypes
  <2> QED
    BY <2>1 DEF ListTypes
<1>9. \A n \in Nodes : Member(n, t) <=> place'[n] = l
  BY <1>1, <1>3, <1>6, <1>7
<1>10. Follows(t, next', Null)
  BY <1>1, <1>4, FollowsRemove, Zenon
<1>11. head'[l] = First(t)
  <2>1. s # << >> /\ 1 \in 1 .. Len(s)
    <3>1. Len(s) # 0 /\ 1 \in 1 .. Len(s)
      BY <1>2
    <3> QED
      BY <3>1, EmptySeq
  <2>2. t # << >> <=> Len(t) >= 1
    BY <1>5, SeqFacts
  <2>3. CASE i = 1
    <3>1. next[s[1]] = IF 1 < Len(s) THEN s[1 + 1] ELSE Null
      BY <1>1, <2>1 DEF Follows
    <3>2. CASE 1 < Len(s)
      <4>1. 1 \in 1 .. Len(t) /\ ~(1 < i)
        BY <1>2, <1>5, <2>3, <3>2
      <4>2. t[1] = s[1 + 1] /\ t # << >>
        BY <1>5, <2>2, <4>1
      <4> QED
        BY <2>3, <3>1, <3>2, <4>2 DEF First
    <3>3. CASE ~(1 < Len(s))
      <4>1. ~(Len(t) >= 1)
        BY <1>2, <1>5, <3>3
      <4> QED
        BY <2>2, <2>3, <3>1, <3>3, <4>1 DEF First
    <3> QED
      BY <3>2, <3>3
  <2>4. CASE i # 1
    <3>1. 1 \in 1 .. Len(t) /\ 1 < i
      BY <1>2, <1>5, <2>4
    <3>2. t[1] = s[1] /\ t # << >>
      BY <1>5, <2>2, <3>1
    <3> QED
      BY <1>2, <2>1, <2>4, <3>2 DEF First
  <2> QED
    BY <2>3, <2>4
<1>12. Holds(l, t)'
  BY <1>5, <1>6, <1>9, <1>10, <1>11 DEF Holds
<1>13. ASSUME NEW m \in Names \ {l}, NEW w, Holds(m, w) PROVE Holds(m, w)'
  <2>1. \A n \in Nodes : place[n] = m <=> place'[n] = m
    BY <1>2, <1>3, <1>7
  <2>2. \A n \in Nodes : place[n] = m => next'[n] = next[n]
    BY <1>1
  <2>3. head'[m] = head[m]
    OBVIOUS
  <2> QED
    BY <1>13, <2>1, <2>2, <2>3, OthersHold
<1>14. Changes(l, s, t)
  BY <1>12, <1>13 DEF Changes
<1>15. ASSUME NEW n \in Nodes, place'[n] \in {"raw", "held"} PROVE next'[n] = Null
  <2>1. CASE n = s[i]
    BY <2>1
  <2>2. CASE n # s[i]
    <3>1. place[n] \in {"raw", "held"}
      BY <1>7, <1>15, <2>2
    <3>2. ~Member(n, s) /\ next[n] = Null
      BY <1>1, <1>3, <3>1 DEF ListInvariant
    <3> QED
      BY <3>2
  <2> QED
    BY <2>1, <2>2
<1> QED
  BY <1>4, <1>8, <1>14, <1>15

(* Which, as a step of the sequences, is a removal.                        *)
LEMMA TakeSequence ==
  ASSUME ListInvariant, NEW l \in Names, NEW s, NEW i \in 1 .. Len(s),
         ListTypes', Changes(l, s, RemoveAt(s, i)),
         \A n \in Nodes : place'[n] \in {"raw", "held"} => next'[n] = Null
  PROVE  /\ ListInvariant' /\ AsSequences!Take(l, s[i]) /\ Contents(l) = s
<1>1. PICK t : t = RemoveAt(s, i)
  OBVIOUS
<1>2. /\ ListInvariant' /\ Contents(l) = s
      /\ [m \in Names |-> Contents(m)]' = [[m \in Names |-> Contents(m)] EXCEPT ![l] = t]
  BY <1>1, ChangesKeep
<1>3. i \in DOMAIN s
  <2>1. s \in Seq(Nodes)
    BY DEF Changes, Holds
  <2> QED
    BY <2>1, SeqFacts
<1>4. [m \in Names |-> Contents(m)][l] = s
  BY <1>2
<1>5. AsSequences!RemoveAt(s, i) = RemoveAt(s, i)
  BY DEF AsSequences!RemoveAt, RemoveAt
<1>6. AsSequences!Take(l, s[i])
  BY <1>1, <1>2, <1>3, <1>4, <1>5 DEF AsSequences!Take
<1> QED
  BY <1>2, <1>6
LEMMA FirstIsTaken ==
  ASSUME ListInvariant, NEW l \in Names, NEW s, Holds(l, s), s # << >>,
         head' = [head EXCEPT ![l] = next[s[1]]], next' = [next EXCEPT ![s[1]] = Null],
         place' = [place EXCEPT ![s[1]] = "held"]
  PROVE  /\ ListInvariant' /\ AsSequences!Take(l, s[1]) /\ Contents(l) = s
<1>1. /\ Simple(s) /\ \A n \in Nodes : Member(n, s) <=> place[n] = l
  BY DEF Holds
<1>2. /\ Len(s) \in Nat /\ 1 \in 1 .. Len(s)
      /\ \A j \in 1 .. Len(s) : s[j] \in Nodes
  BY HoldsEnds
<1>3. ListTypes
  BY DEF ListInvariant
<1>4. \A n \in Nodes : next'[n] = IF n = s[1] THEN Null ELSE next[n]
  BY <1>3 DEF ListTypes
<1>5. Bypassed(s, 1, next, next')
  <2>1. ASSUME NEW j \in 1 .. Len(s), j # 1 PROVE next'[s[j]] = next[s[j]]
    <3>1. s[j] # s[1] /\ s[j] \in Nodes
      BY <1>1, <1>2, <2>1 DEF Simple
    <3> QED
      BY <1>4, <3>1
  <2>2. ~(1 > 1)
    OBVIOUS
  <2> QED
    BY <2>1, <2>2 DEF Bypassed
<1>6. head' \in [Names -> Nodes \cup {Null}] /\ next' \in [Nodes -> Nodes \cup {Null}]
  <2>1. s[1] \in Nodes /\ next[s[1]] \in Nodes \cup {Null}
    BY <1>2, <1>3 DEF ListTypes
  <2> QED
    BY <1>3, <2>1 DEF ListTypes
<1>7. (\A m \in Names \ {l} : head'[m] = head[m]) /\ head'[l] = next[s[1]]
  BY <1>3 DEF ListTypes
<1>8. next'[s[1]] = Null
  BY <1>2, <1>4
<1>9. ASSUME NEW n \in Nodes, ~Member(n, s) PROVE next'[n] = next[n]
  <2>1. n # s[1]
    BY <1>2, <1>9 DEF Member
  <2> QED
    BY <1>4, <2>1
<1>10. PICK i : i = 1
  OBVIOUS
<1>11. /\ i \in 1 .. Len(s) /\ head'[l] = (IF i = 1 THEN next[s[i]] ELSE head[l])
       /\ place' = [place EXCEPT ![s[i]] = "held"]
       /\ Bypassed(s, i, next, next') /\ next'[s[i]] = Null
  BY <1>2, <1>5, <1>7, <1>8, <1>10
<1>12. /\ ListTypes' /\ Changes(l, s, RemoveAt(s, i))
       /\ \A n \in Nodes : place'[n] \in {"raw", "held"} => next'[n] = Null
  BY <1>6, <1>7, <1>9, <1>11, TakeChanges
<1>13. /\ ListInvariant' /\ AsSequences!Take(l, s[i]) /\ Contents(l) = s
  BY <1>11, <1>12, TakeSequence
<1> QED
  BY <1>10, <1>13

LEMMA RemoveStep ==
  ASSUME ListInvariant, NEW l \in Names, NEW n \in Nodes, flist_remove(l, n)
  PROVE  ListInvariant' /\ AsSequences!Next
<1>1. PICK s : Holds(l, s)
  BY DEF ListInvariant
<1>2. /\ s \in Seq(Nodes) /\ Simple(s) /\ \A x \in Nodes : Member(x, s) <=> place[x] = l
      /\ Follows(s, next, Null)
  BY <1>1 DEF Holds
<1>3. /\ Len(s) \in Nat
      /\ \A j \in 1 .. Len(s) : s[j] \in Nodes
      /\ s # << >> => 1 \in 1 .. Len(s) /\ head[l] = s[1]
      /\ head[l] # Null <=> s # << >>
  BY <1>1, HoldsEnds
<1>4. ListTypes /\ Contents(l) = s /\ Null \notin Nodes
  BY <1>1, ContentsAre, ListsAssumption DEF ListInvariant
<1>5. place[n] = l /\ place' = [place EXCEPT ![n] = "held"] /\ ret' = Nothing
  BY DEF flist_remove
<1>6. PICK i \in 1 .. Len(s) : s[i] = n
  BY <1>2, <1>5 DEF Member
<1>7. s # << >>
  <2>1. Len(s) # 0
    BY <1>3
  <2> QED
    BY <2>1, EmptySeq
<1>8. ListInvariant' /\ AsSequences!Take(l, n)
  <2>1. CASE n = head[l]
    <3>1. n = s[1] /\ head' = [head EXCEPT ![l] = next[n]] /\ next' = [next EXCEPT ![n] = Null]
      BY <1>3, <1>7, <2>1 DEF flist_remove
    <3>2. /\ ListInvariant' /\ AsSequences!Take(l, s[1])
      BY <1>1, <1>5, <1>7, <3>1, FirstIsTaken
    <3> QED
      BY <3>1, <3>2
  <2>2. CASE n # head[l]
    <3>1. PICK pre \in ToSet(s) : /\ next[pre] = n
                                  /\ next' = [next EXCEPT ![pre] = next[n], ![n] = Null]
                                  /\ head' = head
      BY <1>4, <2>2 DEF flist_remove
    <3>2. PICK k \in 1 .. Len(s) : s[k] = pre
      <4>1. DOMAIN s = 1 .. Len(s)
        BY <1>2, SeqFacts
      <4> QED
        BY <3>1, <4>1 DEF ToSet
    <3>3. k < Len(s) /\ s[k + 1] = n /\ k + 1 = i
      <4>1. next[s[k]] = IF k < Len(s) THEN s[k + 1] ELSE Null
        BY <1>2 DEF Follows
      <4>2. k < Len(s) /\ s[k + 1] = n
        BY <1>4, <3>1, <3>2, <4>1
      <4>3. k + 1 \in 1 .. Len(s)
        BY <1>3, <4>2
      <4> QED
        BY <1>2, <1>6, <4>2, <4>3 DEF Simple
    <3>4. i - 1 = k /\ i > 1 /\ pre \in Nodes /\ pre # n
      <4>1. k # i
        BY <3>3
      <4>2. s[k] # s[i]
        BY <1>2, <4>1 DEF Simple
      <4> QED
        BY <1>3, <1>6, <3>2, <3>3, <4>2
    <3>5. \A x \in Nodes : next'[x] = IF x = n THEN Null ELSE IF x = pre THEN next[n] ELSE next[x]
      BY <1>4, <3>1 DEF ListTypes
    <3>6. Bypassed(s, i, next, next')
      <4>1. ASSUME NEW j \in 1 .. Len(s), j # i, j + 1 # i PROVE next'[s[j]] = next[s[j]]
        <5>1. j # k
          BY <3>3, <4>1
        <5>2. s[j] # n /\ s[j] # pre
          BY <1>2, <1>6, <3>2, <4>1, <5>1 DEF Simple
        <5> QED
          BY <1>3, <3>5, <5>2
      <4>2. next'[s[i - 1]] = next[s[i]]
        BY <1>6, <3>2, <3>4, <3>5
      <4> QED
        BY <4>1, <4>2 DEF Bypassed
    <3>7. /\ head' \in [Names -> Nodes \cup {Null}] /\ next' \in [Nodes -> Nodes \cup {Null}]
          /\ \A m \in Names \ {l} : head'[m] = head[m]
      <4>1. next[n] \in Nodes \cup {Null}
        BY <1>4 DEF ListTypes
      <4> QED
        BY <1>4, <3>1, <4>1 DEF ListTypes
    <3>8. /\ head'[l] = (IF i = 1 THEN next[s[i]] ELSE head[l]) /\ next'[s[i]] = Null
          /\ place' = [place EXCEPT ![s[i]] = "held"]
      <4>1. head'[l] = (IF i = 1 THEN next[s[i]] ELSE head[l])
        BY <3>1, <3>4
      <4>2. next'[n] = Null
        BY <3>5
      <4> QED
        BY <1>5, <1>6, <4>1, <4>2
    <3>9. ASSUME NEW x \in Nodes, ~Member(x, s) PROVE next'[x] = next[x]
      <4>1. x # n /\ x # pre
        BY <1>6, <3>2, <3>9 DEF Member
      <4> QED
        BY <3>5, <4>1
    <3>10. /\ ListTypes' /\ Changes(l, s, RemoveAt(s, i))
           /\ \A x \in Nodes : place'[x] \in {"raw", "held"} => next'[x] = Null
      BY <1>1, <3>6, <3>7, <3>8, <3>9, TakeChanges
    <3>11. ListInvariant' /\ AsSequences!Take(l, s[i])
      BY <3>10, TakeSequence
    <3> QED
      BY <1>6, <3>11
  <2> QED
    BY <2>1, <2>2
<1>9. ret' = AsSequences!Nothing
  BY <1>5 DEF AsSequences!Nothing, Nothing
<1>10. AsSequences!Next
  BY <1>8, <1>9 DEF AsSequences!Next
<1> QED
  BY <1>8, <1>10

LEMMA PopStep ==
  ASSUME ListInvariant, NEW l \in Names, flist_pop(l)
  PROVE  ListInvariant' /\ AsSequences!Next
<1>1. PICK s : Holds(l, s)
  BY DEF ListInvariant
<1>2. head[l] # Null
  BY DEF flist_pop
<1>3. s \in Seq(Nodes) /\ s # << >> /\ head[l] = s[1]
  <2>1. /\ s # << >> => head[l] = s[1]
        /\ head[l] # Null <=> s # << >>
    BY <1>1, HoldsEnds
  <2> QED
    BY <1>1, <1>2, <2>1 DEF Holds
<1>4. ListInvariant' /\ AsSequences!Take(l, s[1]) /\ Contents(l) = s
  <2>1. /\ head' = [head EXCEPT ![l] = next[s[1]]] /\ next' = [next EXCEPT ![s[1]] = Null]
        /\ place' = [place EXCEPT ![s[1]] = "held"]
    BY <1>3 DEF flist_pop
  <2> QED
    BY <1>1, <1>3, <2>1, FirstIsTaken
<1>5. ret' = [from |-> "front", node |-> s[1]]
  BY <1>3 DEF flist_pop
<1>6. Head(s) = s[1]
  BY <1>3, HeadTailProperties
<1>7. AsSequences!Pop(l, "front", Head([m \in Names |-> Contents(m)][l]))
  <2>1. [m \in Names |-> Contents(m)][l] = s
    BY <1>4
  <2>2. AsSequences!Pop(l, "front", s[1])
    BY <1>4, <1>5 DEF AsSequences!Pop
  <2> QED
    BY <1>6, <2>1, <2>2
<1>8. [m \in Names |-> Contents(m)][l] # << >>
  BY <1>3, <1>4
<1>9. AsSequences!Next
  BY <1>7, <1>8, Zenon DEF AsSequences!Next
<1> QED
  BY <1>4, <1>9

LEMMA ListInit ==
  ASSUME Init
  PROVE  ListInvariant /\ AsSequences!Init
<1>1. ListTypes
  BY DEF Init, ListTypes
<1>2. PICK s : s = << >>
  OBVIOUS
<1>3. s \in Seq(Nodes) /\ Len(s) = 0 /\ \A i \in 1 .. Len(s) : FALSE
  BY <1>2, EmptySeq
<1>4. ASSUME NEW l \in Names PROVE Holds(l, s)
  <2>1. head[l] = First(s)
    BY <1>2 DEF Init, First
  <2>2. \A n \in Nodes : place[n] # l
    BY ListsAssumption DEF Init
  <2> QED
    BY <1>3, <2>1, <2>2 DEF Holds, Simple, Member, Follows
<1>5. ListInvariant
  BY <1>1, <1>4 DEF ListInvariant, Init
<1>6. \A l \in Names : Contents(l) = << >>
  BY <1>1, <1>2, <1>4, ContentsAre
<1>7. [l \in Names |-> Contents(l)] = [l \in Names |-> << >>]
  BY <1>6
<1> QED
  BY <1>5, <1>7 DEF AsSequences!Init, AsSequences!Nothing, Nothing, Init

LEMMA ListStep ==
  ASSUME ListInvariant, [Next]_vars
  PROVE  ListInvariant' /\ [AsSequences!Next]_(AsSequences!vars)
<1>1. CASE Next
  BY <1>1, SetUpStep, AppendStep, PrependStep, RemoveStep, PopStep DEF Next
<1>2. CASE UNCHANGED vars
  <2>1. head' = head /\ next' = next /\ place' = place /\ ret' = ret
    BY <1>2 DEF vars
  <2>2. ListInvariant'
    BY <2>1 DEF ListInvariant, ListTypes, Holds
  <2>3. UNCHANGED AsSequences!vars
    <3>1. \A l : Contents(l)' = Contents(l)
      BY <2>1 DEF Contents
    <3> QED
      BY <2>1, <3>1 DEF AsSequences!vars
  <2> QED
    BY <2>2, <2>3
<1> QED
  BY <1>1, <1>2

LEMMA ListInvariance == Spec => []ListInvariant
<1>1. Init => ListInvariant
  BY ListInit
<1>2. ListInvariant /\ [Next]_vars => ListInvariant'
  BY ListStep
<1> QED
  BY <1>1, <1>2, PTL DEF Spec

(* A node that is in no list has no link, whatever flist_append,           *)
(* flist_prepend, flist_remove and flist_pop have done to it before.       *)
THEOREM HeldNodesHaveNoLink == Spec => []HeldNodesAreLoose
<1>1. ListInvariant => HeldNodesAreLoose
  BY DEF ListInvariant, HeldNodesAreLoose, Held
<1> QED
  BY <1>1, ListInvariance, PTL

(* The lists, as sequences of the nodes that the links lead to, change as  *)
(* the names of the functions say: every step of the links is one of       *)
(* NodeLists.                                                              *)
THEOREM ForwardListsAreSequences == Spec => KeepsLists
<1>1. Init => AsSequences!Init
  BY ListInit
<1>2. ListInvariant /\ [Next]_vars => [AsSequences!Next]_(AsSequences!vars)
  BY ListStep
<1> QED
  BY <1>1, <1>2, ListInvariance, PTL DEF Spec, KeepsLists, AsSequences!Spec-------------------------------------------------------------------------------
(* DoubleList.  Sequences backwards, and the ends of what is left when     *)
(* something is taken out.                                                 *)
LEMMA ReverseFacts ==
  ASSUME NEW S, NEW s \in Seq(S), NEW r, r = Reverse(s)
  PROVE  /\ r \in Seq(S) /\ Len(r) = Len(s)
         /\ \A i \in 1 .. Len(s) : r[i] = s[(Len(s) - i) + 1]
         /\ Reverse(r) = s
<1>1. Len(s) \in Nat /\ \A i \in 1 .. Len(s) : s[i] \in S
  BY SeqFacts
<1>2. \A i \in 1 .. Len(s) : (Len(s) - i) + 1 \in 1 .. Len(s) /\ (Len(s) - ((Len(s) - i) + 1)) + 1 = i
  BY <1>1
<1>3. r = [i \in 1 .. Len(s) |-> s[(Len(s) - i) + 1]]
  BY DEF Reverse
<1>4. r \in [1 .. Len(s) -> S]
  BY <1>1, <1>2, <1>3
<1>5. r \in Seq(S)
  BY <1>1, <1>4, SeqDef
<1>6. Len(r) = Len(s)
  <2>1. Len(r) \in Nat /\ DOMAIN r = 1 .. Len(r) /\ DOMAIN r = 1 .. Len(s)
    BY <1>4, <1>5, LenProperties
  <2> QED
    BY <1>1, <2>1
<1>7. \A i \in 1 .. Len(s) : r[i] = s[(Len(s) - i) + 1]
  BY <1>3
<1>8. Reverse(r) = s
  <2>1. Reverse(r) = [i \in 1 .. Len(s) |-> r[(Len(s) - i) + 1]]
    BY <1>6 DEF Reverse
  <2>2. \A i \in 1 .. Len(s) : r[(Len(s) - i) + 1] = s[i]
    BY <1>2, <1>7
  <2>3. s = [i \in 1 .. Len(s) |-> s[i]]
    BY LenProperties
  <2> QED
    BY <2>1, <2>2, <2>3
<1> QED
  BY <1>5, <1>6, <1>7, <1>8

LEMMA BackTrailIs ==
  ASSUME NEW link, IsFiniteSet(DOMAIN link), NEW null, null \notin DOMAIN link,
         NEW s \in Seq(DOMAIN link), Simple(s), LeadsBack(s, link, null),
         NEW last, last = IF s = << >> THEN null ELSE s[Len(s)]
  PROVE  Reverse(Trail(last, link)) = s
<1>1. PICK r : r = Reverse(s)
  OBVIOUS
<1>2. /\ r \in Seq(DOMAIN link) /\ Len(r) = Len(s)
      /\ \A i \in 1 .. Len(s) : r[i] = s[(Len(s) - i) + 1]
      /\ Reverse(r) = s
  BY <1>1, ReverseFacts
<1>3. Len(s) \in Nat /\ (s # << >> <=> Len(s) >= 1)
  BY SeqFacts
<1>4. \A i \in 1 .. Len(s) : (Len(s) - i) + 1 \in 1 .. Len(s)
  BY <1>3
<1>5. Simple(r)
  <2>1. ASSUME NEW i \in 1 .. Len(s), NEW j \in 1 .. Len(s), r[i] = r[j] PROVE i = j
    <3>1. PICK a \in 1 .. Len(s), b \in 1 .. Len(s) : a = (Len(s) - i) + 1 /\ b = (Len(s) - j) + 1
      BY <1>4
    <3>2. s[a] = s[b]
      BY <1>2, <2>1, <3>1
    <3>3. a = b
      BY <3>2 DEF Simple
    <3> QED
      BY <1>3, <3>1, <3>3
  <2> QED
    BY <1>2, <2>1 DEF Simple
<1>6. Follows(r, link, null)
  <2>1. ASSUME NEW i \in 1 .. Len(s) PROVE link[r[i]] = IF i < Len(s) THEN r[i + 1] ELSE null
    <3>1. PICK k \in 1 .. Len(s) : k = (Len(s) - i) + 1
      BY <1>4
    <3>2. link[s[k]] = IF k > 1 THEN s[k - 1] ELSE null
      BY DEF LeadsBack
    <3>3. k > 1 <=> i < Len(s)
      BY <1>3, <3>1
    <3>4. i < Len(s) => i + 1 \in 1 .. Len(s) /\ (Len(s) - (i + 1)) + 1 = k - 1
      BY <1>3, <3>1
    <3>5. i < Len(s) => r[i + 1] = s[k - 1]
      BY <1>2, <3>4
    <3> QED
      BY <1>2, <3>1, <3>2, <3>3, <3>5
  <2> QED
    BY <1>2, <2>1 DEF Follows
<1>7. last = IF r = << >> THEN null ELSE r[1]
  <2>1. r # << >> <=> Len(r) >= 1
    BY <1>2, SeqFacts
  <2>2. Len(s) >= 1 => 1 \in 1 .. Len(s) /\ (Len(s) - 1) + 1 = Len(s)
    BY <1>3
  <2>3. Len(s) >= 1 => r[1] = s[Len(s)]
    BY <1>2, <2>2
  <2> QED
    BY <1>2, <1>3, <2>1, <2>3
<1>8. Trail(last, link) = r
  BY <1>2, <1>5, <1>6, <1>7, TrailIs, Zenon
<1> QED
  BY <1>2, <1>8

LEMMA EndsAfterRemove ==
  ASSUME NEW S, NEW s \in Seq(S), NEW i \in 1 .. Len(s), NEW t, t = RemoveAt(s, i)
  PROVE  /\ t = << >> => i = 1 /\ i = Len(s) /\ ~(i < Len(s)) /\ ~(i > 1)
         /\ t # << >> => t[1] = IF i # 1 THEN s[1] ELSE s[i + 1]
         /\ t # << >> => t[Len(t)] = IF i # Len(s) THEN s[Len(s)] ELSE s[i - 1]
         /\ t # << >> => (i = 1 => i < Len(s)) /\ (i = Len(s) => i > 1)
<1>1. /\ t \in Seq(S) /\ Len(t) = Len(s) - 1
      /\ \A j \in 1 .. Len(t) : t[j] = IF j < i THEN s[j] ELSE s[j + 1]
  BY RemoveFacts
<1>2. Len(s) \in Nat /\ (t # << >> <=> Len(t) >= 1)
  BY <1>1, SeqFacts
<1>3. t = << >> => Len(s) = 1 /\ i = 1 /\ i = Len(s) /\ ~(i < Len(s)) /\ ~(i > 1)
  BY <1>1, <1>2
<1>4. ASSUME t # << >>
      PROVE  /\ t[1] = IF i # 1 THEN s[1] ELSE s[i + 1]
             /\ t[Len(t)] = IF i # Len(s) THEN s[Len(s)] ELSE s[i - 1]
             /\ (i = 1 => i < Len(s)) /\ (i = Len(s) => i > 1)
  <2>1. /\ 1 \in 1 .. Len(t) /\ Len(t) \in 1 .. Len(t) /\ Len(t) + 1 = Len(s)
        /\ 1 < i <=> i # 1
        /\ Len(t) < i <=> i = Len(s)
        /\ i = Len(s) => i > 1 /\ i - 1 = Len(t)
        /\ i = 1 => i < Len(s)
    <3>1. Len(t) = Len(s) - 1 /\ Len(s) \in Nat /\ Len(t) >= 1
      BY <1>1, <1>2, <1>4
    <3> QED
      BY <3>1
  <2>2. t[1] = IF 1 < i THEN s[1] ELSE s[1 + 1]
    BY <1>1, <2>1
  <2>3. t[Len(t)] = IF Len(t) < i THEN s[Len(t)] ELSE s[Len(t) + 1]
    BY <1>1, <2>1
  <2> QED
    BY <2>1, <2>2, <2>3
<1> QED
  BY <1>3, <1>4
-------------------------------------------------------------------------------
(* The links between the nodes of s are right, in both directions; those   *)
(* beyond the ends are null if nothing has been popped at the other end.   *)
DHolds(s) ==
  /\ s \in Seq(DNodes) /\ Simple(s)
  /\ \A n \in DNodes : Member(n, s) <=> n \in dmembers
  /\ dhead = IF s = << >> THEN Null ELSE s[1]
  /\ dtail = IF s = << >> THEN Null ELSE s[Len(s)]
  /\ \E x : Follows(s, dnext, x)
  /\ \E x : LeadsBack(s, dprev, x)
  /\ "pop_end" \notin used => Follows(s, dnext, Null)
  /\ "pop_front" \notin used => LeadsBack(s, dprev, Null)

DTypes ==
  /\ dhead \in DNodes \cup {Null} /\ dtail \in DNodes \cup {Null}
  /\ dnext \in [DNodes -> DNodes \cup {Null}]
  /\ dprev \in [DNodes -> DNodes \cup {Null}]
  /\ dmembers \subseteq DNodes
  /\ astray \in BOOLEAN

DoubleInvariant ==
  /\ DTypes
  /\ ~astray => \E s : DHolds(s)
  /\ astray => D!Mixed

(* Links that follow a sequence, or lead back along it, do so up to its    *)
(* end, wherever the last of them leads.                                   *)
LEMMA UpToEnd ==
  ASSUME NEW link \in [DNodes -> DNodes \cup {Null}], NEW s \in Seq(DNodes), Simple(s),
         NEW first, first = IF s = << >> THEN Null ELSE s[1],
         NEW last, last = IF s = << >> THEN Null ELSE s[Len(s)], NEW x
  PROVE  /\ Follows(s, link, x) => Follows(s, D!UpTo(last, link), Null)
         /\ LeadsBack(s, link, x) => LeadsBack(s, D!UpTo(first, link), Null)
<1>1. Len(s) \in Nat /\ \A i \in 1 .. Len(s) : s[i] \in DNodes
  BY SeqFacts
<1>2. ASSUME NEW i \in 1 .. Len(s)
      PROVE  /\ 1 \in 1 .. Len(s) /\ Len(s) \in 1 .. Len(s) /\ s # << >>
             /\ i < Len(s) <=> i # Len(s)
             /\ i > 1 <=> i # 1
  <2>1. Len(s) # 0
    BY <1>1
  <2> QED
    BY <1>1, <2>1, EmptySeq
<1>3. ASSUME Follows(s, link, x) PROVE Follows(s, D!UpTo(last, link), Null)
  <2>1. ASSUME NEW i \in 1 .. Len(s)
        PROVE  D!UpTo(last, link)[s[i]] = IF i < Len(s) THEN s[i + 1] ELSE Null
    <3>1. s[i] = last <=> i = Len(s)
      BY <1>2 DEF Simple
    <3>2. D!UpTo(last, link)[s[i]] = IF s[i] = last THEN Null ELSE link[s[i]]
      BY <1>1 DEF D!UpTo
    <3>3. link[s[i]] = IF i < Len(s) THEN s[i + 1] ELSE x
      BY <1>3 DEF Follows
    <3> QED
      BY <1>2, <3>1, <3>2, <3>3
  <2> QED
    BY <2>1 DEF Follows
<1>4. ASSUME LeadsBack(s, link, x) PROVE LeadsBack(s, D!UpTo(first, link), Null)
  <2>1. ASSUME NEW i \in 1 .. Len(s)
        PROVE  D!UpTo(first, link)[s[i]] = IF i > 1 THEN s[i - 1] ELSE Null
    <3>1. s[i] = first <=> i = 1
      BY <1>2 DEF Simple
    <3>2. D!UpTo(first, link)[s[i]] = IF s[i] = first THEN Null ELSE link[s[i]]
      BY <1>1 DEF D!UpTo
    <3>3. link[s[i]] = IF i > 1 THEN s[i - 1] ELSE x
      BY <1>4 DEF LeadsBack
    <3> QED
      BY <1>2, <3>1, <3>2, <3>3
  <2> QED
    BY <2>1 DEF LeadsBack
<1> QED
  BY <1>3, <1>4

(* Both directions are the same sequence.                                  *)
LEMMA BothWays ==
  ASSUME NEW link \in [DNodes -> DNodes \cup {Null}], NEW s \in Seq(DNodes), Simple(s),
         NEW first, first = IF s = << >> THEN Null ELSE s[1],
         NEW last, last = IF s = << >> THEN Null ELSE s[Len(s)], NEW x
  PROVE  /\ Follows(s, link, x) => D!Trail(first, D!UpTo(last, link)) = s
         /\ LeadsBack(s, link, x) => D!Reverse(D!Trail(last, D!UpTo(first, link))) = s
<1>1. IsFiniteSet(DNodes) /\ Null \notin DNodes
  BY DoubleAssumption
<1>2. \A y, l : D!Trail(y, l) = Trail(y, l)
  BY DEF D!Trail, Trail, D!Cardinality, Cardinality
<1>3. \A y : D!Reverse(y) = Reverse(y)
  BY DEF D!Reverse, Reverse
<1>4. DOMAIN D!UpTo(last, link) = DNodes /\ DOMAIN D!UpTo(first, link) = DNodes
  BY DEF D!UpTo
<1>5. ASSUME Follows(s, link, x) PROVE Trail(first, D!UpTo(last, link)) = s
  <2>1. Follows(s, D!UpTo(last, link), Null)
    BY <1>5, UpToEnd, Zenon
  <2> QED
    BY <1>1, <1>4, <2>1, TrailIs
<1>6. ASSUME LeadsBack(s, link, x) PROVE Reverse(Trail(last, D!UpTo(first, link))) = s
  <2>1. LeadsBack(s, D!UpTo(first, link), Null)
    BY <1>6, UpToEnd, Zenon
  <2> QED
    BY <1>1, <1>4, <2>1, BackTrailIs
<1> QED
  BY <1>2, <1>3, <1>5, <1>6

LEMMA DoubleContents ==
  ASSUME DTypes, NEW s, DHolds(s)
  PROVE  D!Forward = s /\ D!Backward = s /\ [l \in {"list"} |-> D!Forward]["list"] = s
<1>1. /\ dnext \in [DNodes -> DNodes \cup {Null}] /\ dprev \in [DNodes -> DNodes \cup {Null}]
      /\ s \in Seq(DNodes) /\ Simple(s)
      /\ dhead = IF s = << >> THEN Null ELSE s[1]
      /\ dtail = IF s = << >> THEN Null ELSE s[Len(s)]
  BY DEF DTypes, DHolds
<1>2. PICK x, y : Follows(s, dnext, x) /\ LeadsBack(s, dprev, y)
  BY DEF DHolds
<1>3. D!Trail(dhead, D!UpTo(dtail, dnext)) = s
  BY <1>1, <1>2, BothWays, Zenon
<1>4. D!Reverse(D!Trail(dtail, D!UpTo(dhead, dprev))) = s
  BY <1>1, <1>2, BothWays, Zenon
<1>5. D!Forward = s
  BY <1>3 DEF D!Forward
<1> QED
  BY <1>4, <1>5 DEF D!Backward

LEMMA DoubleChanges ==
  ASSUME DTypes', NEW t, DHolds(t)', NEW c
  PROVE  [l \in {"list"} |-> D!Forward]' = [[l \in {"list"} |-> c] EXCEPT !["list"] = t]
<1>1. /\ dnext' \in [DNodes -> DNodes \cup {Null}]
      /\ t \in Seq(DNodes) /\ Simple(t)
      /\ dhead' = IF t = << >> THEN Null ELSE t[1]
      /\ dtail' = IF t = << >> THEN Null ELSE t[Len(t)]
  BY DEF DTypes, DHolds
<1>2. PICK x : Follows(t, dnext', x)
  BY DEF DHolds
<1>3. D!Trail(dhead', D!UpTo(dtail', dnext')) = t
  BY <1>1, <1>2, BothWays, Zenon
<1>4. D!Forward' = t
  BY <1>3 DEF D!Forward
<1>5. [l \in {"list"} |-> D!Forward]' = [l \in {"list"} |-> t]
  BY <1>4
<1> QED
  BY <1>5

LEMMA DoubleEnds ==
  ASSUME NEW s, DHolds(s)
  PROVE  /\ Len(s) \in Nat
         /\ \A i \in 1 .. Len(s) : s[i] \in DNodes /\ s[i] \in dmembers
         /\ s # << >> => 1 \in 1 .. Len(s) /\ Len(s) \in 1 .. Len(s)
         /\ dhead # Null <=> s # << >>
         /\ dtail # Null <=> s # << >>
         /\ s # << >> => dhead = s[1] /\ dtail = s[Len(s)] /\ dhead \in DNodes /\ dtail \in DNodes
<1>1. /\ s \in Seq(DNodes) /\ \A n \in DNodes : Member(n, s) <=> n \in dmembers
      /\ dhead = IF s = << >> THEN Null ELSE s[1]
      /\ dtail = IF s = << >> THEN Null ELSE s[Len(s)]
  BY DEF DHolds
<1>2. /\ Len(s) \in Nat /\ \A i \in 1 .. Len(s) : s[i] \in DNodes
      /\ s # << >> <=> Len(s) >= 1
  BY <1>1, SeqFacts
<1>3. ASSUME NEW i \in 1 .. Len(s) PROVE s[i] \in dmembers
  <2>1. Member(s[i], s) /\ s[i] \in DNodes
    BY <1>2 DEF Member
  <2> QED
    BY <1>1, <2>1
<1>4. s # << >> => 1 \in 1 .. Len(s) /\ Len(s) \in 1 .. Len(s)
  BY <1>2
<1>5. Null \notin DNodes
  BY DoubleAssumption
<1>6. s # << >> => s[1] \in DNodes /\ s[Len(s)] \in DNodes
  BY <1>2, <1>4
<1> QED
  BY <1>1, <1>2, <1>3, <1>4, <1>5, <1>6
LEMMA DAppendChanges ==
  ASSUME DTypes, NEW s, DHolds(s), NEW n \in DNodes, D!dlist_append(n)
  PROVE  DHolds(s \o << n >>)'
<1>1. /\ s \in Seq(DNodes) /\ Simple(s) /\ \A x \in DNodes : Member(x, s) <=> x \in dmembers
      /\ dhead = IF s = << >> THEN Null ELSE s[1]
      /\ dtail = IF s = << >> THEN Null ELSE s[Len(s)]
  BY DEF DHolds
<1>2. /\ Len(s) \in Nat
      /\ \A i \in 1 .. Len(s) : s[i] \in DNodes /\ s[i] \in dmembers
      /\ s # << >> => 1 \in 1 .. Len(s) /\ Len(s) \in 1 .. Len(s)
      /\ dtail # Null <=> s # << >>
      /\ s # << >> => dtail \in DNodes
  BY DoubleEnds
<1>3. n \notin dmembers /\ dmembers' = dmembers \cup {n} /\ used' = used /\ dtail' = n
  BY DEF D!dlist_append, D!Insert
<1>4. /\ dhead' = IF s = << >> THEN n ELSE dhead
      /\ dprev' = [dprev EXCEPT ![n] = dtail]
      /\ dnext' = IF s = << >> THEN [dnext EXCEPT ![n] = Null]
                  ELSE [dnext EXCEPT ![dtail] = n, ![n] = Null]
  BY <1>1, <1>2 DEF D!dlist_append
<1>5. PICK x, y : Follows(s, dnext, x) /\ LeadsBack(s, dprev, y)
  BY DEF DHolds
<1>6. PICK u : u = << n >>
  OBVIOUS
<1>7. /\ u \in Seq(DNodes) /\ Len(u) = 1 /\ u[1] = n /\ u # << >>
      /\ Simple(u) /\ \A m : Member(m, u) <=> m = n
  BY <1>6, OneFacts
<1>8. PICK t : t = s \o u
  OBVIOUS
<1>9. /\ t \in Seq(DNodes) /\ Len(t) = Len(s) + Len(u)
      /\ \A i \in 1 .. Len(s) : t[i] = s[i]
      /\ \A i \in 1 .. Len(u) : t[i + Len(s)] = u[i]
  <2>1. s \in Seq(DNodes) /\ u \in Seq(DNodes)
    BY <1>1, <1>7
  <2> QED
    BY <1>8, <2>1, JoinFacts
<1>10. \A i \in 1 .. Len(s) : s[i] # n
  BY <1>2, <1>3
<1>11. Simple(t)
  <2>1. \A i \in 1 .. Len(s), j \in 1 .. Len(u) : s[i] # u[j]
    BY <1>7, <1>10
  <2> QED
    BY <1>1, <1>7, <1>8, <2>1, SimpleJoin
<1>12. \A m \in DNodes : Member(m, t) <=> m \in dmembers'
  <2>1. \A m : Member(m, t) <=> Member(m, s) \/ Member(m, u)
    BY <1>1, <1>7, <1>8, MemberOfJoin
  <2> QED
    BY <1>1, <1>3, <1>7, <2>1
<1>13. t # << >> /\ t[Len(t)] = n /\ t[1] = IF s = << >> THEN n ELSE s[1]
  <2>1. 1 \in 1 .. Len(u) /\ 1 + Len(s) = Len(t) /\ Len(t) # 0
    BY <1>2, <1>7, <1>9
  <2>2. t[Len(t)] = n
    <3>1. t[1 + Len(s)] = u[1]
      BY <1>9, <2>1
    <3> QED
      BY <1>7, <2>1, <3>1
  <2>3. t[1] = IF s = << >> THEN n ELSE s[1]
    <3>1. CASE s = << >>
      <4>1. Len(t) = 1
        BY <2>1, <3>1, EmptySeq
      <4> QED
        BY <2>2, <3>1, <4>1
    <3>2. CASE s # << >>
      BY <1>2, <1>9, <3>2
    <3> QED
      BY <3>1, <3>2
  <2> QED
    BY <2>1, <2>2, <2>3, EmptySeq
<1>14. Follows(t, dnext', Null)
  <2>1. Follows(s, dnext, x)
    BY <1>5
  <2>2. Follows(u, dnext', Null)
    <3>1. dnext'[n] = Null
      BY <1>2, <1>4 DEF DTypes
    <3>2. \A i \in 1 .. Len(u) : i = 1 /\ ~(i < Len(u))
      BY <1>7
    <3> QED
      BY <1>7, <3>1, <3>2 DEF Follows
  <2>3. Follows(s, dnext', u[1])
    <3>1. ASSUME NEW i \in 1 .. Len(s)
          PROVE  dnext'[s[i]] = IF i < Len(s) THEN s[i + 1] ELSE n
      <4>1. s # << >> /\ Len(s) \in 1 .. Len(s)
        <5>1. Len(s) # 0
          BY <1>2
        <5> QED
          BY <1>2, <5>1, EmptySeq
      <4>2. dtail = s[Len(s)] /\ dtail \in DNodes /\ dtail # n /\ s[i] \in DNodes /\ s[i] # n
        BY <1>1, <1>2, <1>10, <4>1
      <4>3. dnext'[s[i]] = IF s[i] = dtail THEN n ELSE dnext[s[i]]
        BY <1>4, <4>1, <4>2 DEF DTypes
      <4>4. s[i] = dtail <=> i = Len(s)
        BY <1>1, <4>1, <4>2 DEF Simple
      <4>5. i < Len(s) <=> i # Len(s)
        BY <1>2
      <4>6. dnext[s[i]] = IF i < Len(s) THEN s[i + 1] ELSE x
        BY <2>1 DEF Follows
      <4> QED
        BY <4>3, <4>4, <4>5, <4>6
    <3> QED
      BY <1>7, <3>1 DEF Follows
  <2> QED
    BY <1>1, <1>7, <1>8, <2>2, <2>3, FollowsJoin, Zenon
<1>15. ASSUME NEW z, LeadsBack(s, dprev, z)
       PROVE  LeadsBack(t, dprev', IF s = << >> THEN Null ELSE z)
  <2> DEFINE w == IF s = << >> THEN Null ELSE z
  <2>2. LeadsBack(s, dprev', w)
    <3>1. ASSUME NEW i \in 1 .. Len(s) PROVE dprev'[s[i]] = IF i > 1 THEN s[i - 1] ELSE w
      <4>1. dprev'[s[i]] = dprev[s[i]]
        BY <1>2, <1>4, <1>10 DEF DTypes
      <4>2. s # << >>
        <5>1. Len(s) # 0
          BY <1>2
        <5> QED
          BY <5>1, EmptySeq
      <4>3. dprev[s[i]] = IF i > 1 THEN s[i - 1] ELSE z
        BY <1>15 DEF LeadsBack
      <4> QED
        BY <4>1, <4>2, <4>3
    <3> QED
      BY <3>1 DEF LeadsBack
  <2>3. LeadsBack(u, dprev', dtail)
    <3>1. dprev'[n] = dtail
      BY <1>4 DEF DTypes
    <3>2. \A i \in 1 .. Len(u) : i = 1 /\ ~(i > 1)
      BY <1>7
    <3> QED
      BY <1>7, <3>1, <3>2 DEF LeadsBack
  <2>4. dtail = IF s = << >> THEN w ELSE s[Len(s)]
    BY <1>1
  <2> HIDE DEF w
  <2>5. LeadsBack(t, dprev', w)
    BY <1>1, <1>7, <1>8, <2>2, <2>3, <2>4, LeadsBackJoin, Zenon
  <2> QED
    BY <2>5 DEF w
<1>16. \E z : LeadsBack(t, dprev', z)
  BY <1>5, <1>15
<1>17. "pop_front" \notin used' => LeadsBack(t, dprev', Null)
  <2>1. ASSUME "pop_front" \notin used PROVE LeadsBack(t, dprev', Null)
    <3>1. LeadsBack(s, dprev, Null)
      BY <2>1 DEF DHolds
    <3>2. LeadsBack(t, dprev', IF s = << >> THEN Null ELSE Null)
      BY <1>15, <3>1
    <3> QED
      BY <3>2
  <2> QED
    BY <1>3, <2>1
<1>18. DHolds(t)'
  BY <1>1, <1>3, <1>4, <1>9, <1>11, <1>12, <1>13, <1>14, <1>16, <1>17 DEF DHolds
<1> QED
  BY <1>6, <1>8, <1>18

LEMMA DPrependChanges ==
  ASSUME DTypes, NEW s, DHolds(s), NEW n \in DNodes, D!dlist_prepend(n)
  PROVE  DHolds(<< n >> \o s)'
<1>1. /\ s \in Seq(DNodes) /\ Simple(s) /\ \A x \in DNodes : Member(x, s) <=> x \in dmembers
      /\ dhead = IF s = << >> THEN Null ELSE s[1]
      /\ dtail = IF s = << >> THEN Null ELSE s[Len(s)]
  BY DEF DHolds
<1>2. /\ Len(s) \in Nat
      /\ \A i \in 1 .. Len(s) : s[i] \in DNodes /\ s[i] \in dmembers
      /\ s # << >> => 1 \in 1 .. Len(s) /\ Len(s) \in 1 .. Len(s)
      /\ dhead # Null <=> s # << >>
      /\ s # << >> => dhead \in DNodes
  BY DoubleEnds
<1>3. n \notin dmembers /\ dmembers' = dmembers \cup {n} /\ used' = used /\ dhead' = n
  BY DEF D!dlist_prepend, D!Insert
<1>4. /\ dtail' = IF s = << >> THEN n ELSE dtail
      /\ dnext' = [dnext EXCEPT ![n] = dhead]
      /\ dprev' = IF s = << >> THEN [dprev EXCEPT ![n] = Null]
                  ELSE [dprev EXCEPT ![dhead] = n, ![n] = Null]
  BY <1>1, <1>2 DEF D!dlist_prepend
<1>5. PICK x, y : Follows(s, dnext, x) /\ LeadsBack(s, dprev, y)
  BY DEF DHolds
<1>6. PICK u : u = << n >>
  OBVIOUS
<1>7. /\ u \in Seq(DNodes) /\ Len(u) = 1 /\ u[1] = n /\ u # << >>
      /\ Simple(u) /\ \A m : Member(m, u) <=> m = n
  BY <1>6, OneFacts
<1>8. PICK t : t = u \o s
  OBVIOUS
<1>9. /\ t \in Seq(DNodes) /\ Len(t) = Len(u) + Len(s)
      /\ \A i \in 1 .. Len(u) : t[i] = u[i]
      /\ \A i \in 1 .. Len(s) : t[i + Len(u)] = s[i]
  <2>1. s \in Seq(DNodes) /\ u \in Seq(DNodes)
    BY <1>1, <1>7
  <2> QED
    BY <1>8, <2>1, JoinFacts
<1>10. \A i \in 1 .. Len(s) : s[i] # n
  BY <1>2, <1>3
<1>11. Simple(t)
  <2>1. \A i \in 1 .. Len(u), j \in 1 .. Len(s) : u[i] # s[j]
    BY <1>7, <1>10
  <2> QED
    BY <1>1, <1>7, <1>8, <2>1, SimpleJoin
<1>12. \A m \in DNodes : Member(m, t) <=> m \in dmembers'
  <2>1. \A m : Member(m, t) <=> Member(m, u) \/ Member(m, s)
    BY <1>1, <1>7, <1>8, MemberOfJoin
  <2> QED
    BY <1>1, <1>3, <1>7, <2>1
<1>13. t # << >> /\ t[1] = n /\ t[Len(t)] = IF s = << >> THEN n ELSE s[Len(s)]
  <2>1. 1 \in 1 .. Len(u) /\ Len(s) + 1 = Len(t) /\ Len(t) # 0
    BY <1>2, <1>7, <1>9
  <2>2. t[1] = n
    BY <1>7, <1>9, <2>1
  <2>3. t[Len(t)] = IF s = << >> THEN n ELSE s[Len(s)]
    <3>1. CASE s = << >>
      <4>1. Len(t) = 1
        BY <2>1, <3>1, EmptySeq
      <4> QED
        BY <2>2, <3>1, <4>1
    <3>2. CASE s # << >>
      <4>1. t[Len(s) + Len(u)] = s[Len(s)]
        BY <1>2, <1>9, <3>2
      <4>2. Len(s) + Len(u) = Len(t)
        BY <1>7, <2>1
      <4> QED
        BY <3>2, <4>1, <4>2
    <3> QED
      BY <3>1, <3>2
  <2> QED
    BY <2>1, <2>2, <2>3, EmptySeq
<1>14. ASSUME NEW z, Follows(s, dnext, z)
       PROVE  Follows(t, dnext', IF s = << >> THEN Null ELSE z)
  <2>2. Follows(s, dnext', z)
    <3>1. ASSUME NEW i \in 1 .. Len(s) PROVE dnext'[s[i]] = dnext[s[i]]
      BY <1>2, <1>4, <1>10 DEF DTypes
    <3> QED
      BY <1>14, <3>1 DEF Follows
  <2>3. dnext'[n] = dhead
    BY <1>4 DEF DTypes
  <2>4. \A i \in 1 .. Len(u) : i = 1 /\ ~(i < Len(u))
    BY <1>7
  <2>5. Follows(u, dnext', dhead)
    BY <1>7, <2>3, <2>4 DEF Follows
  <2>6. CASE s = << >>
    <3>1. t = u
      <4>1. u \o << >> = u
        BY <1>7, ConcatEmptySeq
      <4> QED
        BY <1>8, <2>6, <4>1
    <3> QED
      BY <1>1, <2>5, <2>6, <3>1
  <2>7. CASE s # << >>
    <3>1. Follows(u, dnext', s[1])
      BY <1>1, <2>5, <2>7
    <3>2. Follows(t, dnext', z)
      BY <1>1, <1>7, <1>8, <2>2, <2>7, <3>1, FollowsJoin, Zenon
    <3> QED
      BY <2>7, <3>2
  <2> QED
    BY <2>6, <2>7
<1>15. LeadsBack(t, dprev', Null)
  <2>1. LeadsBack(s, dprev, y)
    BY <1>5
  <2>2. LeadsBack(u, dprev', Null)
    <3>1. dprev'[n] = Null
      BY <1>2, <1>4 DEF DTypes
    <3>2. \A i \in 1 .. Len(u) : i = 1 /\ ~(i > 1)
      BY <1>7
    <3> QED
      BY <1>7, <3>1, <3>2 DEF LeadsBack
  <2>3. LeadsBack(s, dprev', n)
    <3>1. ASSUME NEW i \in 1 .. Len(s)
          PROVE  dprev'[s[i]] = IF i > 1 THEN s[i - 1] ELSE n
      <4>1. s # << >> /\ 1 \in 1 .. Len(s)
        <5>1. Len(s) # 0
          BY <1>2
        <5> QED
          BY <1>2, <5>1, EmptySeq
      <4>2. dhead = s[1] /\ dhead \in DNodes /\ dhead # n /\ s[i] \in DNodes /\ s[i] # n
        BY <1>1, <1>2, <1>10, <4>1
      <4>3. dprev'[s[i]] = IF s[i] = dhead THEN n ELSE dprev[s[i]]
        BY <1>4, <4>1, <4>2 DEF DTypes
      <4>4. s[i] = dhead <=> i = 1
        BY <1>1, <4>1, <4>2 DEF Simple
      <4>5. i > 1 <=> i # 1
        BY <1>2
      <4>6. dprev[s[i]] = IF i > 1 THEN s[i - 1] ELSE y
        BY <2>1 DEF LeadsBack
      <4> QED
        BY <4>3, <4>4, <4>5, <4>6
    <3> QED
      BY <3>1 DEF LeadsBack
  <2>4. n = IF u = << >> THEN Null ELSE u[Len(u)]
    BY <1>7
  <2> QED
    BY <1>1, <1>7, <1>8, <2>2, <2>3, <2>4, LeadsBackJoin, Zenon
<1>16. \E z : Follows(t, dnext', z)
  BY <1>5, <1>14
<1>17. "pop_end" \notin used' => Follows(t, dnext', Null)
  <2>1. ASSUME "pop_end" \notin used PROVE Follows(t, dnext', Null)
    <3>1. Follows(s, dnext, Null)
      BY <2>1 DEF DHolds
    <3>2. Follows(t, dnext', IF s = << >> THEN Null ELSE Null)
      BY <1>14, <3>1
    <3> QED
      BY <3>2
  <2> QED
    BY <1>3, <2>1
<1>18. DHolds(t)'
  BY <1>1, <1>3, <1>4, <1>9, <1>11, <1>12, <1>13, <1>15, <1>16, <1>17 DEF DHolds
<1> QED
  BY <1>6, <1>8, <1>18

(* A pop at the end of a list leaves the links towards that end as they    *)
(* are, and so does a pop at its front.                                    *)
LEMMA FollowsFront ==
  ASSUME NEW S, NEW s \in Seq(S), s # << >>, NEW t, t = RemoveAt(s, Len(s)),
         NEW link, NEW null, Follows(s, link, null)
  PROVE  Follows(t, link, s[Len(s)])
<1>1. Len(s) \in Nat /\ Len(s) >= 1 /\ Len(s) \in 1 .. Len(s)
  BY SeqFacts
<1>2. /\ t \in Seq(S) /\ Len(t) = Len(s) - 1
      /\ \A j \in 1 .. Len(t) : t[j] = IF j < Len(s) THEN s[j] ELSE s[j + 1]
  <2>1. PICK i \in 1 .. Len(s) : i = Len(s)
    BY <1>1
  <2>2. t = RemoveAt(s, i)
    BY <2>1
  <2>3. /\ t \in Seq(S) /\ Len(t) = Len(s) - 1
        /\ \A j \in 1 .. Len(t) : t[j] = IF j < i THEN s[j] ELSE s[j + 1]
    BY <2>2, RemoveFacts
  <2> QED
    BY <2>1, <2>3
<1>3. ASSUME NEW j \in 1 .. Len(t)
      PROVE  link[t[j]] = IF j < Len(t) THEN t[j + 1] ELSE s[Len(s)]
  <2>1. /\ j \in 1 .. Len(s) /\ j < Len(s)
        /\ j < Len(t) => j + 1 \in 1 .. Len(t) /\ j + 1 < Len(s)
        /\ ~(j < Len(t)) => j + 1 = Len(s)
    BY <1>1, <1>2
  <2>2. link[s[j]] = s[j + 1]
    BY <2>1 DEF Follows
  <2>3. t[j] = s[j] /\ (j < Len(t) => t[j + 1] = s[j + 1])
    BY <1>2, <2>1
  <2> QED
    BY <2>1, <2>2, <2>3
<1> QED
  BY <1>3 DEF Follows

LEMMA LeadsBackRest ==
  ASSUME NEW S, NEW s \in Seq(S), s # << >>, NEW t, t = RemoveAt(s, 1),
         NEW link, NEW null, LeadsBack(s, link, null)
  PROVE  LeadsBack(t, link, s[1])
<1>1. Len(s) \in Nat /\ Len(s) >= 1 /\ 1 \in 1 .. Len(s)
  BY SeqFacts
<1>2. /\ t \in Seq(S) /\ Len(t) = Len(s) - 1
      /\ \A j \in 1 .. Len(t) : t[j] = IF j < 1 THEN s[j] ELSE s[j + 1]
  BY <1>1, RemoveFacts
<1>3. ASSUME NEW j \in 1 .. Len(t)
      PROVE  link[t[j]] = IF j > 1 THEN t[j - 1] ELSE s[1]
  <2>1. /\ j + 1 \in 1 .. Len(s) /\ j + 1 > 1 /\ (j + 1) - 1 = j /\ ~(j < 1)
        /\ j > 1 => j - 1 \in 1 .. Len(t) /\ ~(j - 1 < 1) /\ (j - 1) + 1 = j
        /\ ~(j > 1) => j = 1
    BY <1>1, <1>2
  <2>2. link[s[j + 1]] = s[j]
    BY <2>1 DEF LeadsBack
  <2>3. t[j] = s[j + 1] /\ (j > 1 => t[j - 1] = s[j])
    BY <1>2, <2>1
  <2> QED
    BY <2>1, <2>2, <2>3
<1> QED
  BY <1>3 DEF LeadsBack

(* A node is taken out, whichever way the owner does it.                   *)
LEMMA DTakeChanges ==
  ASSUME DTypes, NEW s, DHolds(s), NEW i \in 1 .. Len(s), NEW way, used' = used \cup {way},
         dmembers' = dmembers \ {s[i]},
         dhead' = IF i # 1 THEN s[1] ELSE IF i < Len(s) THEN s[i + 1] ELSE Null,
         dtail' = IF i # Len(s) THEN s[Len(s)] ELSE IF i > 1 THEN s[i - 1] ELSE Null,
         \/ Bypassed(s, i, dnext, dnext')
         \/ i = Len(s) /\ dnext' = dnext /\ way = "pop_end",
         \/ BypassedBack(s, i, dprev, dprev')
         \/ i = 1 /\ dprev' = dprev /\ way = "pop_front"
  PROVE  DHolds(RemoveAt(s, i))'
<1>1. /\ s \in Seq(DNodes) /\ Simple(s) /\ \A x \in DNodes : Member(x, s) <=> x \in dmembers
      /\ "pop_end" \notin used => Follows(s, dnext, Null)
      /\ "pop_front" \notin used => LeadsBack(s, dprev, Null)
  BY DEF DHolds
<1>2. PICK t : t = RemoveAt(s, i)
  OBVIOUS
<1>3. t \in Seq(DNodes)
  BY <1>1, <1>2, RemoveFacts
<1>4. Simple(t) /\ \A x : Member(x, t) <=> Member(x, s) /\ x # s[i]
  BY <1>1, <1>2, SimpleRemove
<1>5. \A x \in DNodes : Member(x, t) <=> x \in dmembers'
  BY <1>1, <1>4
<1>6. /\ (IF t = << >> THEN Null ELSE t[1]) = dhead'
      /\ (IF t = << >> THEN Null ELSE t[Len(t)]) = dtail'
  <2>1. /\ t = << >> => i = 1 /\ i = Len(s) /\ ~(i < Len(s)) /\ ~(i > 1)
        /\ t # << >> => t[1] = IF i # 1 THEN s[1] ELSE s[i + 1]
        /\ t # << >> => t[Len(t)] = IF i # Len(s) THEN s[Len(s)] ELSE s[i - 1]
        /\ t # << >> => (i = 1 => i < Len(s)) /\ (i = Len(s) => i > 1)
    BY <1>1, <1>2, EndsAfterRemove
  <2> QED
    BY <2>1
<1>7. PICK x, y : Follows(s, dnext, x) /\ LeadsBack(s, dprev, y)
  BY DEF DHolds
<1>8. s # << >>
  <2>1. Len(s) # 0
    BY <1>1, SeqFacts
  <2> QED
    BY <2>1, EmptySeq
<1>9. (\E z : Follows(t, dnext', z)) /\ ("pop_end" \notin used' => Follows(t, dnext', Null))
  <2>1. CASE Bypassed(s, i, dnext, dnext')
    <3>1. \A z : Follows(s, dnext, z) => Follows(t, dnext', z)
      BY <1>1, <1>2, <2>1, FollowsRemove, Zenon
    <3> QED
      BY <1>1, <1>7, <3>1
  <2>2. CASE i = Len(s) /\ dnext' = dnext /\ way = "pop_end"
    <3>1. Follows(t, dnext', s[Len(s)])
      BY <1>1, <1>2, <1>7, <1>8, <2>2, FollowsFront, Zenon
    <3> QED
      BY <2>2, <3>1
  <2> QED
    BY <2>1, <2>2
<1>10. (\E z : LeadsBack(t, dprev', z)) /\ ("pop_front" \notin used' => LeadsBack(t, dprev', Null))
  <2>1. CASE BypassedBack(s, i, dprev, dprev')
    <3>1. \A z : LeadsBack(s, dprev, z) => LeadsBack(t, dprev', z)
      BY <1>1, <1>2, <2>1, LeadsBackRemove, Zenon
    <3> QED
      BY <1>1, <1>7, <3>1
  <2>2. CASE i = 1 /\ dprev' = dprev /\ way = "pop_front"
    <3>1. LeadsBack(t, dprev', s[1])
      BY <1>1, <1>2, <1>7, <1>8, <2>2, LeadsBackRest, Zenon
    <3> QED
      BY <2>2, <3>1
  <2> QED
    BY <2>1, <2>2
<1>11. DHolds(t)'
  BY <1>3, <1>4, <1>5, <1>6, <1>9, <1>10 DEF DHolds
<1> QED
  BY <1>2, <1>11

LEMMA DRemoveChanges ==
  ASSUME DTypes, NEW s, DHolds(s), NEW n \in DNodes, D!dlist_remove(n), ~astray'
  PROVE  \E i \in 1 .. Len(s) : s[i] = n /\ DHolds(RemoveAt(s, i))'
<1>1. /\ s \in Seq(DNodes) /\ Simple(s) /\ \A x \in DNodes : Member(x, s) <=> x \in dmembers
      /\ dhead = IF s = << >> THEN Null ELSE s[1]
      /\ dtail = IF s = << >> THEN Null ELSE s[Len(s)]
  BY DEF DHolds
<1>2. Len(s) \in Nat /\ \A i \in 1 .. Len(s) : s[i] \in DNodes
  BY <1>1, SeqFacts
<1>3. /\ n \in dmembers /\ dmembers' = dmembers \ {n} /\ used' = used \cup {"remove"}
      /\ dhead' = IF n = dhead THEN dnext[n] ELSE dhead
      /\ dtail' = IF n = dtail THEN dprev[n] ELSE dtail
      /\ dnext' = IF dprev[n] # Null THEN [dnext EXCEPT ![dprev[n]] = dnext[n]] ELSE dnext
      /\ dprev' = IF dnext'[n] # Null THEN [dprev EXCEPT ![dnext'[n]] = dprev[n]] ELSE dprev
      /\ n = dhead => dprev[n] = Null
      /\ n = dtail => dnext[n] = Null
  BY DEF D!dlist_remove, D!TakeOut, D!BeyondEnds
<1>4. PICK x, y : Follows(s, dnext, x) /\ LeadsBack(s, dprev, y)
  BY DEF DHolds
<1>5. PICK i \in 1 .. Len(s) : s[i] = n
  BY <1>1, <1>3 DEF Member
<1>7. Null \notin DNodes
  BY DoubleAssumption
<1>8. /\ i > 1 => i - 1 \in 1 .. Len(s) /\ i - 1 # i
      /\ i < Len(s) => i + 1 \in 1 .. Len(s) /\ i + 1 # i
      /\ s # << >> /\ (i # 1 <=> i > 1) /\ (i # Len(s) <=> i < Len(s))
  <2>1. Len(s) \in Nat /\ i \in 1 .. Len(s) /\ Len(s) # 0
    BY <1>2
  <2> QED
    BY <2>1, EmptySeq
<1>6. /\ dnext[n] = IF i < Len(s) THEN s[i + 1] ELSE Null
      /\ dprev[n] = IF i > 1 THEN s[i - 1] ELSE Null
  <2>1. /\ dnext[n] = IF i < Len(s) THEN s[i + 1] ELSE x
        /\ dprev[n] = IF i > 1 THEN s[i - 1] ELSE y
    BY <1>4, <1>5 DEF Follows, LeadsBack
  <2>2. (i = Len(s) => n = dtail) /\ (i = 1 => n = dhead)
    BY <1>1, <1>5, <1>8
  <2> QED
    BY <1>3, <1>8, <2>1, <2>2
<1>9. /\ dprev[n] # Null <=> i > 1
      /\ dprev[n] # n
      /\ dnext[n] # Null <=> i < Len(s)
  <2>1. i > 1 => s[i - 1] \in DNodes /\ s[i - 1] # n
    BY <1>1, <1>2, <1>5, <1>8 DEF Simple
  <2>2. i < Len(s) => s[i + 1] \in DNodes
    BY <1>2, <1>8
  <2>3. n # Null
    BY <1>7
  <2> QED
    BY <1>6, <1>7, <2>1, <2>2, <2>3
<1>10. dnext' = IF i > 1 THEN [dnext EXCEPT ![s[i - 1]] = dnext[n]] ELSE dnext
  BY <1>3, <1>6, <1>9
<1>11. dnext'[n] = dnext[n]
  <2>1. i > 1 => s[i - 1] # n
    BY <1>6, <1>9
  <2> QED
    BY <1>10, <2>1 DEF DTypes
<1>12. dprev' = IF i < Len(s) THEN [dprev EXCEPT ![s[i + 1]] = dprev[n]] ELSE dprev
  BY <1>3, <1>6, <1>9, <1>11
<1>14. Bypassed(s, i, dnext, dnext')
  <2>1. ASSUME NEW j \in 1 .. Len(s), j # i, j + 1 # i PROVE dnext'[s[j]] = dnext[s[j]]
    <3>1. i > 1 => j # i - 1
      BY <1>2, <2>1
    <3>2. i > 1 => s[j] # s[i - 1]
      BY <1>1, <1>8, <3>1 DEF Simple
    <3> QED
      BY <1>2, <1>10, <3>2 DEF DTypes
  <2>2. i > 1 => dnext'[s[i - 1]] = dnext[s[i]]
    BY <1>2, <1>5, <1>8, <1>10 DEF DTypes
  <2> QED
    BY <2>1, <2>2 DEF Bypassed
<1>15. BypassedBack(s, i, dprev, dprev')
  <2>1. ASSUME NEW j \in 1 .. Len(s), j # i, j # i + 1 PROVE dprev'[s[j]] = dprev[s[j]]
    <3>1. i < Len(s) => s[j] # s[i + 1]
      BY <1>1, <1>8, <2>1 DEF Simple
    <3> QED
      BY <1>2, <1>12, <3>1 DEF DTypes
  <2>2. i < Len(s) => dprev'[s[i + 1]] = dprev[s[i]]
    BY <1>2, <1>5, <1>8, <1>12 DEF DTypes
  <2> QED
    BY <2>1, <2>2 DEF BypassedBack
<1>16. dhead' = IF i # 1 THEN s[1] ELSE IF i < Len(s) THEN s[i + 1] ELSE Null
  <2>1. dhead = s[1] /\ (n = dhead <=> i = 1)
    BY <1>1, <1>2, <1>5, <1>8 DEF Simple
  <2> QED
    BY <1>3, <1>6, <2>1
<1>17. dtail' = IF i # Len(s) THEN s[Len(s)] ELSE IF i > 1 THEN s[i - 1] ELSE Null
  <2>1. dtail = s[Len(s)] /\ (n = dtail <=> i = Len(s))
    BY <1>1, <1>2, <1>5, <1>8 DEF Simple
  <2> QED
    BY <1>3, <1>6, <2>1
<1>18. DHolds(RemoveAt(s, i))'
  BY <1>3, <1>5, <1>14, <1>15, <1>16, <1>17, DTakeChanges
<1> QED
  BY <1>5, <1>18

LEMMA DPopFrontChanges ==
  ASSUME DTypes, NEW s, DHolds(s), D!dlist_pop_front, ~astray'
  PROVE  /\ s # << >> /\ DHolds(RemoveAt(s, 1))'
         /\ dret' = [from |-> "front", node |-> s[1]]
<1>1. dhead # Null
  BY DEF D!dlist_pop_front
<1>2. s \in Seq(DNodes) /\ Simple(s)
  BY DEF DHolds
<1>3. /\ Len(s) \in Nat /\ s # << >>
      /\ \A i \in 1 .. Len(s) : s[i] \in DNodes
      /\ 1 \in 1 .. Len(s) /\ Len(s) \in 1 .. Len(s)
      /\ dhead = s[1] /\ dtail = s[Len(s)]
  BY <1>1, DoubleEnds
<1>4. /\ dhead' = dnext[s[1]]
      /\ dtail' = IF s[1] = s[Len(s)] THEN dhead' ELSE s[Len(s)]
      /\ dnext' = [dnext EXCEPT ![s[1]] = Null]
      /\ dmembers' = dmembers \ {s[1]} /\ used' = used \cup {"pop_front"} /\ dprev' = dprev
      /\ dret' = [from |-> "front", node |-> s[1]]
      /\ s[1] = s[Len(s)] => dnext[s[1]] = Null
  BY <1>3 DEF D!dlist_pop_front, D!TakeOut
<1>5. PICK x : Follows(s, dnext, x)
  BY DEF DHolds
<1>7. s[1] = s[Len(s)] <=> 1 = Len(s)
  BY <1>2, <1>3 DEF Simple
<1>6. dnext[s[1]] = IF 1 < Len(s) THEN s[1 + 1] ELSE Null
  <2>1. dnext[s[1]] = IF 1 < Len(s) THEN s[1 + 1] ELSE x
    BY <1>3, <1>5 DEF Follows
  <2>2. ~(1 < Len(s)) => 1 = Len(s)
    BY <1>3
  <2> QED
    BY <1>4, <1>7, <2>1, <2>2
<1>8. Bypassed(s, 1, dnext, dnext')
  <2>1. ASSUME NEW j \in 1 .. Len(s), j # 1 PROVE dnext'[s[j]] = dnext[s[j]]
    <3>1. s[j] # s[1]
      BY <1>2, <1>3, <2>1 DEF Simple
    <3> QED
      BY <1>3, <1>4, <3>1 DEF DTypes
  <2>2. ~(1 > 1)
    OBVIOUS
  <2> QED
    BY <2>1, <2>2 DEF Bypassed
<1>9. PICK i \in 1 .. Len(s) : i = 1
  BY <1>3
<1>10. /\ i \in 1 .. Len(s) /\ dmembers' = dmembers \ {s[i]}
       /\ Bypassed(s, i, dnext, dnext')
  BY <1>3, <1>4, <1>8, <1>9
<1>11. dhead' = IF i # 1 THEN s[1] ELSE IF i < Len(s) THEN s[i + 1] ELSE Null
  BY <1>4, <1>6, <1>9
<1>12. dtail' = IF i # Len(s) THEN s[Len(s)] ELSE IF i > 1 THEN s[i - 1] ELSE Null
  <2>1. CASE Len(s) = 1
    <3>1. ~(1 < Len(s)) /\ ~(1 > 1)
      BY <2>1
    <3> QED
      BY <1>4, <1>6, <1>7, <1>9, <2>1, <3>1
  <2>2. CASE Len(s) # 1
    BY <1>4, <1>7, <1>9, <2>2
  <2> QED
    BY <2>1, <2>2
<1>13. DHolds(RemoveAt(s, i))'
  BY <1>4, <1>9, <1>10, <1>11, <1>12, DTakeChanges
<1> QED
  BY <1>3, <1>4, <1>9, <1>13

LEMMA DPopEndChanges ==
  ASSUME DTypes, NEW s, DHolds(s), D!dlist_pop_end, ~astray'
  PROVE  /\ s # << >> /\ DHolds(RemoveAt(s, Len(s)))'
         /\ dret' = [from |-> "end", node |-> s[Len(s)]]
<1>1. dtail # Null
  BY DEF D!dlist_pop_end
<1>2. s \in Seq(DNodes) /\ Simple(s)
  BY DEF DHolds
<1>3. /\ Len(s) \in Nat /\ s # << >>
      /\ \A i \in 1 .. Len(s) : s[i] \in DNodes
      /\ 1 \in 1 .. Len(s) /\ Len(s) \in 1 .. Len(s)
      /\ dhead = s[1] /\ dtail = s[Len(s)]
  BY <1>1, DoubleEnds
<1>4. /\ dtail' = dprev[s[Len(s)]]
      /\ dhead' = IF s[Len(s)] = s[1] THEN dtail' ELSE s[1]
      /\ dprev' = [dprev EXCEPT ![s[Len(s)]] = Null]
      /\ dmembers' = dmembers \ {s[Len(s)]} /\ used' = used \cup {"pop_end"} /\ dnext' = dnext
      /\ dret' = [from |-> "end", node |-> s[Len(s)]]
      /\ s[Len(s)] = s[1] => dprev[s[Len(s)]] = Null
  BY <1>3 DEF D!dlist_pop_end, D!TakeOut
<1>5. PICK y : LeadsBack(s, dprev, y)
  BY DEF DHolds
<1>6. PICK i \in 1 .. Len(s) : i = Len(s)
  BY <1>3
<1>8. s[i] = s[1] <=> i = 1
  BY <1>2, <1>3 DEF Simple
<1>7. dprev[s[i]] = IF i > 1 THEN s[i - 1] ELSE Null
  <2>1. dprev[s[i]] = IF i > 1 THEN s[i - 1] ELSE y
    BY <1>5 DEF LeadsBack
  <2>2. ~(i > 1) => i = 1
    BY <1>3, <1>6
  <2> QED
    BY <1>4, <1>6, <1>8, <2>1, <2>2
<1>9. BypassedBack(s, i, dprev, dprev')
  <2>1. ASSUME NEW j \in 1 .. Len(s), j # i PROVE dprev'[s[j]] = dprev[s[j]]
    <3>1. s[j] # s[i]
      BY <1>2, <2>1 DEF Simple
    <3> QED
      BY <1>3, <1>4, <1>6, <3>1 DEF DTypes
  <2>2. ~(i < Len(s))
    BY <1>3, <1>6
  <2> QED
    BY <2>1, <2>2 DEF BypassedBack
<1>10. dmembers' = dmembers \ {s[i]}
  BY <1>4, <1>6
<1>11. dtail' = IF i # Len(s) THEN s[Len(s)] ELSE IF i > 1 THEN s[i - 1] ELSE Null
  BY <1>4, <1>6, <1>7
<1>12. dhead' = IF i # 1 THEN s[1] ELSE IF i < Len(s) THEN s[i + 1] ELSE Null
  <2>1. i = 1 => ~(i < Len(s)) /\ ~(i > 1)
    BY <1>3, <1>6
  <2> QED
    BY <1>4, <1>6, <1>7, <1>8, <2>1
<1>13. DHolds(RemoveAt(s, i))'
  BY <1>4, <1>6, <1>9, <1>10, <1>11, <1>12, DTakeChanges
<1> QED
  BY <1>3, <1>4, <1>6, <1>13

-------------------------------------------------------------------------------
(* The types, also of a list that has been led astray.                     *)
LEMMA DTypesStep ==
  ASSUME DTypes, D!Next
  PROVE  DTypes'
<1>1. CASE \E n \in DNodes : D!dlist_append(n)
  BY <1>1 DEF DTypes, D!dlist_append, D!Insert
<1>2. CASE \E n \in DNodes : D!dlist_prepend(n)
  BY <1>2 DEF DTypes, D!dlist_prepend, D!Insert
<1>3. CASE \E n \in DNodes : D!dlist_remove(n)
  <2>1. PICK n \in DNodes : D!dlist_remove(n)
    BY <1>3
  <2>2. dnext[n] \in DNodes \cup {Null} /\ dprev[n] \in DNodes \cup {Null}
    BY DEF DTypes
  <2>3. dnext' \in [DNodes -> DNodes \cup {Null}]
    BY <2>1, <2>2 DEF DTypes, D!dlist_remove
  <2>4. dprev' \in [DNodes -> DNodes \cup {Null}]
    BY <2>1, <2>2, <2>3 DEF DTypes, D!dlist_remove
  <2>5. dhead' \in DNodes \cup {Null} /\ dtail' \in DNodes \cup {Null}
    BY <2>1, <2>2 DEF DTypes, D!dlist_remove
  <2>6. dmembers' \subseteq DNodes /\ astray' \in BOOLEAN
    BY <2>1 DEF DTypes, D!dlist_remove, D!TakeOut, D!BeyondEnds
  <2> QED
    BY <2>3, <2>4, <2>5, <2>6 DEF DTypes
<1>4. CASE D!dlist_pop_front
  <2>1. dhead \in DNodes
    BY <1>4 DEF DTypes, D!dlist_pop_front
  <2> QED
    BY <1>4, <2>1 DEF DTypes, D!dlist_pop_front, D!TakeOut
<1>5. CASE D!dlist_pop_end
  <2>1. dtail \in DNodes
    BY <1>5 DEF DTypes, D!dlist_pop_end
  <2> QED
    BY <1>5, <2>1 DEF DTypes, D!dlist_pop_end, D!TakeOut
<1> QED
  BY <1>1, <1>2, <1>3, <1>4, <1>5 DEF D!Next

(* A function that is led astray has found what another has left.          *)
LEMMA DAstrayStep ==
  ASSUME DTypes, NEW s, DHolds(s), ~astray, D!Next, astray'
  PROVE  D!Mixed'
<1>1. /\ s \in Seq(DNodes) /\ Simple(s) /\ \A x \in DNodes : Member(x, s) <=> x \in dmembers
      /\ dhead = IF s = << >> THEN Null ELSE s[1]
      /\ dtail = IF s = << >> THEN Null ELSE s[Len(s)]
      /\ "pop_end" \notin used => Follows(s, dnext, Null)
      /\ "pop_front" \notin used => LeadsBack(s, dprev, Null)
  BY DEF DHolds
<1>2. /\ Len(s) \in Nat
      /\ s # << >> => 1 \in 1 .. Len(s) /\ Len(s) \in 1 .. Len(s)
      /\ dhead # Null <=> s # << >>
      /\ dtail # Null <=> s # << >>
  BY DoubleEnds
<1>3. ASSUME s # << >>, "pop_end" \notin used PROVE dnext[dtail] = Null
  BY <1>1, <1>2, <1>3 DEF Follows
<1>4. ASSUME s # << >>, "pop_front" \notin used PROVE dprev[dhead] = Null
  BY <1>1, <1>2, <1>4 DEF LeadsBack
<1>5. CASE \E n \in DNodes : D!dlist_append(n) \/ D!dlist_prepend(n)
  BY <1>5 DEF D!dlist_append, D!dlist_prepend, D!Insert
<1>6. CASE \E n \in DNodes : D!dlist_remove(n)
  <2>1. PICK n \in DNodes : D!dlist_remove(n)
    BY <1>6
  <2>2. /\ n \in dmembers /\ used' = used \cup {"remove"}
        /\ (n = dhead /\ dprev[n] # Null) \/ (n = dtail /\ dnext[n] # Null)
    BY <2>1 DEF D!dlist_remove, D!TakeOut, D!BeyondEnds
  <2>3. s # << >>
    <3>1. PICK i \in 1 .. Len(s) : s[i] = n
      BY <1>1, <2>2 DEF Member
    <3>2. Len(s) # 0
      BY <1>2
    <3> QED
      BY <3>2, EmptySeq
  <2>4. "pop_end" \in used \/ "pop_front" \in used
    BY <1>3, <1>4, <2>2, <2>3
  <2> QED
    BY <2>2, <2>4 DEF D!Mixed
<1>7. CASE D!dlist_pop_front
  <2>1. dhead # Null /\ used' = used \cup {"pop_front"} /\ dhead = dtail /\ dnext[dhead] # Null
    BY <1>7 DEF D!dlist_pop_front, D!TakeOut
  <2>2. "pop_end" \in used
    BY <1>2, <1>3, <2>1
  <2> QED
    BY <2>1, <2>2 DEF D!Mixed
<1>8. CASE D!dlist_pop_end
  <2>1. dtail # Null /\ used' = used \cup {"pop_end"} /\ dtail = dhead /\ dprev[dtail] # Null
    BY <1>8 DEF D!dlist_pop_end, D!TakeOut
  <2>2. "pop_front" \in used
    BY <1>2, <1>4, <2>1
  <2> QED
    BY <2>1, <2>2 DEF D!Mixed
<1> QED
  BY <1>5, <1>6, <1>7, <1>8 DEF D!Next

LEMMA HistoryGrows ==
  ASSUME D!Next
  PROVE  used \subseteq used' /\ (astray => astray')
<1>1. ASSUME \E n \in DNodes : D!dlist_append(n) \/ D!dlist_prepend(n)
      PROVE  used \subseteq used' /\ (astray => astray')
  BY <1>1 DEF D!dlist_append, D!dlist_prepend, D!Insert
<1>2. ASSUME NEW n, NEW function, NEW beyond, D!TakeOut(n, function, beyond)
      PROVE  used \subseteq used' /\ (astray => astray')
  <2>1. used \subseteq used'
    BY <1>2 DEF D!TakeOut
  <2>2. astray => astray'
    BY <1>2 DEF D!TakeOut
  <2> QED
    BY <2>1, <2>2
<1>3. ASSUME ~\E n \in DNodes : D!dlist_append(n) \/ D!dlist_prepend(n)
      PROVE  \E n, function, beyond : D!TakeOut(n, function, beyond)
  BY <1>3, Zenon DEF D!Next, D!dlist_remove, D!dlist_pop_front, D!dlist_pop_end
<1> QED
  BY <1>1, <1>2, <1>3

(* As steps of the sequence.                                               *)
LEMMA NotKept ==
  ASSUME DTypes, NEW s, DHolds(s), NEW n \in DNodes, n \notin dmembers
  PROVE  D!AsSequences!Loose(n)
<1>1. [l \in {"list"} |-> D!Forward]["list"] = s
  BY DoubleContents
<1>2. n \notin D!AsSequences!ToSet(s)
  <2>1. ~Member(n, s) /\ DOMAIN s = 1 .. Len(s)
    BY SeqFacts DEF DHolds
  <2> QED
    BY <2>1 DEF D!AsSequences!ToSet, Member
<1> QED
  BY <1>1, <1>2 DEF D!AsSequences!Loose

LEMMA DAppendStep ==
  ASSUME DTypes, DTypes', NEW s, DHolds(s), NEW n \in DNodes, D!dlist_append(n)
  PROVE  (\E t : DHolds(t)') /\ D!AsSequences!Next
<1>1. PICK u : u = << n >>
  OBVIOUS
<1>2. DHolds(s \o u)'
  BY <1>1, DAppendChanges
<1>3. n \notin dmembers /\ dret' = D!Nothing
  BY DEF D!dlist_append, D!Insert
<1>4. /\ [l \in {"list"} |-> D!Forward]' = [[l \in {"list"} |-> D!Forward] EXCEPT !["list"] = s \o u]
      /\ [l \in {"list"} |-> D!Forward]["list"] = s
  BY <1>2, <1>3, DoubleChanges, DoubleContents
<1>5. D!AsSequences!Join("list", u)
  BY <1>3, <1>4 DEF D!AsSequences!Join, D!AsSequences!Nothing, D!Nothing
<1>6. {n} \in SUBSET {x \in DNodes : D!AsSequences!Loose(x)}
  BY <1>3, NotKept
<1>7. u \in D!AsSequences!SetToSeqs({n})
  <2>1. D!AsSequences!Cardinality({n}) = 1
    <3>1. D!AsSequences!Cardinality({n}) = Cardinality({n})
      BY DEF D!AsSequences!Cardinality, Cardinality
    <3> QED
      BY <3>1, FS_Singleton
  <2>2. u \in [1 .. 1 -> {n}]
    BY <1>1, OneFacts, LenProperties
  <2> QED
    BY <2>1, <2>2 DEF D!AsSequences!SetToSeqs
<1>8. D!AsSequences!Next
  BY <1>5, <1>6, <1>7, Zenon DEF D!AsSequences!Next
<1> QED
  BY <1>2, <1>8

LEMMA DPrependStep ==
  ASSUME DTypes, DTypes', NEW s, DHolds(s), NEW n \in DNodes, D!dlist_prepend(n)
  PROVE  (\E t : DHolds(t)') /\ D!AsSequences!Next
<1>1. DHolds(<< n >> \o s)'
  BY DPrependChanges
<1>2. n \notin dmembers /\ dret' = D!Nothing
  BY DEF D!dlist_prepend, D!Insert
<1>3. /\ [l \in {"list"} |-> D!Forward]' = [[l \in {"list"} |-> D!Forward] EXCEPT !["list"] = << n >> \o s]
      /\ [l \in {"list"} |-> D!Forward]["list"] = s
  BY <1>1, <1>2, DoubleChanges, DoubleContents
<1>4. D!AsSequences!Prepend("list", n)
  BY <1>2, <1>3 DEF D!AsSequences!Prepend, D!AsSequences!Cons, D!AsSequences!Nothing, D!Nothing
<1>5. D!AsSequences!Loose(n)
  BY <1>2, NotKept
<1>6. D!AsSequences!Next
  BY <1>4, <1>5, Zenon DEF D!AsSequences!Next
<1> QED
  BY <1>1, <1>6

LEMMA DTakeSequence ==
  ASSUME DTypes, DTypes', NEW s, DHolds(s), NEW i \in 1 .. Len(s),
         DHolds(RemoveAt(s, i))'
  PROVE  D!AsSequences!Take("list", s[i]) /\ [l \in {"list"} |-> D!Forward]["list"] = s
<1>1. PICK t : t = RemoveAt(s, i)
  OBVIOUS
<1>2. /\ [l \in {"list"} |-> D!Forward]' = [[l \in {"list"} |-> D!Forward] EXCEPT !["list"] = t]
      /\ [l \in {"list"} |-> D!Forward]["list"] = s
  BY <1>1, DoubleChanges, DoubleContents
<1>3. i \in DOMAIN s
  BY SeqFacts DEF DHolds
<1>4. D!AsSequences!RemoveAt(s, i) = t
  BY <1>1 DEF D!AsSequences!RemoveAt, RemoveAt
<1> QED
  BY <1>2, <1>3, <1>4 DEF D!AsSequences!Take

LEMMA DRemoveStep ==
  ASSUME DTypes, DTypes', NEW s, DHolds(s), NEW n \in DNodes, D!dlist_remove(n), ~astray'
  PROVE  (\E t : DHolds(t)') /\ D!AsSequences!Next
<1>2. PICK i \in 1 .. Len(s) : s[i] = n /\ DHolds(RemoveAt(s, i))'
  BY DRemoveChanges
<1>3. dret' = D!Nothing
  BY DEF D!dlist_remove
<1>4. D!AsSequences!Take("list", n)
  BY <1>2, <1>3, DTakeSequence
<1>5. dret' = D!AsSequences!Nothing
  BY <1>3 DEF D!AsSequences!Nothing, D!Nothing
<1>6. D!AsSequences!Next
  BY <1>4, <1>5, Zenon DEF D!AsSequences!Next
<1> QED
  BY <1>2, <1>6

LEMMA DPopFrontStep ==
  ASSUME DTypes, DTypes', ~astray', NEW s, DHolds(s), D!dlist_pop_front
  PROVE  (\E t : DHolds(t)') /\ D!AsSequences!Next
<1>1. /\ s # << >> /\ DHolds(RemoveAt(s, 1))'
      /\ dret' = [from |-> "front", node |-> s[1]]
  BY DPopFrontChanges
<1>2. 1 \in 1 .. Len(s) /\ s \in Seq(DNodes)
  BY <1>1, DoubleEnds DEF DHolds
<1>3. D!AsSequences!Take("list", s[1]) /\ [l \in {"list"} |-> D!Forward]["list"] = s
  BY <1>1, <1>2, DTakeSequence
<1>4. Head(s) = s[1]
  BY <1>1, <1>2, HeadTailProperties
<1>5. D!AsSequences!Pop("list", "front", s[1])
  BY <1>1, <1>3 DEF D!AsSequences!Pop
<1>6. /\ D!AsSequences!Pop("list", "front", Head([l \in {"list"} |-> D!Forward]["list"]))
      /\ [l \in {"list"} |-> D!Forward]["list"] # << >>
  BY <1>1, <1>3, <1>4, <1>5
<1>7. D!AsSequences!Next
  BY <1>6, Zenon DEF D!AsSequences!Next
<1> QED
  BY <1>1, <1>7

LEMMA DPopEndStep ==
  ASSUME DTypes, DTypes', ~astray', NEW s, DHolds(s), D!dlist_pop_end
  PROVE  (\E t : DHolds(t)') /\ D!AsSequences!Next
<1>1. /\ s # << >> /\ DHolds(RemoveAt(s, Len(s)))'
      /\ dret' = [from |-> "end", node |-> s[Len(s)]]
  BY DPopEndChanges
<1>2. Len(s) \in 1 .. Len(s)
  BY <1>1, DoubleEnds
<1>3. D!AsSequences!Take("list", s[Len(s)]) /\ [l \in {"list"} |-> D!Forward]["list"] = s
  BY <1>1, <1>2, DTakeSequence
<1>4. D!AsSequences!Last(s) = s[Len(s)]
  BY DEF D!AsSequences!Last
<1>5. D!AsSequences!Pop("list", "end", s[Len(s)])
  BY <1>1, <1>3 DEF D!AsSequences!Pop
<1>6. /\ D!AsSequences!Pop("list", "end", D!AsSequences!Last([l \in {"list"} |-> D!Forward]["list"]))
      /\ [l \in {"list"} |-> D!Forward]["list"] # << >>
  BY <1>1, <1>3, <1>4, <1>5
<1>7. D!AsSequences!Next
  BY <1>6, Zenon DEF D!AsSequences!Next
<1> QED
  BY <1>1, <1>7

LEMMA DoubleInit ==
  ASSUME D!Init
  PROVE  DoubleInvariant /\ D!AsSequences!Init
<1>1. DTypes
  BY DEF D!Init, DTypes
<1>2. PICK s : s = << >>
  OBVIOUS
<1>3. s \in Seq(DNodes) /\ Len(s) = 0 /\ \A i \in 1 .. Len(s) : FALSE
  BY <1>2, EmptySeq
<1>4. DHolds(s)
  BY <1>2, <1>3 DEF D!Init, DHolds, Simple, Member, Follows, LeadsBack
<1>5. [l \in {"list"} |-> D!Forward] = [l \in {"list"} |-> << >>]
  BY <1>1, <1>2, <1>4, DoubleContents
<1>6. D!AsSequences!Init
  BY <1>5 DEF D!AsSequences!Init, D!AsSequences!Nothing, D!Init, D!Nothing
<1>7. ~astray
  BY DEF D!Init
<1> QED
  BY <1>1, <1>4, <1>6, <1>7 DEF DoubleInvariant

LEMMA DoubleStep ==
  ASSUME DoubleInvariant, [D!Next]_(D!vars)
  PROVE  DoubleInvariant' /\ [~astray' => D!AsSequences!Next]_(D!AsSequences!vars)
<1>1. CASE D!Next /\ ~astray'
  <2>1. PICK s : DTypes /\ DHolds(s)
    BY <1>1, HistoryGrows DEF DoubleInvariant
  <2>2. DTypes'
    BY <1>1, <2>1, DTypesStep
  <2>3. (\E t : DHolds(t)') /\ D!AsSequences!Next
    BY <1>1, <2>1, <2>2, DAppendStep, DPrependStep, DRemoveStep, DPopFrontStep, DPopEndStep
    DEF D!Next
  <2> QED
    BY <1>1, <2>2, <2>3 DEF DoubleInvariant
<1>2. CASE D!Next /\ astray'
  <2>1. DTypes'
    BY <1>2, DTypesStep DEF DoubleInvariant
  <2>2. D!Mixed'
    <3>1. CASE astray
      <4>1. D!Mixed /\ used \subseteq used'
        BY <1>2, <3>1, HistoryGrows DEF DoubleInvariant
      <4> QED
        BY <4>1 DEF D!Mixed
    <3>2. CASE ~astray
      BY <1>2, <3>2, DAstrayStep DEF DoubleInvariant
    <3> QED
      BY <3>1, <3>2
  <2> QED
    BY <1>2, <2>1, <2>2 DEF DoubleInvariant
<1>3. CASE UNCHANGED D!vars
  <2>1. /\ dhead' = dhead /\ dtail' = dtail /\ dnext' = dnext /\ dprev' = dprev
        /\ dmembers' = dmembers /\ dret' = dret /\ used' = used /\ astray' = astray
    BY <1>3 DEF D!vars
  <2>2. DTypes'
    BY <2>1 DEF DoubleInvariant, DTypes
  <2>3. ASSUME ~astray' PROVE \E s : DHolds(s)'
    <3>1. PICK s : DHolds(s)
      BY <2>1, <2>3 DEF DoubleInvariant
    <3>2. DHolds(s)'
      BY <2>1, <3>1 DEF DHolds
    <3> QED
      BY <3>2
  <2>4. astray' => D!Mixed'
    BY <2>1 DEF DoubleInvariant, D!Mixed
  <2>5. UNCHANGED D!AsSequences!vars
    <3>1. D!Forward' = D!Forward
      BY <2>1 DEF D!Forward
    <3> QED
      BY <2>1, <3>1 DEF D!AsSequences!vars
  <2> QED
    BY <2>2, <2>3, <2>4, <2>5 DEF DoubleInvariant
<1> QED
  BY <1>1, <1>2, <1>3

LEMMA DoubleInvariance == D!Spec => []DoubleInvariant
<1>1. D!Init => DoubleInvariant
  BY DoubleInit
<1>2. DoubleInvariant /\ [D!Next]_(D!vars) => DoubleInvariant'
  BY DoubleStep
<1> QED
  BY <1>1, <1>2, PTL DEF D!Spec

(* The dlist functions, whichever of them the owner calls and in whichever *)
(* order: until one of them reads a link that leads out of the list, the   *)
(* links between its ends are a sequence that changes as the names of the  *)
(* functions say, the same in both directions; and that does not happen to *)
(* an owner that takes nodes out by one of the functions only.             *)
THEOREM DoubleListIsSequence == D!Spec => KeepsList
<1>1. D!Init => D!AsSequences!Init
  BY DoubleInit
<1>2. DoubleInvariant /\ [D!Next]_(D!vars) => [~astray' => D!AsSequences!Next]_(D!AsSequences!vars)
  BY DoubleStep
<1>3. DoubleInvariant => (~astray => D!Forward = D!Backward) /\ (astray => D!Mixed)
  BY DoubleContents DEF DoubleInvariant
<1> QED
  BY <1>1, <1>2, <1>3, DoubleInvariance, PTL DEF D!Spec, KeepsList, D!KeepsList
===============================================================================
