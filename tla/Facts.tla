------------------------------- MODULE Facts --------------------------------
(***************************************************************************)
(* Facts about numbers and sets that the proofs of several components use: *)
(* largest and smallest members, induction over an interval in the form of *)
(* a set that is closed under successor, and the existence of a function   *)
(* defined by recursion over an interval; sequences and their first items. *)
(***************************************************************************)
EXTENDS Integers, FiniteSetsExt, FiniteSetTheorems, SequenceTheorems,
        WellFoundedInduction, TLAPS

(* Largest and smallest members. *)

LEMMA MaxExists ==
    ASSUME NEW S, IsFiniteSet(S), \A x \in S : x \in Int, S # {}
    PROVE  /\ Max(S) \in S
           /\ \A y \in S : Max(S) >= y
<1> DEFINE Above(x) == {y \in S : y > x}
           Family == {Above(x) : x \in S}
           R == StrictSubsetOrdering(S)
           F == FiniteSubsetsOf(S)
<1>2. \A x \in S : Above(x) \in F
  BY FS_Subset DEF FiniteSubsetsOf
<1>3. IsWellFoundedOn(R, F)
  BY FS_StrictSubsetOrderingWellFounded
<1>4. PICK A \in Family : \A B \in Family : ~ (<<B, A>> \in R)
  <2> HIDE DEF R
  <2>1. Family \subseteq F /\ Family # {}
    BY <1>2
  <2> HIDE DEF Family, F
  <2>2. QED
    BY <1>3, <2>1, WFMin
<1>5. PICK x \in S : A = Above(x)
  OBVIOUS
<1>6. ASSUME NEW y \in S, y > x PROVE FALSE
  <2>1. \A z \in S : (z > y => z > x) /\ ~ (y > y)
    BY <1>6
  <2>2. Above(y) \subseteq Above(x) /\ y \in Above(x) /\ y \notin Above(y)
    <3> HIDE DEF Family, R, F
    <3>1. QED
      BY <1>6, <2>1
  <2>3. <<Above(y), A>> \in R
    BY <1>5, <2>2 DEF StrictSubsetOrdering
  <2>4. QED
    BY <1>4, <2>3
<1>7. \A y \in S : x >= y
  BY <1>6
<1>8. QED
  BY <1>7 DEF Max

LEMMA MinExists ==
    ASSUME NEW S, IsFiniteSet(S), \A x \in S : x \in Int, S # {}
    PROVE  /\ Min(S) \in S
           /\ \A y \in S : Min(S) =< y
<1> DEFINE Below(x) == {y \in S : y < x}
           Family == {Below(x) : x \in S}
           R == StrictSubsetOrdering(S)
           F == FiniteSubsetsOf(S)
<1>2. \A x \in S : Below(x) \in F
  BY FS_Subset DEF FiniteSubsetsOf
<1>3. IsWellFoundedOn(R, F)
  BY FS_StrictSubsetOrderingWellFounded
<1>4. PICK A \in Family : \A B \in Family : ~ (<<B, A>> \in R)
  <2> HIDE DEF R
  <2>1. Family \subseteq F /\ Family # {}
    BY <1>2
  <2> HIDE DEF Family, F
  <2>2. QED
    BY <1>3, <2>1, WFMin
<1>5. PICK x \in S : A = Below(x)
  OBVIOUS
<1>6. ASSUME NEW y \in S, y < x PROVE FALSE
  <2>1. \A z \in S : (z < y => z < x) /\ ~ (y < y)
    BY <1>6
  <2>2. Below(y) \subseteq Below(x) /\ y \in Below(x) /\ y \notin Below(y)
    <3> HIDE DEF Family, R, F
    <3>1. QED
      BY <1>6, <2>1
  <2>3. <<Below(y), A>> \in R
    BY <1>5, <2>2 DEF StrictSubsetOrdering
  <2>4. QED
    BY <1>4, <2>3
<1>7. \A y \in S : x =< y
  BY <1>6
<1>8. QED
  BY <1>7 DEF Min

LEMMA InInterval ==
    ASSUME NEW n \in Int, NEW S, S \subseteq 0 .. n, S # {}
    PROVE  Max(S) \in S /\ Min(S) \in S
<1>1. IsFiniteSet(0 .. n)
  BY FS_Interval
<1>2. IsFiniteSet(S)
  BY <1>1, FS_Subset
<1>3. \A x \in S : x \in Int
  OBVIOUS
<1>4. QED
  BY ONLY <1>2, <1>3, S # {}, MaxExists, MinExists

-----------------------------------------------------------------------------
(* Induction, with the property as a set. *)

(* A set with 0 and with the successor of each of its members below N has   *)
(* every number up to N.                                                    *)
LEMMA Climbs ==
    ASSUME NEW N \in Nat, NEW S, 0 \in S,
           \A n \in 0 .. N - 1 : n \in S => n + 1 \in S
    PROVE  \A n \in 0 .. N : n \in S
<1> SUFFICES ASSUME NEW n \in 0 .. N, n \notin S PROVE FALSE
  OBVIOUS
<1> DEFINE T == {k \in 0 .. N : k \notin S}
<1>1. T \subseteq 0 .. N /\ n \in T
  OBVIOUS
<1>2. IsFiniteSet(T) /\ T # {} /\ \A x \in T : x \in Int
  <2> HIDE DEF T
  <2>1. IsFiniteSet(0 .. N)
    BY FS_Interval
  <2>2. T \in SUBSET (0 .. N)
    BY <1>1
  <2>3. IsFiniteSet(T)
    BY ONLY <2>1, <2>2, FS_Subset
  <2>4. QED
    BY <1>1, <2>3
<1>3. Min(T) \in T /\ \A y \in T : Min(T) =< y
  <2> HIDE DEF T
  <2>1. QED
    BY <1>2, MinExists
<1> DEFINE m == Min(T)
<1>4. m \in 0 .. N /\ m \notin S /\ m # 0
  BY <1>3
<1>5. m - 1 \in 0 .. N - 1 /\ m - 1 + 1 = m /\ ~ (m =< m - 1)
  <2> HIDE DEF m
  <2>1. QED
    BY <1>4
<1>6. m - 1 \in T
  <2> SUFFICES m - 1 \in S => FALSE
    BY <1>5
  <2>1. QED
    BY <1>4, <1>5
<1>7. QED
  BY <1>3, <1>5, <1>6

(* What each step of a recursion over 0 .. N is computed with.              *)
Recurs(f, N, a, g) == f[0] = a /\ \A n \in 1 .. N : f[n] = g[<<f[n - 1], n>>]

(* A recursion over an interval defines a function.                         *)
LEMMA Recursion ==
    ASSUME NEW N \in Nat, NEW S, NEW a \in S, NEW g \in [S \X (1 .. N) -> S]
    PROVE  \E f \in [0 .. N -> S] : Recurs(f, N, a, g)
<1> DEFINE A == {n \in 0 .. N : \E f \in [0 .. n -> S] : Recurs(f, n, a, g)}
<1>1. 0 \in A
  <2> DEFINE f == [k \in 0 .. 0 |-> a]
  <2>1. f \in [0 .. 0 -> S] /\ Recurs(f, 0, a, g)
    BY DEF Recurs
  <2>2. QED
    BY <2>1
<1>2. ASSUME NEW n \in 0 .. N - 1, n \in A PROVE n + 1 \in A
  <2>1. PICK f \in [0 .. n -> S] : Recurs(f, n, a, g)
    BY <1>2
  <2> DEFINE h == [k \in 0 .. n + 1 |-> IF k <= n THEN f[k] ELSE g[<<f[n], n + 1>>]]
  <2>2. <<f[n], n + 1>> \in S \X (1 .. N)
    OBVIOUS
  <2>3. h \in [0 .. n + 1 -> S]
    BY <2>2
  <2>4. h[0] = a
    BY <2>1 DEF Recurs
  <2>5. ASSUME NEW k \in 1 .. n + 1 PROVE h[k] = g[<<h[k - 1], k>>]
    <3>1. CASE k <= n
      <4>1. k \in 1 .. n /\ k - 1 \in 0 .. n /\ k - 1 <= n /\ k - 1 \in 0 .. n + 1
        BY <3>1
      <4>2. h[k] = f[k] /\ h[k - 1] = f[k - 1]
        BY <3>1, <4>1
      <4>3. QED
        BY <2>1, <4>1, <4>2 DEF Recurs
    <3>2. CASE k = n + 1
      BY <3>2
    <3>3. QED
      BY <3>1, <3>2
  <2>6. Recurs(h, n + 1, a, g)
    <3> HIDE DEF h
    <3>1. QED
      BY <2>4, <2>5 DEF Recurs
  <2>7. QED
    <3> HIDE DEF h
    <3>1. QED
      BY <2>3, <2>6
<1>3. \A n \in 0 .. N - 1 : n \in A => n + 1 \in A
  BY <1>2
<1>4. N \in A
  <2> HIDE DEF A
  <2>1. \A n \in 0 .. N : n \in A
    BY <1>1, <1>3, Climbs
  <2>2. QED
    BY <2>1
<1>5. QED
  BY <1>4

-----------------------------------------------------------------------------
(* Sequences: the first items of one, and one behind another. *)

LEMMA Firsts ==
    ASSUME NEW S, NEW s \in Seq(S), NEW n \in 0 .. Len(s)
    PROVE  /\ SubSeq(s, 1, n) \in Seq(S) /\ Len(SubSeq(s, 1, n)) = n
           /\ \A i \in 1 .. n : SubSeq(s, 1, n)[i] = s[i]
BY SubSeqProperties, ElementOfSeq, LenProperties

LEMMA FirstsOfFirsts ==
    ASSUME NEW S, NEW s \in Seq(S), NEW n \in 0 .. Len(s), NEW i \in 0 .. n
    PROVE  SubSeq(SubSeq(s, 1, n), 1, i) = SubSeq(s, 1, i)
<1>1. Len(s) \in Nat
  BY LenProperties
<1>2. SubSeq(s, 1, n) \in Seq(S) /\ Len(SubSeq(s, 1, n)) = n /\ \A j \in 1 .. n : SubSeq(s, 1, n)[j] = s[j]
  BY Firsts
<1>3. SubSeq(s, 1, i) \in Seq(S) /\ Len(SubSeq(s, 1, i)) = i /\ \A j \in 1 .. i : SubSeq(s, 1, i)[j] = s[j]
  BY <1>1, Firsts
<1>4. /\ SubSeq(SubSeq(s, 1, n), 1, i) \in Seq(S) /\ Len(SubSeq(SubSeq(s, 1, n), 1, i)) = i
      /\ \A j \in 1 .. i : SubSeq(SubSeq(s, 1, n), 1, i)[j] = SubSeq(s, 1, n)[j]
  BY <1>2, Firsts
<1>5. QED
  BY <1>1, <1>2, <1>3, <1>4, SeqEqual

LEMMA FirstsAgree ==
    ASSUME NEW S, NEW s \in Seq(S), NEW t \in Seq(S), NEW n \in 0 .. Len(s), n <= Len(t),
           \A i \in 1 .. n : s[i] = t[i]
    PROVE  SubSeq(s, 1, n) = SubSeq(t, 1, n)
<1>1. Len(s) \in Nat /\ Len(t) \in Nat
  BY LenProperties
<1>2. SubSeq(s, 1, n) \in Seq(S) /\ Len(SubSeq(s, 1, n)) = n /\ \A i \in 1 .. n : SubSeq(s, 1, n)[i] = s[i]
  BY Firsts
<1>3. SubSeq(t, 1, n) \in Seq(S) /\ Len(SubSeq(t, 1, n)) = n /\ \A i \in 1 .. n : SubSeq(t, 1, n)[i] = t[i]
  <2>1. n \in 0 .. Len(t)
    BY <1>1
  <2>2. QED
    BY <2>1, Firsts
<1>4. QED
  BY <1>2, <1>3, SeqEqual

LEMMA Joined ==
    ASSUME NEW S, NEW s \in Seq(S), NEW t \in Seq(S)
    PROVE  /\ s \o t \in Seq(S) /\ Len(s \o t) = Len(s) + Len(t)
           /\ \A i \in 1 .. Len(s) : (s \o t)[i] = s[i]
           /\ \A i \in 1 .. Len(t) : (s \o t)[Len(s) + i] = t[i]
<1>1. Len(s) \in Nat /\ Len(t) \in Nat
  BY LenProperties
<1> DEFINE u == s \o t
<1>2. /\ u \in Seq(S) /\ Len(u) = Len(s) + Len(t)
      /\ \A i \in 1 .. Len(s) + Len(t) : u[i] = IF i <= Len(s) THEN s[i] ELSE t[i - Len(s)]
  BY ConcatProperties
<1> HIDE DEF u
<1>3. /\ \A i \in 1 .. Len(s) : u[i] = s[i]
      /\ \A i \in 1 .. Len(t) : u[Len(s) + i] = t[i]
  BY <1>1, <1>2
<1>4. QED
  BY <1>2, <1>3 DEF u

LEMMA Glued ==
    ASSUME NEW S, NEW s \in Seq(S), NEW t \in Seq(S), NEW u \in Seq(S),
           Len(u) = Len(s) + Len(t),
           \A i \in 1 .. Len(s) : u[i] = s[i],
           \A i \in 1 .. Len(t) : u[Len(s) + i] = t[i]
    PROVE  s \o t = u
<1> DEFINE v == s \o t
<1>1. Len(s) \in Nat /\ Len(t) \in Nat
  BY LenProperties
<1>2. /\ v \in Seq(S) /\ Len(v) = Len(s) + Len(t)
      /\ \A i \in 1 .. Len(s) : v[i] = s[i]
      /\ \A i \in 1 .. Len(t) : v[Len(s) + i] = t[i]
  BY Joined
<1> HIDE DEF v
<1>3. ASSUME NEW i \in 1 .. Len(v) PROVE v[i] = u[i]
  <2>1. i \in 1 .. Len(s) \/ (i - Len(s) \in 1 .. Len(t) /\ Len(s) + (i - Len(s)) = i)
    BY <1>1, <1>2
  <2>2. QED
    BY <1>2, <2>1
<1>4. v = u
  BY <1>2, <1>3, SeqEqual
<1>5. QED
  BY <1>4 DEF v

LEMMA FunIsSeq ==
    ASSUME NEW S, NEW n \in Nat, NEW f \in [1 .. n -> S]
    PROVE  f \in Seq(S) /\ Len(f) = n
<1>1. f \in Seq(S)
  BY SeqDef
<1>2. Len(f) \in Nat /\ DOMAIN f = 1 .. Len(f) /\ DOMAIN f = 1 .. n
  BY <1>1, LenProperties
<1>3. QED
  BY <1>1, <1>2
=============================================================================
