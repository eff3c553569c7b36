----------------------------- MODULE ForwardProofs -----------------------------
(***************************************************************************)
(* What is proved about the forward pass: where the bound weights lie, that *)
(* the work buffer holds every region of every step, what a pass may fail   *)
(* for, that the sampler draws what its options keep, what the carried      *)
(* state stands for, and that a pass answers as the model does.             *)
(***************************************************************************)
EXTENDS Forward, Facts

-----------------------------------------------------------------------------
(* A recursion over numbers. *)

(* A sum of sizes, one after another.                                       *)
Added(f, s) == f = [i \in 0 .. Len(s) |-> IF i = 0 THEN 0 ELSE f[i - 1] + s[i]]

LEMMA SumSteps ==
    ASSUME NEW s \in Seq(Nat)
    PROVE  \E f \in [0 .. Len(s) -> Nat] :
             /\ f[0] = 0 /\ \A i \in 1 .. Len(s) : f[i] = f[i - 1] + s[i]
             /\ Sum(s) = f[Len(s)]
<1> DEFINE N == Len(s)
           g == [q \in Nat \X (1 .. N) |-> q[1] + s[q[2]]]
<1>1. N \in Nat /\ \A i \in 1 .. N : s[i] \in Nat
  BY LenProperties, ElementOfSeq
<1>2. g \in [Nat \X (1 .. N) -> Nat]
  <2>1. ASSUME NEW q \in Nat \X (1 .. N) PROVE q[1] + s[q[2]] \in Nat
    <3>1. q[1] \in Nat /\ q[2] \in 1 .. N
      OBVIOUS
    <3>2. QED
      BY <1>1, <3>1
  <2>2. QED
    BY <2>1
<1>3. PICK f \in [0 .. N -> Nat] : Recurs(f, N, 0, g)
  <2> HIDE DEF g, N
  <2>1. QED
    BY <1>1, <1>2, Recursion
<1>4. f[0] = 0 /\ \A i \in 1 .. N : f[i] = f[i - 1] + s[i]
  <2>1. ASSUME NEW i \in 1 .. N PROVE f[i] = f[i - 1] + s[i]
    <3>1. i - 1 \in 0 .. N /\ <<f[i - 1], i>> \in Nat \X (1 .. N)
      <4> HIDE DEF g, N
      <4>1. i \in 1 .. N /\ i - 1 \in 0 .. N
        BY <1>1
      <4>2. f[i - 1] \in Nat
        BY <1>3, <4>1
      <4>3. QED
        BY <4>1, <4>2
    <3>2. f[i] = g[<<f[i - 1], i>>]
      <4> HIDE DEF g
      <4>1. QED
        BY <1>3 DEF Recurs
    <3>3. QED
      BY <3>1, <3>2
  <2>2. QED
    BY <1>3, <2>1 DEF Recurs
<1>5. Added(f, s)
  <2>1. ASSUME NEW i \in 0 .. N PROVE f[i] = IF i = 0 THEN 0 ELSE f[i - 1] + s[i]
    <3>1. i # 0 => i \in 1 .. N
      BY <1>1
    <3>2. QED
      BY <1>4, <3>1
  <2>2. QED
    BY <1>1, <2>1 DEF Added
<1> DEFINE G == CHOOSE x : Added(x, s)
<1>6. Added(G, s) /\ Sum(s) = G[N]
  BY <1>5 DEF Sum, Added
<1> HIDE DEF G
<1>7. G[0] = 0 /\ \A i \in 1 .. N : G[i] = G[i - 1] + s[i]
  <2>1. \A i \in 0 .. N : G[i] = IF i = 0 THEN 0 ELSE G[i - 1] + s[i]
    BY <1>6 DEF Added
  <2>2. 0 \in 0 .. N /\ \A i \in 1 .. N : i \in 0 .. N /\ i # 0
    BY <1>1
  <2>3. QED
    BY <2>1, <2>2
<1>8. \A i \in 0 .. N : i \in {k \in 0 .. N : G[k] \in Nat}
  <2> DEFINE A == {k \in 0 .. N : G[k] \in Nat}
  <2>1. 0 \in A
    BY <1>1, <1>7
  <2>2. ASSUME NEW k \in 0 .. N - 1, k \in A PROVE k + 1 \in A
    <3>1. k + 1 \in 1 .. N /\ k + 1 - 1 = k
      BY <1>1
    <3>2. G[k + 1] = G[k] + s[k + 1]
      BY <1>7, <3>1
    <3>3. QED
      BY <1>1, <2>2, <3>1, <3>2
  <2> HIDE DEF A
  <2>3. \A i \in 0 .. N : i \in A
    BY <1>1, <2>1, <2>2, Climbs
  <2>4. QED
    BY <2>3 DEF A
<1>9. G \in [0 .. N -> Nat]
  <2>1. G = [i \in 0 .. N |-> G[i]]
    BY <1>6 DEF Added
  <2>2. QED
    BY <1>8, <2>1
<1>10. QED
  BY <1>6, <1>7, <1>9

LEMMA SumOfEight ==
    ASSUME NEW s \in Seq(Nat), Len(s) = 8
    PROVE  Sum(s) = s[1] + s[2] + s[3] + s[4] + s[5] + s[6] + s[7] + s[8]
<1>1. PICK f \in [0 .. 8 -> Nat] : f[0] = 0 /\ (\A i \in 1 .. 8 : f[i] = f[i - 1] + s[i]) /\ Sum(s) = f[8]
  BY SumSteps
<1>2. /\ f[1] = f[0] + s[1]
      /\ f[2] = f[1] + s[2]
      /\ f[3] = f[2] + s[3]
      /\ f[4] = f[3] + s[4]
      /\ f[5] = f[4] + s[5]
      /\ f[6] = f[5] + s[6]
      /\ f[7] = f[6] + s[7]
      /\ f[8] = f[7] + s[8]
  BY <1>1
<1>3. \A i \in 1 .. 8 : s[i] \in Nat
  <2>1. s \in [1 .. 8 -> Nat]
    BY LenProperties
  <2>2. QED
    BY <2>1
<1>4. QED
  BY <1>1, <1>2, <1>3

LEMMA SumOfTen ==
    ASSUME NEW s \in Seq(Nat), Len(s) = 10
    PROVE  Sum(s) = s[1] + s[2] + s[3] + s[4] + s[5] + s[6] + s[7] + s[8] + s[9] + s[10]
<1>1. PICK f \in [0 .. 10 -> Nat] : f[0] = 0 /\ (\A i \in 1 .. 10 : f[i] = f[i - 1] + s[i]) /\ Sum(s) = f[10]
  BY SumSteps
<1>2. /\ f[1] = f[0] + s[1]
      /\ f[2] = f[1] + s[2]
      /\ f[3] = f[2] + s[3]
      /\ f[4] = f[3] + s[4]
      /\ f[5] = f[4] + s[5]
      /\ f[6] = f[5] + s[6]
      /\ f[7] = f[6] + s[7]
      /\ f[8] = f[7] + s[8]
      /\ f[9] = f[8] + s[9]
      /\ f[10] = f[9] + s[10]
  BY <1>1
<1>3. \A i \in 1 .. 10 : s[i] \in Nat
  <2>1. s \in [1 .. 10 -> Nat]
    BY LenProperties
  <2>2. QED
    BY <2>1
<1>4. QED
  BY <1>1, <1>2, <1>3

LEMMA SumOfThree ==
    ASSUME NEW a1 \in Nat, NEW a2 \in Nat, NEW a3 \in Nat
    PROVE  Sum(<<a1, a2, a3>>) = a1 + a2 + a3
<1> DEFINE s == <<a1, a2, a3>>
<1>1. s \in Seq(Nat) /\ Len(s) = 3
  OBVIOUS
<1>2. s[1] = a1 /\ s[2] = a2 /\ s[3] = a3
  OBVIOUS
<1> HIDE DEF s
<1>3. PICK f \in [0 .. 3 -> Nat] : f[0] = 0 /\ (\A i \in 1 .. 3 : f[i] = f[i - 1] + s[i]) /\ Sum(s) = f[3]
  BY <1>1, SumSteps
<1>4. f[1] = f[0] + a1 /\ f[2] = f[1] + a2 /\ f[3] = f[2] + a3
  BY <1>2, <1>3
<1>5. f[3] = a1 + a2 + a3
  BY <1>3, <1>4
<1>6. QED
  BY <1>3, <1>5 DEF s

-----------------------------------------------------------------------------
(* Where the regions of a blob and of a widen area lie. *)

(* A size, or none. *)
Extent == Nat \cup {Nowhere}

EndsRun(f, s) ==
    f = [i \in 0 .. Len(s) |->
            IF i = 0 THEN 0
            ELSE IF s[i] = Nowhere THEN f[i - 1] ELSE align8(f[i - 1]) + s[i]]

LEMMA Aligns ==
    ASSUME NEW x \in Nat
    PROVE  align8(x) \in Nat /\ align8(x) >= x /\ align8(x) % 8 = 0
BY DEF align8

LEMMA EndsSteps ==
    ASSUME NEW s \in Seq(Extent)
    PROVE  /\ Ends(s) \in [0 .. Len(s) -> Nat]
           /\ Ends(s)[0] = 0
           /\ \A i \in 1 .. Len(s) :
                /\ s[i] = Nowhere => Ends(s)[i] = Ends(s)[i - 1]
                /\ s[i] # Nowhere => Ends(s)[i] = align8(Ends(s)[i - 1]) + s[i]
<1> DEFINE N == Len(s)
           g == [q \in Nat \X (1 .. N) |->
                    IF s[q[2]] = Nowhere THEN q[1] ELSE align8(q[1]) + s[q[2]]]
<1>1. N \in Nat /\ \A i \in 1 .. N : s[i] \in Extent /\ (s[i] # Nowhere => s[i] \in Nat)
  BY LenProperties, ElementOfSeq DEF Extent
<1>2. g \in [Nat \X (1 .. N) -> Nat]
  <2>1. ASSUME NEW q \in Nat \X (1 .. N)
        PROVE  (IF s[q[2]] = Nowhere THEN q[1] ELSE align8(q[1]) + s[q[2]]) \in Nat
    <3>1. q[1] \in Nat /\ q[2] \in 1 .. N
      OBVIOUS
    <3>2. align8(q[1]) \in Nat
      BY <3>1, Aligns
    <3>3. QED
      BY <1>1, <3>1, <3>2
  <2>2. QED
    BY <2>1
<1>3. PICK f \in [0 .. N -> Nat] : Recurs(f, N, 0, g)
  <2> HIDE DEF g, N
  <2>1. QED
    BY <1>1, <1>2, Recursion
<1>4. f[0] = 0 /\ \A i \in 1 .. N : f[i] = IF s[i] = Nowhere THEN f[i - 1] ELSE align8(f[i - 1]) + s[i]
  <2>1. ASSUME NEW i \in 1 .. N
        PROVE  f[i] = IF s[i] = Nowhere THEN f[i - 1] ELSE align8(f[i - 1]) + s[i]
    <3>1. i - 1 \in 0 .. N /\ <<f[i - 1], i>> \in Nat \X (1 .. N)
      <4> HIDE DEF g, N
      <4>1. i \in 1 .. N /\ i - 1 \in 0 .. N
        BY <1>1
      <4>2. f[i - 1] \in Nat
        BY <1>3, <4>1
      <4>3. QED
        BY <4>1, <4>2
    <3>2. f[i] = g[<<f[i - 1], i>>]
      <4> HIDE DEF g
      <4>1. QED
        BY <1>3 DEF Recurs
    <3>3. QED
      BY <3>1, <3>2
  <2>2. QED
    BY <1>3, <2>1 DEF Recurs
<1>5. EndsRun(f, s)
  <2>1. ASSUME NEW i \in 0 .. N
        PROVE  f[i] = IF i = 0 THEN 0
                      ELSE IF s[i] = Nowhere THEN f[i - 1] ELSE align8(f[i - 1]) + s[i]
    <3>1. i # 0 => i \in 1 .. N
      BY <1>1
    <3>2. QED
      BY <1>4, <3>1
  <2>2. QED
    BY <1>1, <2>1 DEF EndsRun
<1> DEFINE G == CHOOSE x : EndsRun(x, s)
<1>6. EndsRun(G, s) /\ Ends(s) = G
  BY <1>5 DEF Ends, EndsRun
<1> HIDE DEF G
<1>7. G[0] = 0 /\ \A i \in 1 .. N : G[i] = IF s[i] = Nowhere THEN G[i - 1] ELSE align8(G[i - 1]) + s[i]
  <2>1. \A i \in 0 .. N : G[i] = IF i = 0 THEN 0
                                 ELSE IF s[i] = Nowhere THEN G[i - 1] ELSE align8(G[i - 1]) + s[i]
    BY <1>6 DEF EndsRun
  <2>2. 0 \in 0 .. N /\ \A i \in 1 .. N : i \in 0 .. N /\ i # 0
    BY <1>1
  <2>3. QED
    BY <2>1, <2>2
<1>8. \A i \in 0 .. N : i \in {k \in 0 .. N : G[k] \in Nat}
  <2> DEFINE A == {k \in 0 .. N : G[k] \in Nat}
  <2>1. 0 \in A
    BY <1>1, <1>7
  <2>2. ASSUME NEW k \in 0 .. N - 1, k \in A PROVE k + 1 \in A
    <3>1. k + 1 \in 1 .. N /\ k + 1 - 1 = k
      BY <1>1
    <3>2. G[k + 1] = IF s[k + 1] = Nowhere THEN G[k] ELSE align8(G[k]) + s[k + 1]
      BY <1>7, <3>1
    <3>3. align8(G[k]) \in Nat
      BY <2>2, Aligns
    <3>4. QED
      BY <1>1, <2>2, <3>1, <3>2, <3>3
  <2> HIDE DEF A
  <2>3. \A i \in 0 .. N : i \in A
    BY <1>1, <2>1, <2>2, Climbs
  <2>4. QED
    BY <2>3 DEF A
<1>9. G \in [0 .. N -> Nat]
  <2>1. G = [i \in 0 .. N |-> G[i]]
    BY <1>6 DEF EndsRun
  <2>2. QED
    BY <1>8, <2>1
<1>10. QED
  BY <1>6, <1>7, <1>9

(* The ends rise.                                                           *)
LEMMA EndsRise ==
    ASSUME NEW s \in Seq(Extent), NEW i \in 0 .. Len(s), NEW j \in i .. Len(s)
    PROVE  Ends(s)[i] <= Ends(s)[j]
<1> DEFINE N == Len(s)
           E == Ends(s)
           A == {k \in 0 .. N - i : E[i] <= E[i + k]}
<1>1. N \in Nat /\ \A k \in 1 .. N : s[k] # Nowhere => s[k] \in Nat
  BY LenProperties, ElementOfSeq DEF Extent
<1>2. /\ E \in [0 .. N -> Nat]
      /\ \A k \in 1 .. N : /\ s[k] = Nowhere => E[k] = E[k - 1]
                           /\ s[k] # Nowhere => E[k] = align8(E[k - 1]) + s[k]
  BY EndsSteps
<1> HIDE DEF E, N
<1>3. \A k \in 1 .. N : E[k - 1] <= E[k]
  <2> SUFFICES ASSUME NEW k \in 1 .. N PROVE E[k - 1] <= E[k]
    OBVIOUS
  <2>0. k \in 0 .. N /\ k - 1 \in 0 .. N
    BY <1>1
  <2>1. E[k - 1] \in Nat /\ E[k] \in Nat
    BY <1>2, <2>0
  <2>2. align8(E[k - 1]) \in Nat /\ align8(E[k - 1]) >= E[k - 1]
    BY <2>1, Aligns
  <2>3. CASE s[k] = Nowhere
    <3>1. E[k] = E[k - 1]
      BY <1>2, <2>3
    <3>2. QED
      BY <2>1, <3>1
  <2>4. CASE s[k] # Nowhere
    <3>1. E[k] = align8(E[k - 1]) + s[k] /\ s[k] \in Nat
      BY <1>1, <1>2, <2>4
    <3>2. QED
      BY <2>1, <2>2, <3>1
  <2>5. QED
    BY <2>3, <2>4
<1>4. i \in 0 .. N /\ j \in i .. N /\ N - i \in Nat
  BY <1>1 DEF N
<1>5. 0 \in A
  BY <1>1, <1>2, <1>4
<1>6. ASSUME NEW k \in 0 .. (N - i) - 1, k \in A PROVE k + 1 \in A
  <2>1. i + (k + 1) \in 1 .. N /\ i + (k + 1) - 1 = i + k /\ k + 1 \in 0 .. N - i /\ i + k \in 0 .. N
    BY <1>1, <1>4
  <2>2. E[i + k] <= E[i + (k + 1)]
    BY <1>3, <2>1
  <2>3. E[i] \in Nat /\ E[i + k] \in Nat /\ E[i + (k + 1)] \in Nat
    <3>1. i \in 0 .. N /\ i + (k + 1) \in 0 .. N /\ i + k \in 0 .. N
      BY <1>4, <2>1
    <3>2. QED
      BY <1>2, <3>1
  <2>4. QED
    BY <1>6, <2>1, <2>2, <2>3
<1>7. \A k \in 0 .. N - i : k \in A
  <2> HIDE DEF A
  <2>1. QED
    BY <1>4, <1>5, <1>6, Climbs
<1>8. j - i \in 0 .. N - i /\ i + (j - i) = j
  BY <1>1, <1>4
<1>9. QED
  BY <1>7, <1>8 DEF E

(* A region lies on eight bytes, within the end of all, and apart from      *)
(* those before it.                                                         *)
LEMMA Apart ==
    ASSUME NEW s \in Seq(Extent), NEW j \in 1 .. Len(s), s[j] # Nowhere
    PROVE  /\ s[j] \in Nat /\ Ends(s)[j] - s[j] \in Nat
           /\ (Ends(s)[j] - s[j]) % 8 = 0
           /\ Ends(s)[j] <= Ends(s)[Len(s)]
           /\ \A i \in 1 .. j - 1 : Ends(s)[i] <= Ends(s)[j] - s[j]
<1> DEFINE E == Ends(s)
<1>1. Len(s) \in Nat /\ s[j] \in Nat
  BY LenProperties, ElementOfSeq DEF Extent
<1>2. j \in 0 .. Len(s) /\ j - 1 \in 0 .. Len(s) /\ Len(s) \in j .. Len(s)
  BY <1>1
<1>3. E \in [0 .. Len(s) -> Nat] /\ E[j] = align8(E[j - 1]) + s[j]
  BY EndsSteps
<1>4. E[j] <= E[Len(s)]
  BY <1>2, EndsRise
<1>5. ASSUME NEW i \in 1 .. j - 1 PROVE E[i] <= E[j - 1]
  <2>1. i \in 0 .. Len(s) /\ j - 1 \in i .. Len(s)
    BY <1>1, <1>2
  <2>2. QED
    BY <2>1, EndsRise
<1> HIDE DEF E
<1>6. E[j - 1] \in Nat
  BY <1>2, <1>3
<1>7. align8(E[j - 1]) \in Nat /\ align8(E[j - 1]) >= E[j - 1] /\ align8(E[j - 1]) % 8 = 0
  BY <1>6, Aligns
<1>8. E[j] - s[j] = align8(E[j - 1])
  BY <1>1, <1>3, <1>7
<1>9. ASSUME NEW i \in 1 .. j - 1 PROVE E[i] <= E[j] - s[j]
  <2>1. i \in 0 .. Len(s)
    BY <1>1, <1>2
  <2>2. E[i] \in Nat
    BY <1>3, <2>1
  <2>3. QED
    BY <1>5, <1>6, <1>7, <1>8, <2>2
<1>10. QED
  BY <1>1, <1>4, <1>7, <1>8, <1>9 DEF E

(* What is laid out by its ends lies apart, on eight bytes and inside.      *)
LEMMA DestLaidOut ==
    ASSUME NEW s \in Seq(Extent), NEW p, DOMAIN p = 1 .. Len(s), NEW bound,
           \A i \in 1 .. Len(s) : bound[i].at # "run" =>
               s[i] # Nowhere /\ bound[i].off = Ends(s)[i] - s[i] /\ bound[i].len = s[i],
           NEW b, b.dest = ByName(p, bound), b.cap \in Nat, Ends(s)[Len(s)] <= b.cap
    PROVE  LaidOut(b)
<1> DEFINE E == Ends(s)
           At(name) == CHOOSE i \in DOMAIN p : p[i].name = name
<1>1. Len(s) \in Nat /\ E \in [0 .. Len(s) -> Nat]
  BY LenProperties, EndsSteps
<1>2. ASSUME NEW m \in DOMAIN b.dest
      PROVE  At(m) \in 1 .. Len(s) /\ p[At(m)].name = m /\ b.dest[m] = bound[At(m)]
  BY <1>2 DEF ByName
<1> HIDE DEF At
<1>3. ASSUME NEW m \in DOMAIN b.dest, b.dest[m].at # "run"
      PROVE  LET d == b.dest[m] IN
             /\ d.len \in Nat /\ d.off \in Nat /\ d.off % 8 = 0
             /\ d.off + d.len = E[At(m)] /\ d.off + d.len <= b.cap
             /\ \A i \in 1 .. At(m) - 1 : E[i] <= d.off
  <2> DEFINE j == At(m)
             d == b.dest[m]
  <2>1. j \in 1 .. Len(s) /\ d = bound[j]
    BY <1>2
  <2>2. s[j] # Nowhere /\ d.off = E[j] - s[j] /\ d.len = s[j]
    BY <1>3, <2>1
  <2>3. /\ s[j] \in Nat /\ E[j] - s[j] \in Nat /\ (E[j] - s[j]) % 8 = 0
        /\ E[j] <= E[Len(s)] /\ \A i \in 1 .. j - 1 : E[i] <= E[j] - s[j]
    BY <2>1, <2>2, Apart
  <2>4. E[j] \in Nat /\ E[Len(s)] \in Nat
    <3>1. j \in 0 .. Len(s) /\ Len(s) \in 0 .. Len(s)
      BY <1>1, <2>1
    <3>2. QED
      BY <1>1, <3>1
  <2>5. E[Len(s)] <= b.cap
    OBVIOUS
  <2> HIDE DEF d, E, j
  <2>6. /\ d.len \in Nat /\ d.off \in Nat /\ d.off % 8 = 0
        /\ d.off + d.len = E[j] /\ d.off + d.len <= b.cap
        /\ \A i \in 1 .. j - 1 : E[i] <= d.off
    <3>1. d.len \in Nat /\ d.off \in Nat /\ d.off % 8 = 0
      BY <2>2, <2>3
    <3>2. d.off + d.len = E[j]
      BY <2>2, <2>3, <2>4
    <3>3. d.off + d.len <= b.cap
      BY <2>3, <2>4, <2>5, <3>2
    <3>4. \A i \in 1 .. j - 1 : E[i] <= d.off
      BY <2>2, <2>3
    <3>5. QED
      BY <3>1, <3>2, <3>3, <3>4
  <2>7. QED
    BY <2>6 DEF d, j
<1>4. ASSUME NEW m \in DOMAIN b.dest, NEW n \in DOMAIN b.dest,
             b.dest[m].at # "run", b.dest[n].at # "run", m # n
      PROVE  \/ b.dest[m].off + b.dest[m].len <= b.dest[n].off
             \/ b.dest[n].off + b.dest[n].len <= b.dest[m].off
  <2>1. At(m) \in 1 .. Len(s) /\ At(n) \in 1 .. Len(s) /\ At(m) # At(n)
    BY <1>2, <1>4
  <2>2. At(m) \in 1 .. At(n) - 1 \/ At(n) \in 1 .. At(m) - 1
    BY <1>1, <2>1
  <2>3. CASE At(m) \in 1 .. At(n) - 1
    BY <1>3, <1>4, <2>3
  <2>4. CASE At(n) \in 1 .. At(m) - 1
    BY <1>3, <1>4, <2>4
  <2>5. QED
    BY <2>2, <2>3, <2>4
<1>5. QED
  BY <1>3, <1>4 DEF LaidOut

-----------------------------------------------------------------------------
(* Plans. *)

(* The tensors that are read by element. *)
Vectors == {"in_norm", "post_norm", "attn_res_norm", "attn_res_proj", "mlp_res_norm",
            "mlp_res_proj", "q_a_norm", "kv_a_norm", "q_conv", "k_conv", "v_conv", "A_log",
            "dt_bias", "o_norm", "gate", "bias", "latent_norm", "norm", "out_res_norm",
            "out_res_proj"}

Request == [name : Matrices \cup Vectors, narrow : BOOLEAN, want : Nat, take : Nat]

(* The matrices, and nothing else, are asked for as they are on disk.       *)
Planned == {q \in Request : q.narrow <=> q.name \in Matrices}

LEMMA PlannedAre ==
    ASSUME NEW plan \in Seq(Planned)
    PROVE  plan \in Seq(Request)
<1>1. plan \in [1 .. Len(plan) -> Request] /\ Len(plan) \in Nat
  BY LenProperties DEF Planned
<1>2. QED
  BY <1>1, SeqDef

LEMMA ResolvedIsPlan ==
    ASSUME NEW tensors, NEW plan \in Seq(Request)
    PROVE  /\ Resolved(tensors, plan) \in Seq(Request)
           /\ Len(Resolved(tensors, plan)) = Len(plan)
           /\ \A i \in 1 .. Len(plan) : Resolved(tensors, plan)[i].name = plan[i].name
<1>1. Len(plan) \in Nat /\ DOMAIN plan = 1 .. Len(plan) /\ \A i \in 1 .. Len(plan) : plan[i] \in Request
  BY LenProperties, ElementOfSeq
<1> DEFINE wide == [i \in 1 .. Len(plan) |-> [plan[i] EXCEPT !.narrow = FALSE]]
<1>2. AllWide(plan) = wide
  BY <1>1 DEF AllWide
<1>3. \A i \in 1 .. Len(plan) : [plan[i] EXCEPT !.narrow = FALSE] \in Request
                                /\ [plan[i] EXCEPT !.narrow = FALSE].name = plan[i].name
  BY <1>1 DEF Request
<1>4. wide \in [1 .. Len(plan) -> Request]
  BY <1>3
<1>5. wide \in Seq(Request) /\ Len(wide) = Len(plan)
  <2> HIDE DEF wide
  <2>1. QED
    BY <1>1, <1>4, FunIsSeq
<1>6. \A i \in 1 .. Len(plan) : wide[i].name = plan[i].name
  BY <1>3
<1> HIDE DEF wide
<1>7. QED
  BY <1>2, <1>5, <1>6 DEF Resolved

(* Resident weights lie apart.                                              *)
LEMMA ResidentLaidOut ==
    ASSUME NEW tensors, NEW plan \in Seq(Request), bind_resident(tensors, plan).ok
    PROVE  LaidOut(bind_resident(tensors, plan))
<1> DEFINE p == Resolved(tensors, plan)
           size == [i \in DOMAIN p |-> p[i].take * elem(p[i])]
           bound == [i \in DOMAIN p |->
                        [as |-> IF p[i].narrow THEN "BF16" ELSE "F32",
                         from |-> tensors[p[i].name].dt, at |-> "blob",
                         off |-> Ends(size)[i] - size[i], len |-> size[i]]]
           b == bind_resident(tensors, plan)
<1>1. p \in Seq(Request) /\ Len(p) \in Nat /\ DOMAIN p = 1 .. Len(p)
  BY ResolvedIsPlan, LenProperties
<1>2. b.dest = ByName(p, bound) /\ b.cap = Ends(size)[Len(p)]
  BY DEF bind_resident, Refused
<1> HIDE DEF p, b
<1>3. size \in [1 .. Len(p) -> Extent]
  <2>1. ASSUME NEW i \in 1 .. Len(p) PROVE p[i].take * elem(p[i]) \in Extent
    <3>1. p[i] \in Request
      BY <1>1, ElementOfSeq
    <3>2. p[i].take \in Nat /\ elem(p[i]) \in {2, 4}
      BY <3>1 DEF Request, elem
    <3>3. QED
      BY <3>2 DEF Extent
  <2>2. QED
    BY <1>1, <2>1
<1>4. \A i \in 1 .. Len(p) : size[i] # Nowhere
  <2>1. ASSUME NEW i \in 1 .. Len(p) PROVE p[i].take * elem(p[i]) # Nowhere
    <3>1. p[i] \in Request
      BY <1>1, ElementOfSeq
    <3>2. p[i].take \in Nat /\ elem(p[i]) \in {2, 4}
      BY <3>1 DEF Request, elem
    <3>3. QED
      BY <3>2 DEF Nowhere
  <2>2. QED
    BY <1>1, <2>1
<1>5. \A i \in 1 .. Len(p) : bound[i].off = Ends(size)[i] - size[i] /\ bound[i].len = size[i]
  BY <1>1
<1> HIDE DEF bound, size
<1>6. size \in Seq(Extent) /\ Len(size) = Len(p)
  BY <1>1, <1>3, FunIsSeq
<1>7. Ends(size)[Len(size)] \in Nat
  <2>1. Ends(size) \in [0 .. Len(size) -> Nat] /\ Len(size) \in 0 .. Len(size)
    BY <1>1, <1>6, EndsSteps
  <2>2. QED
    BY <2>1
<1>8. b.cap \in Nat /\ Ends(size)[Len(size)] <= b.cap
  BY <1>2, <1>6, <1>7
<1>9. LaidOut(b)
  <2>1. DOMAIN p = 1 .. Len(size)
    BY <1>1, <1>6
  <2>2. \A i \in 1 .. Len(size) : bound[i].at # "run" =>
          size[i] # Nowhere /\ bound[i].off = Ends(size)[i] - size[i] /\ bound[i].len = size[i]
    BY <1>4, <1>5, <1>6
  <2>3. QED
    BY <1>2, <1>6, <1>8, <2>1, <2>2, DestLaidOut
<1>10. QED
  BY <1>9 DEF b

(* Widened vectors of a packed layer lie apart.                             *)
LEMMA PackedLaidOut ==
    ASSUME NEW m, NEW n, NEW tensors, plan_layer(m, n) \in Seq(Request), widen_bytes(m) \in Nat,
           bind_layer_mem(m, n, tensors).ok
    PROVE  LaidOut(bind_layer_mem(m, n, tensors))
<1> DEFINE p == plan_layer(m, n)
           t(i) == tensors[p[i].name]
           size == [i \in DOMAIN p |-> IF InPlace(t(i), p[i]) THEN Nowhere ELSE p[i].take * 4]
           bound == [i \in DOMAIN p |->
            IF size[i] = Nowhere
            THEN [as |-> t(i).dt, from |-> t(i).dt, at |-> "run", off |-> 0, len |-> 0]
            ELSE [as |-> "F32", from |-> t(i).dt, at |-> "widen",
                  off |-> Ends(size)[i] - size[i], len |-> size[i]]]
           b == bind_layer_mem(m, n, tensors)
<1>1. p \in Seq(Request) /\ Len(p) \in Nat /\ DOMAIN p = 1 .. Len(p)
  BY LenProperties
<1>2. b.dest = ByName(p, bound) /\ b.cap = widen_bytes(m) /\ ~ (Ends(size)[Len(p)] > widen_bytes(m))
  BY DEF bind_layer_mem, Refused
<1> HIDE DEF p, b
<1>3. size \in [1 .. Len(p) -> Extent]
  <2>1. ASSUME NEW i \in 1 .. Len(p)
        PROVE  (IF InPlace(t(i), p[i]) THEN Nowhere ELSE p[i].take * 4) \in Extent
    <3>1. p[i] \in Request
      BY <1>1, ElementOfSeq
    <3>2. p[i].take \in Nat
      BY <3>1 DEF Request
    <3>3. QED
      BY <3>2 DEF Extent
  <2>2. QED
    BY <1>1, <2>1
<1>4. \A i \in 1 .. Len(p) : bound[i].at # "run" =>
          size[i] # Nowhere /\ bound[i].off = Ends(size)[i] - size[i] /\ bound[i].len = size[i]
  <2> HIDE DEF size, t
  <2>1. QED
    BY <1>1
<1> HIDE DEF bound, size
<1>5. size \in Seq(Extent) /\ Len(size) = Len(p)
  BY <1>1, <1>3, FunIsSeq
<1>6. Ends(size)[Len(size)] \in Nat
  <2>1. Ends(size) \in [0 .. Len(size) -> Nat] /\ Len(size) \in 0 .. Len(size)
    BY <1>1, <1>5, EndsSteps
  <2>2. QED
    BY <2>1
<1>7. b.cap \in Nat /\ Ends(size)[Len(size)] <= b.cap
  BY <1>2, <1>5, <1>6
<1>8. LaidOut(b)
  <2>1. DOMAIN p = 1 .. Len(size)
    BY <1>1, <1>5
  <2>2. \A i \in 1 .. Len(size) : bound[i].at # "run" =>
          size[i] # Nowhere /\ bound[i].off = Ends(size)[i] - size[i] /\ bound[i].len = size[i]
    BY <1>4, <1>5
  <2>3. QED
    BY <1>2, <1>5, <1>7, <2>1, <2>2, DestLaidOut
<1>9. QED
  BY <1>8 DEF b

(* The sizes of a config are numbers; the loader itself looks at some of    *)
(* them only.  There may be fewer than no dense layers.                     *)
Sizes == DOMAIN Needed \ (Floats \cup {"first_dense"})
Sized(m) == \A f \in Sizes : m[f] \in Nat
NaturalSizes == \A j \in Jobs : k3_cfg_load(j.doc).ok => Sized(k3_cfg_load(j.doc).c)

(* What a config's sizes are.                                               *)
LEMMA SizesAre ==
    ASSUME NEW m, Sized(m)
    PROVE  /\ m.hidden \in Nat /\ m.n_layers \in Nat /\ m.vocab \in Nat /\ m.kda_heads \in Nat
           /\ m.kda_head_dim \in Nat /\ m.conv_k \in Nat /\ m.n_heads \in Nat /\ m.q_lora \in Nat
           /\ m.kv_lora \in Nat /\ m.qk_nope \in Nat /\ m.qk_rope \in Nat /\ m.v_head \in Nat
           /\ m.n_experts \in Nat /\ m.topk \in Nat /\ m.n_shared \in Nat /\ m.latent \in Nat
           /\ m.moe_inter \in Nat /\ m.dense_inter \in Nat /\ m.attn_res_block \in Nat
BY DEF Sized, Sizes, Needed, Floats

LEMMA Products ==
    ASSUME NEW a \in Nat, NEW b \in Nat
    PROVE  a * b \in Nat
OBVIOUS

LEMMA NormsArePlan ==
    ASSUME NEW m, Sized(m)
    PROVE  Norms(m) \in Seq(Planned)
<1>1. m.hidden \in Nat
  BY SizesAre
<1>2. /\ reqw("in_norm", m.hidden) \in Planned /\ reqw("post_norm", m.hidden) \in Planned
      /\ reqw("attn_res_norm", m.hidden) \in Planned /\ reqw("attn_res_proj", m.hidden) \in Planned
      /\ reqw("mlp_res_norm", m.hidden) \in Planned /\ reqw("mlp_res_proj", m.hidden) \in Planned
  BY <1>1 DEF reqw, reqn, req, Planned, Request, Matrices, Vectors
<1>3. QED
  BY <1>2 DEF Norms

LEMMA MlaIsPlan ==
    ASSUME NEW m, Sized(m)
    PROVE  Mla(m) \in Seq(Planned)
<1>1. /\ m.hidden \in Nat /\ m.n_heads \in Nat /\ m.q_lora \in Nat /\ m.kv_lora \in Nat
      /\ m.qk_nope \in Nat /\ m.qk_rope \in Nat /\ m.v_head \in Nat
  BY SizesAre
<1>2. m.qk_nope + m.qk_rope \in Nat /\ m.kv_lora + m.qk_rope \in Nat /\ m.qk_nope + m.v_head \in Nat
  BY <1>1
<1>3. /\ m.n_heads * (m.qk_nope + m.qk_rope) \in Nat /\ m.n_heads * (m.qk_nope + m.v_head) \in Nat
      /\ m.hidden * m.n_heads \in Nat /\ m.n_heads * m.v_head \in Nat
  BY <1>1, <1>2, Products
<1>4. /\ m.q_lora * m.hidden \in Nat /\ m.n_heads * (m.qk_nope + m.qk_rope) * m.q_lora \in Nat
      /\ (m.kv_lora + m.qk_rope) * m.hidden \in Nat
      /\ m.n_heads * (m.qk_nope + m.v_head) * m.kv_lora \in Nat
      /\ m.hidden * m.n_heads * m.v_head \in Nat /\ m.n_heads * m.v_head * m.hidden \in Nat
  BY <1>1, <1>2, <1>3, Products
<1>5. /\ reqn("q_a", m.q_lora * m.hidden) \in Planned /\ reqw("q_a_norm", m.q_lora) \in Planned
      /\ reqn("q_b", m.n_heads * (m.qk_nope + m.qk_rope) * m.q_lora) \in Planned
      /\ reqn("kv_a", (m.kv_lora + m.qk_rope) * m.hidden) \in Planned
      /\ reqw("kv_a_norm", m.kv_lora) \in Planned
      /\ reqn("kv_b", m.n_heads * (m.qk_nope + m.v_head) * m.kv_lora) \in Planned
      /\ reqn("mla_o", m.hidden * m.n_heads * m.v_head) \in Planned
      /\ reqn("mla_g", m.n_heads * m.v_head * m.hidden) \in Planned
  BY <1>1, <1>4 DEF reqw, reqn, req, Planned, Request, Matrices, Vectors
<1>6. /\ <<reqn("q_a", m.q_lora * m.hidden), reqw("q_a_norm", m.q_lora),
           reqn("q_b", m.n_heads * (m.qk_nope + m.qk_rope) * m.q_lora),
           reqn("kv_a", (m.kv_lora + m.qk_rope) * m.hidden), reqw("kv_a_norm", m.kv_lora),
           reqn("kv_b", m.n_heads * (m.qk_nope + m.v_head) * m.kv_lora),
           reqn("mla_o", m.hidden * m.n_heads * m.v_head)>> \in Seq(Planned)
      /\ <<reqn("mla_g", m.n_heads * m.v_head * m.hidden)>> \in Seq(Planned)
      /\ <<>> \in Seq(Planned)
  BY <1>5
<1>7. QED
  BY <1>6, ConcatProperties DEF Mla

LEMMA KdaIsPlan ==
    ASSUME NEW m, Sized(m)
    PROVE  Kda(m) \in Seq(Planned)
<1>1. /\ m.hidden \in Nat /\ m.kda_heads \in Nat /\ m.kda_head_dim \in Nat /\ m.conv_k \in Nat
  BY SizesAre
<1>2. P(m) \in Nat
  BY <1>1, Products DEF P
<1>3. /\ P(m) * m.hidden \in Nat /\ m.hidden * P(m) \in Nat /\ P(m) * m.conv_k \in Nat
      /\ m.kda_head_dim * m.hidden \in Nat /\ P(m) * m.kda_head_dim \in Nat
      /\ m.kda_heads * m.hidden \in Nat
  BY <1>1, <1>2, Products
<1>4. /\ reqn("q", P(m) * m.hidden) \in Planned /\ reqn("k", P(m) * m.hidden) \in Planned
      /\ reqn("v", P(m) * m.hidden) \in Planned /\ reqn("g", P(m) * m.hidden) \in Planned
      /\ reqn("o", m.hidden * P(m)) \in Planned
      /\ reqw("q_conv", P(m) * m.conv_k) \in Planned /\ reqw("k_conv", P(m) * m.conv_k) \in Planned
      /\ reqw("v_conv", P(m) * m.conv_k) \in Planned
      /\ reqn("f_a", m.kda_head_dim * m.hidden) \in Planned
      /\ reqn("f_b", P(m) * m.kda_head_dim) \in Planned
      /\ reqn("b", m.kda_heads * m.hidden) \in Planned
      /\ reqw("dt_bias", P(m)) \in Planned /\ reqw("o_norm", m.kda_head_dim) \in Planned
  BY <1>1, <1>2, <1>3 DEF reqw, reqn, req, Planned, Request, Matrices, Vectors
<1>5. A_log(m) \in Planned
  BY <1>1 DEF A_log, req, Planned, Request, Matrices, Vectors
<1>6. QED
  BY <1>4, <1>5 DEF Kda

LEMMA DenseIsPlan ==
    ASSUME NEW m, Sized(m)
    PROVE  Dense(m) \in Seq(Planned)
<1>1. m.hidden \in Nat /\ m.dense_inter \in Nat
  BY SizesAre
<1>2. m.dense_inter * m.hidden \in Nat /\ m.hidden * m.dense_inter \in Nat
  BY <1>1, Products
<1>3. /\ reqn("dense_gate", m.dense_inter * m.hidden) \in Planned
      /\ reqn("dense_up", m.dense_inter * m.hidden) \in Planned
      /\ reqn("dense_down", m.hidden * m.dense_inter) \in Planned
  BY <1>2 DEF reqw, reqn, req, Planned, Request, Matrices, Vectors
<1>4. QED
  BY <1>3 DEF Dense

LEMMA MoeIsPlan ==
    ASSUME NEW m, Sized(m)
    PROVE  Moe(m) \in Seq(Planned)
<1>1. /\ m.hidden \in Nat /\ m.moe_inter \in Nat /\ m.n_shared \in Nat /\ m.n_experts \in Nat
      /\ m.latent \in Nat
  BY SizesAre
<1> DEFINE SI == m.moe_inter * m.n_shared
<1>2. SI \in Nat
  BY <1>1, Products
<1> HIDE DEF SI
<1>3. /\ SI * m.hidden \in Nat /\ m.hidden * SI \in Nat /\ m.n_experts * m.hidden \in Nat
      /\ m.latent * m.hidden \in Nat /\ m.hidden * m.latent \in Nat
  BY <1>1, <1>2, Products
<1>4. /\ reqw("gate", m.n_experts * m.hidden) \in Planned /\ reqw("bias", m.n_experts) \in Planned
      /\ reqn("down", m.latent * m.hidden) \in Planned /\ reqn("up", m.hidden * m.latent) \in Planned
      /\ reqw("latent_norm", m.latent) \in Planned
      /\ reqn("sh1", SI * m.hidden) \in Planned /\ reqn("sh3", SI * m.hidden) \in Planned
      /\ reqn("sh2", m.hidden * SI) \in Planned
  BY <1>1, <1>3 DEF reqw, reqn, req, Planned, Request, Matrices, Vectors
<1>5. QED
  BY <1>4 DEF Moe, SI

LEMMA LayerIsPlan ==
    ASSUME NEW m, Sized(m), NEW n
    PROVE  plan_layer(m, n) \in Seq(Planned) /\ plan_layer(m, n) \in Seq(Request)
<1>1. Norms(m) \in Seq(Planned) /\ Mla(m) \in Seq(Planned) /\ Kda(m) \in Seq(Planned)
  BY NormsArePlan, MlaIsPlan, KdaIsPlan
<1>2. Dense(m) \in Seq(Planned) /\ Moe(m) \in Seq(Planned)
  BY DenseIsPlan, MoeIsPlan
<1>3. (IF is_mla(m, n) THEN Mla(m) ELSE Kda(m)) \in Seq(Planned)
  BY <1>1
<1>4. (IF is_dense(m, n) THEN Dense(m) ELSE Moe(m)) \in Seq(Planned)
  BY <1>2
<1>5. QED
  <2>1. plan_layer(m, n) \in Seq(Planned)
    BY <1>1, <1>3, <1>4, ConcatProperties DEF plan_layer
  <2>2. QED
    BY <2>1, PlannedAre

LEMMA ModelIsPlan ==
    ASSUME NEW m, Sized(m), NEW embed, NEW lm_head
    PROVE  plan_model(m, embed, lm_head) \in Seq(Planned) /\ plan_model(m, embed, lm_head) \in Seq(Request)
<1>1. m.hidden \in Nat /\ m.vocab \in Nat
  BY SizesAre
<1>2. m.vocab * m.hidden \in Nat
  BY <1>1, Products
<1>3. /\ reqn("embed", m.vocab * m.hidden) \in Planned /\ reqn("lm_head", m.vocab * m.hidden) \in Planned
      /\ reqw("norm", m.hidden) \in Planned /\ reqw("out_res_norm", m.hidden) \in Planned
      /\ reqw("out_res_proj", m.hidden) \in Planned
  BY <1>1, <1>2 DEF reqw, reqn, req, Planned, Request, Matrices, Vectors
<1> DEFINE first == IF embed THEN <<reqn("embed", m.vocab * m.hidden)>> ELSE <<>>
           last == IF lm_head THEN <<reqn("lm_head", m.vocab * m.hidden)>> ELSE <<>>
           norms == <<reqw("norm", m.hidden), reqw("out_res_norm", m.hidden), reqw("out_res_proj", m.hidden)>>
<1>4. first \in Seq(Planned) /\ last \in Seq(Planned) /\ norms \in Seq(Planned)
  BY <1>3
<1>5. plan_model(m, embed, lm_head) = first \o norms \o last
  BY DEF plan_model
<1> HIDE DEF first, last, norms
<1>6. first \o norms \in Seq(Planned)
  BY <1>4, ConcatProperties
<1>7. QED
  <2>1. plan_model(m, embed, lm_head) \in Seq(Planned)
    BY <1>4, <1>5, <1>6, ConcatProperties
  <2>2. QED
    BY <2>1, PlannedAre

LEMMA WidenIs ==
    ASSUME NEW m, Sized(m)
    PROVE  widen_bytes(m) \in Nat
<1>1. m.hidden \in Nat /\ m.q_lora \in Nat /\ m.kv_lora \in Nat /\ m.latent \in Nat /\ m.n_experts \in Nat
  BY SizesAre
<1>2. m.n_experts * m.hidden \in Nat
  BY <1>1, Products
<1>3. QED
  BY <1>1, <1>2, BindingAssumption DEF widen_bytes

-----------------------------------------------------------------------------
(* The work buffer. *)

LEMMA Scales ==
    ASSUME NEW a \in Nat, NEW b \in Nat, NEW k \in Nat, a <= b
    PROVE  a * k \in Nat /\ b * k \in Nat /\ a * k <= b * k
<1>1. PICK d \in Nat : b = a + d
  <2>1. b - a \in Nat /\ b = a + (b - a)
    OBVIOUS
  <2>2. QED
    BY <2>1
<1>2. b * k = a * k + d * k
  BY <1>1
<1>3. a * k \in Nat /\ d * k \in Nat
  BY Products
<1>4. QED
  BY <1>2, <1>3

LEMMA StackIs ==
    ASSUME NEW m, Sized(m), m.attn_res_block > 0
    PROVE  m.n_layers \div m.attn_res_block \in Nat /\ Stack(m) \in Nat /\ Stack(m) >= 2
<1>1. m.n_layers \in Nat /\ m.attn_res_block \in Nat \ {0}
  BY SizesAre
<1>2. m.n_layers \div m.attn_res_block \in Nat
  BY ONLY <1>1
<1>3. QED
  BY <1>2 DEF Stack

(* What lies before the sub-block, which is as long as it was reckoned.     *)
Front(m, n) == (3 * n + 2 + Stack(m)) * m.hidden + 2 * m.dense_inter

LEMMA ReachIs ==
    ASSUME NEW m, Sized(m), m.attn_res_block > 0, NEW n \in Nat, NEW sub \in Nat
    PROVE  Front(m, n) \in Nat /\ LayerReach(m, n, sub) = Front(m, n) + sub
<1>1. m.hidden \in Nat /\ m.dense_inter \in Nat /\ Stack(m) \in Nat
  BY SizesAre, StackIs
<1> DEFINE x == n * m.hidden
           y == Stack(m) * m.hidden
<1>2. x \in Nat /\ y \in Nat /\ 2 * m.dense_inter \in Nat
  BY <1>1, Products
<1>3. LayerReach(m, n, sub) = x + x + x + m.hidden + m.hidden + y + 2 * m.dense_inter + sub
  <2>1. LayerReach(m, n, sub) = Sum(<<x, x, x, m.hidden, m.hidden, y, 2 * m.dense_inter, sub>>)
    BY DEF LayerReach
  <2> DEFINE s == <<x, x, x, m.hidden, m.hidden, y, 2 * m.dense_inter, sub>>
  <2>2. s \in Seq(Nat) /\ Len(s) = 8
    <3> HIDE DEF x, y
    <3>1. QED
      BY <1>1, <1>2
  <2>3. /\ s[1] = x /\ s[2] = x /\ s[3] = x /\ s[4] = m.hidden /\ s[5] = m.hidden
        /\ s[6] = y /\ s[7] = 2 * m.dense_inter /\ s[8] = sub
    <3> HIDE DEF x, y
    <3>1. QED
      OBVIOUS
  <2> HIDE DEF x, y, s
  <2>4. Sum(s) = s[1] + s[2] + s[3] + s[4] + s[5] + s[6] + s[7] + s[8]
    BY <2>2, SumOfEight
  <2>5. QED
    BY <2>1, <2>3, <2>4 DEF s
<1>4. (3 * n + 2 + Stack(m)) * m.hidden = x + x + x + m.hidden + m.hidden + y
  BY <1>1
<1> HIDE DEF x, y
<1>5. Front(m, n) = x + x + x + m.hidden + m.hidden + y + 2 * m.dense_inter
  BY <1>4 DEF Front
<1>6. QED
  BY <1>1, <1>2, <1>3, <1>5

LEMMA FrontGrows ==
    ASSUME NEW m, Sized(m), m.attn_res_block > 0, NEW n \in Nat, NEW most \in Nat, n <= most
    PROVE  Front(m, n) \in Nat /\ Front(m, most) \in Nat /\ Front(m, n) <= Front(m, most)
<1>1. m.hidden \in Nat /\ m.dense_inter \in Nat /\ Stack(m) \in Nat
  BY SizesAre, StackIs
<1>2. 3 * n + 2 + Stack(m) \in Nat /\ 3 * most + 2 + Stack(m) \in Nat
      /\ 3 * n + 2 + Stack(m) <= 3 * most + 2 + Stack(m)
  BY <1>1
<1> DEFINE x == (3 * n + 2 + Stack(m)) * m.hidden
           y == (3 * most + 2 + Stack(m)) * m.hidden
<1>3. x \in Nat /\ y \in Nat /\ x <= y
  BY <1>1, <1>2, Scales
<1>4. Front(m, n) = x + 2 * m.dense_inter /\ Front(m, most) = y + 2 * m.dense_inter
  BY DEF Front
<1> HIDE DEF x, y
<1>5. QED
  BY <1>1, <1>3, <1>4

LEMMA LargerIs ==
    ASSUME NEW a \in Nat, NEW b \in Nat
    PROVE  Larger(a, b) \in Nat /\ Larger(a, b) >= a /\ Larger(a, b) >= b
BY DEF Larger

(* Attention over the latent rows: what it uses behind some cached rows was *)
(* asked for, for as many positions in all.                                 *)
LEMMA MlaFits ==
    ASSUME NEW m, Sized(m), NEW most \in Nat, NEW n \in Nat, NEW behind \in Nat,
           behind + n <= most, NEW held \in BOOLEAN
    PROVE  /\ MlaReach(m, n, behind, held) \in Nat /\ mla_scratch(m, most, most, FALSE) \in Nat
           /\ MlaReach(m, n, behind, held) <= mla_scratch(m, most, most, FALSE)
<1>1. /\ m.n_heads \in Nat /\ m.q_lora \in Nat /\ m.kv_lora \in Nat
      /\ m.qk_nope \in Nat /\ m.qk_rope \in Nat /\ m.v_head \in Nat
  BY SizesAre
<1>2. m.qk_nope + m.qk_rope \in Nat /\ m.qk_nope + m.v_head \in Nat /\ n <= most
  BY <1>1
<1>3. n * m.n_heads \in Nat /\ most * m.n_heads \in Nat /\ n * m.n_heads <= most * m.n_heads
      /\ m.n_heads * m.v_head \in Nat
  BY <1>1, <1>2, Scales, Products
<1> DEFINE q == n * m.n_heads * (m.qk_nope + m.qk_rope)
           Q == most * m.n_heads * (m.qk_nope + m.qk_rope)
           v == n * m.n_heads * (m.qk_nope + m.v_head)
           V == most * m.n_heads * (m.qk_nope + m.v_head)
           r == n * m.qk_rope
           R == most * m.qk_rope
           g == m.n_heads * m.v_head
<1>4. q \in Nat /\ Q \in Nat /\ q <= Q
  BY <1>2, <1>3, Scales
<1>5. v \in Nat /\ V \in Nat /\ v <= V
  BY <1>2, <1>3, Scales
<1>6. r \in Nat /\ R \in Nat /\ r <= R
  BY <1>1, <1>2, Scales
<1>7. g \in Nat /\ 2 * m.n_heads * m.v_head = g + g
  BY <1>1, <1>3
<1>8. Larger(most, most) = most
  BY DEF Larger
<1>9. mla_scratch(m, most, most, FALSE) = Q + m.kv_lora + m.qk_rope + m.q_lora + (g + g) + most + (V + R)
  <2>1. mla_scratch(m, most, most, FALSE)
          = Q + m.kv_lora + m.qk_rope + m.q_lora + 2 * m.n_heads * m.v_head + Larger(most, most) + (V + R)
    BY DEF mla_scratch
  <2> HIDE DEF q, Q, v, V, r, R, g
  <2>2. QED
    BY <1>7, <1>8, <2>1
<1>10. MlaReach(m, n, behind, held)
         = q + (m.kv_lora + m.qk_rope) + m.q_lora + g + g + (behind + n)
           + (IF held THEN 0 ELSE v) + (IF held THEN 0 ELSE r)
  <2>1. MlaReach(m, n, behind, held)
          = Sum(<<q, m.kv_lora + m.qk_rope, m.q_lora, g, g, behind + n,
                  IF held THEN 0 ELSE v, IF held THEN 0 ELSE r>>)
    BY DEF MlaReach
  <2> HIDE DEF q, Q, v, V, r, R, g
  <2>2. (IF held THEN 0 ELSE v) \in Nat /\ (IF held THEN 0 ELSE r) \in Nat
        /\ m.kv_lora + m.qk_rope \in Nat /\ behind + n \in Nat
    BY <1>1, <1>5, <1>6
  <2> DEFINE v0 == IF held THEN 0 ELSE v
             r0 == IF held THEN 0 ELSE r
             l0 == m.kv_lora + m.qk_rope
             s0 == behind + n
  <2>3. v0 \in Nat /\ r0 \in Nat /\ l0 \in Nat /\ s0 \in Nat
    BY <2>2
  <2>4. MlaReach(m, n, behind, held) = Sum(<<q, l0, m.q_lora, g, g, s0, v0, r0>>)
    BY <2>1
  <2> HIDE DEF v0, r0, l0, s0
  <2> DEFINE s == <<q, l0, m.q_lora, g, g, s0, v0, r0>>
  <2>a. s \in Seq(Nat) /\ Len(s) = 8
    BY <1>1, <1>4, <1>7, <2>3
  <2>b. /\ s[1] = q /\ s[2] = l0 /\ s[3] = m.q_lora /\ s[4] = g /\ s[5] = g
        /\ s[6] = s0 /\ s[7] = v0 /\ s[8] = r0
    OBVIOUS
  <2>c. Sum(s) = MlaReach(m, n, behind, held)
    BY <2>4
  <2> HIDE DEF s
  <2>d. Sum(s) = s[1] + s[2] + s[3] + s[4] + s[5] + s[6] + s[7] + s[8]
    BY <2>a, SumOfEight
  <2>5. MlaReach(m, n, behind, held) = q + l0 + m.q_lora + g + g + s0 + v0 + r0
    BY <2>b, <2>c, <2>d
  <2>6. QED
    BY <2>5 DEF v0, r0, l0, s0
<1> HIDE DEF q, Q, v, V, r, R, g
<1> DEFINE reach == MlaReach(m, n, behind, held)
           asked == mla_scratch(m, most, most, FALSE)
           a == m.kv_lora
           b == m.qk_rope
           d == m.q_lora
<1>a. asked = Q + a + b + d + (g + g) + most + (V + R)
  BY <1>9
<1>t. a \in Nat /\ b \in Nat /\ d \in Nat
  BY <1>1
<1>11. CASE held
  <2>1. reach = q + (a + b) + d + g + g + (behind + n) + 0 + 0
    BY <1>10, <1>11
  <2> HIDE DEF reach, asked, a, b, d
  <2>2. reach \in Nat /\ asked \in Nat /\ reach <= asked
    BY <1>t, <1>a, <1>4, <1>5, <1>6, <1>7, <2>1
  <2>3. QED
    BY <2>2 DEF reach, asked
<1>12. CASE ~held
  <2>1. reach = q + (a + b) + d + g + g + (behind + n) + v + r
    BY <1>10, <1>12
  <2> HIDE DEF reach, asked, a, b, d
  <2>2. reach \in Nat /\ asked \in Nat /\ reach <= asked
    BY <1>t, <1>a, <1>4, <1>5, <1>6, <1>7, <2>1
  <2>3. QED
    BY <2>2 DEF reach, asked
<1>13. QED
  BY <1>11, <1>12

(* Recurrent attention.                                                     *)
LEMMA KdaFits ==
    ASSUME NEW m, Sized(m), NEW most \in Nat, NEW n \in Nat, n <= most
    PROVE  /\ KdaReach(m, n) \in Nat /\ kda_scratch(m, most) \in Nat
           /\ KdaReach(m, n) <= kda_scratch(m, most)
<1>1. m.kda_heads \in Nat /\ m.kda_head_dim \in Nat
  BY SizesAre
<1> DEFINE w == m.kda_heads * m.kda_head_dim
           x == n * w
           X == most * w
           y == n * m.kda_heads
           Y == most * m.kda_heads
<1>2. w \in Nat
  BY <1>1, Products
<1>3. x \in Nat /\ X \in Nat /\ x <= X
  <2> HIDE DEF w
  <2>1. QED
    BY <1>2, Scales
<1>4. y \in Nat /\ Y \in Nat /\ y <= Y
  BY <1>1, Scales
<1>5. KdaReach(m, n) = Sum(<<x, x, x, x, x, y, x, w, w, m.kda_head_dim>>)
  BY DEF KdaReach
<1>6. kda_scratch(m, most) = 6 * most * w + Y + 2 * w + m.kda_head_dim
  BY DEF kda_scratch
<1>7. 6 * most * w = 6 * X
  <2> HIDE DEF w
  <2>1. QED
    BY <1>2
<1> HIDE DEF w, x, X, y, Y
<1>8. KdaReach(m, n) = x + x + x + x + x + y + x + w + w + m.kda_head_dim
  <2> DEFINE d == m.kda_head_dim
  <2>1. d \in Nat /\ KdaReach(m, n) = Sum(<<x, x, x, x, x, y, x, w, w, d>>)
    BY <1>1, <1>5
  <2> HIDE DEF d
  <2> DEFINE s == <<x, x, x, x, x, y, x, w, w, d>>
  <2>a. s \in Seq(Nat) /\ Len(s) = 10
    BY <1>2, <1>3, <1>4, <2>1
  <2>b. /\ s[1] = x /\ s[2] = x /\ s[3] = x /\ s[4] = x /\ s[5] = x
        /\ s[6] = y /\ s[7] = x /\ s[8] = w /\ s[9] = w /\ s[10] = d
    OBVIOUS
  <2>c. Sum(s) = KdaReach(m, n)
    BY <2>1
  <2> HIDE DEF s
  <2>d. Sum(s) = s[1] + s[2] + s[3] + s[4] + s[5] + s[6] + s[7] + s[8] + s[9] + s[10]
    BY <2>a, SumOfTen
  <2>2. KdaReach(m, n) = x + x + x + x + x + y + x + w + w + d
    BY <2>b, <2>c, <2>d
  <2>3. QED
    BY <2>2 DEF d
<1>9. QED
  BY <1>1, <1>2, <1>3, <1>4, <1>6, <1>7, <1>8

(* The experts.                                                             *)
LEMMA MoeFits ==
    ASSUME NEW m, Sized(m), NEW batched \in BOOLEAN
    PROVE  /\ MoeReach(m, batched) \in Nat /\ moe_scratch(m) \in Nat
           /\ MoeReach(m, batched) <= moe_scratch(m)
<1>1. m.latent \in Nat /\ m.moe_inter \in Nat /\ m.n_shared \in Nat /\ m.hidden \in Nat
  BY SizesAre
<1> DEFINE s == m.moe_inter * m.n_shared
           ro == Sum(<<2 * m.moe_inter, m.moe_inter, m.latent>>)
           sh == Sum(<<2 * m.moe_inter * m.n_shared, m.moe_inter * m.n_shared, m.hidden>>)
<1>2. s \in Nat /\ 2 * m.moe_inter * m.n_shared = 2 * s /\ 3 * m.moe_inter * m.n_shared = 3 * s
  BY <1>1, Products
<1>3. MoeReach(m, batched) = IF batched THEN Larger(ro, sh) ELSE 2 * m.latent + ro + sh
  BY DEF MoeReach
<1>4. moe_scratch(m) = 2 * m.latent + 3 * m.moe_inter + m.latent + 3 * s + m.hidden
  <2>1. moe_scratch(m) = 2 * m.latent + 3 * m.moe_inter + m.latent + 3 * m.moe_inter * m.n_shared + m.hidden
    BY DEF moe_scratch
  <2> HIDE DEF s
  <2>2. QED
    BY <1>2, <2>1
<1>5. ro = 2 * m.moe_inter + m.moe_inter + m.latent
  <2>1. 2 * m.moe_inter \in Nat
    BY <1>1
  <2>2. QED
    BY <1>1, <2>1, SumOfThree
<1>6. sh = 2 * s + s + m.hidden
  <2>1. sh = Sum(<<2 * s, s, m.hidden>>)
    <3>1. 2 * m.moe_inter * m.n_shared = 2 * s
      BY <1>2
    <3>2. QED
      BY <3>1
  <2> HIDE DEF s, sh
  <2>2. 2 * s \in Nat
    BY <1>2
  <2>3. QED
    BY <1>1, <1>2, <2>1, <2>2, SumOfThree
<1> HIDE DEF s, ro, sh
<1>7. ro \in Nat /\ sh \in Nat /\ moe_scratch(m) = 2 * m.latent + ro + sh
  BY <1>1, <1>2, <1>4, <1>5, <1>6
<1>8. CASE batched
  <2>1. MoeReach(m, batched) = ro \/ MoeReach(m, batched) = sh
    BY <1>3, <1>8 DEF Larger
  <2>2. QED
    BY <1>1, <1>7, <2>1
<1>9. CASE ~batched
  BY <1>1, <1>3, <1>7, <1>9
<1>10. QED
  BY <1>8, <1>9

LEMMA AllocatedIs ==
    ASSUME NEW m, Sized(m), m.attn_res_block > 0, NEW most \in Nat
    PROVE  /\ sub_scratch(m, most) \in Nat
           /\ layer_scratch(m, most) = Front(m, most) + sub_scratch(m, most)
           /\ Allocated(m, most) \in Int /\ Allocated(m, most) >= layer_scratch(m, most)
<1>1. Front(m, most) \in Nat
  BY FrontGrows
<1>3. layer_scratch(m, most) = Front(m, most) + sub_scratch(m, most)
  BY DEF layer_scratch, Front
<1>4. mla_scratch(m, most, most, FALSE) \in Nat /\ kda_scratch(m, most) \in Nat /\ moe_scratch(m) \in Nat
  <2>1. 0 \in Nat /\ most + 0 <= most /\ 0 + most <= most /\ most <= most /\ FALSE \in BOOLEAN /\ TRUE \in BOOLEAN
    OBVIOUS
  <2>2. QED
    BY <2>1, MlaFits, KdaFits, MoeFits
<1>5. sub_scratch(m, most) \in Nat
  BY <1>4, LargerIs DEF sub_scratch
<1>6. mla_scratch(m, most, most, TRUE) \in Int
  <2>1. /\ m.n_heads \in Nat /\ m.q_lora \in Nat /\ m.kv_lora \in Nat
        /\ m.qk_nope \in Nat /\ m.qk_rope \in Nat /\ m.v_head \in Nat
    BY SizesAre
  <2>2. m.qk_nope + m.qk_rope \in Nat /\ most * m.n_heads \in Nat /\ 2 * m.n_heads \in Nat
    BY <2>1, Products
  <2> DEFINE x == most * m.n_heads * (m.qk_nope + m.qk_rope)
             y == 2 * m.n_heads * m.v_head
             z == most * m.n_heads * (m.qk_nope + m.v_head) + most * m.qk_rope
             a == m.kv_lora
             b == m.qk_rope
             d == m.q_lora
             held == mla_scratch(m, most, most, TRUE)
  <2>3. x \in Nat /\ y \in Nat /\ a \in Nat /\ b \in Nat /\ d \in Nat
    BY <2>1, <2>2, Products
  <2>4. Larger(most, most) = most
    BY DEF Larger
  <2>5. held = x + a + b + d + y + Larger(most, most) + (IF TRUE THEN 0 ELSE z)
    BY DEF mla_scratch
  <2> HIDE DEF x, y, z, a, b, d, held
  <2>6. held = x + a + b + d + y + most + 0
    BY <2>4, <2>5
  <2>7. held \in Int
    BY <2>3, <2>6
  <2>8. QED
    BY <2>7 DEF held
<1>7. Allocated(m, most) \in Int /\ Allocated(m, most) >= layer_scratch(m, most)
  <2> DEFINE a == layer_scratch(m, most)
             b == mla_scratch(m, most, most, TRUE)
  <2>1. a \in Int /\ b \in Int
    <3>1. a \in Int
      BY <1>1, <1>3, <1>5
    <3>2. QED
      BY <1>6, <3>1
  <2>2. Allocated(m, most) = IF a > b THEN a ELSE b
    BY DEF Allocated, Larger
  <2> HIDE DEF a, b
  <2>3. Allocated(m, most) \in Int /\ Allocated(m, most) >= a
    BY <2>1, <2>2
  <2>4. QED
    BY <2>3 DEF a
<1>8. QED
  BY <1>3, <1>5, <1>7

(* Any sub-block no longer than the longest fits behind its front.          *)
LEMMA SubFits ==
    ASSUME NEW m, Sized(m), m.attn_res_block > 0, NEW most \in Nat, NEW n \in Nat, n <= most,
           NEW sub \in Nat, sub <= sub_scratch(m, most)
    PROVE  Allocated(m, most) >= LayerReach(m, n, sub)
<1>1. Front(m, n) \in Nat /\ Front(m, most) \in Nat /\ Front(m, n) <= Front(m, most)
  BY FrontGrows
<1>2. LayerReach(m, n, sub) = Front(m, n) + sub
  BY ReachIs
<1>3. /\ layer_scratch(m, most) = Front(m, most) + sub_scratch(m, most) /\ sub_scratch(m, most) \in Nat
      /\ Allocated(m, most) \in Int /\ Allocated(m, most) >= layer_scratch(m, most)
  BY AllocatedIs
<1>4. QED
  BY <1>1, <1>2, <1>3

-----------------------------------------------------------------------------
(* The inductive invariant. *)

InPass == {"layer", "fetch", "attention", "mlp"}
Serves == InPass \cup {"ready", "answered", "failed", "astray"}
Stages == {"config", "trunk", "model", "refused"} \cup Serves

(* The counters, and the text with what the state stands for of it.         *)
Ranges ==
    /\ job \in Jobs /\ pc \in Stages
    /\ \E S : seq \in Seq(S)
    /\ Len(seq) <= Tmax /\ cached \in 0 .. Len(seq) /\ base \in 0 .. Tmax /\ snap.at \in 0 .. Tmax
    /\ passes \in 0 .. MaxPasses /\ fails \in 0 .. MaxFails
    /\ L \in Nat /\ nb \in Nat

(* The config in hand is the job's, and good once there are weights.        *)
Loaded ==
    /\ cfg.ok \in BOOLEAN
    /\ cfg.ok => cfg = k3_cfg_load(job.doc) /\ Sized(c)
    /\ pc \notin {"config", "refused"} => cfg.ok
    /\ pc \notin Serves => L = 0 /\ nb = 0

Midway == {"mlp", "astray"}      \* behind a layer's attention

(* Layers walked, a snapshot for each block begun; the pass begins where    *)
(* the carried state ends.                                                  *)
Walks ==
    cfg.ok =>
        /\ L <= NL
        /\ nb * c.attn_res_block < L + (IF pc \in Midway THEN 1 ELSE 0) + c.attn_res_block
        /\ pc \in {"fetch", "attention"} \cup Midway => L < NL
        /\ pc \in InPass => base = (IF opts.incremental THEN cached ELSE 0) /\ base < Len(seq)
        /\ pc = "answered" => L = NL

(* What each layer may be bound to.                                         *)
BoundAs(n) == IF opts.trunk THEN bind_layer_mem(c, n, store[n])
              ELSE bind_resident(store[n], plan_layer(c, n))

OfModel == bind_resident(store[ModelLevel], plan_model(c, ~opts.ultra, ~opts.ultra))

(* Weights in hand are those; the layers behind the walk, and the one it is *)
(* in, are bound.                                                           *)
Bound ==
    /\ pc \in {"model"} \cup Serves =>
          /\ DOMAIN lay = 0 .. NL - 1
          /\ \A n \in 0 .. NL - 1 : lay[n] = BoundAs(n) \/ (opts.trunk /\ lay[n] = Refused)
          /\ ~opts.trunk => \A n \in 0 .. NL - 1 : lay[n].ok
          /\ opts.trunk => IndexHolds(job.index) /\ job.index.layers >= NL
    /\ pc \in Serves =>
          mb = OfModel /\ mb.ok /\ (opts.ultra => stream_init(c, store[ModelLevel]))
    /\ pc \in InPass \cup {"answered"} => \A n \in 0 .. L - 1 : lay[n].ok
    /\ pc \in {"attention", "mlp"} => lay[L].ok
    /\ pc = "fetch" => opts.trunk /\ src_layer = L

IInv == Ranges /\ Loaded /\ Walks /\ Bound

(* A checkpoint is good when what its process binds can be bound.           *)
LayersTo(j, m) == IF j.opts.layers \in 1 .. m.n_layers THEN j.opts.layers ELSE m.n_layers
Binds(j, m) ==
    /\ IF j.opts.trunk
       THEN /\ IndexHolds(j.index) /\ j.index.layers >= LayersTo(j, m)
            /\ \A n \in 0 .. LayersTo(j, m) - 1 : bind_layer_mem(m, n, j.store[n]).ok
       ELSE \A n \in 0 .. LayersTo(j, m) - 1 : bind_resident(j.store[n], plan_layer(m, n)).ok
    /\ bind_resident(j.store[m.n_layers], plan_model(m, ~j.opts.ultra, ~j.opts.ultra)).ok
    /\ j.opts.ultra => stream_init(m, j.store[m.n_layers])
GoodBinds ==
    \A j \in Jobs : j.good <=> k3_cfg_load(j.doc).ok /\ Binds(j, k3_cfg_load(j.doc).c)

-----------------------------------------------------------------------------
(* Steps. *)

LEMMA ReadsIs ==
    ASSUME NEW ok \in BOOLEAN, Reads(ok), fails \in 0 .. MaxFails
    PROVE  /\ fails' \in 0 .. MaxFails /\ fails' >= fails
           /\ ~ok => fails' > 0
BY ForwardAssumption DEF Reads

(* A config that loads describes an architecture, with sizes that are       *)
(* numbers.                                                                 *)
LEMMA ConfigIs ==
    ASSUME IInv, cfg.ok
    PROVE  /\ Sized(c)
           /\ c.n_layers \in Nat \ {0} /\ c.attn_res_block \in Nat \ {0}
           /\ NL \in 1 .. c.n_layers /\ c.vocab > 0
<1>1. job \in Jobs /\ cfg = k3_cfg_load(job.doc)
  BY DEF IInv, Ranges, Loaded
<1>2. Sized(c)
  BY DEF IInv, Loaded
<1>3. c.n_layers \in Nat /\ c.attn_res_block \in Nat
  BY <1>2, SizesAre
<1>4. Describes(c)
  <2>1. ~(Refused.ok)
    BY DEF Refused
  <2>2. k3_cfg_load(job.doc).ok
    BY <1>1
  <2>3. k3_cfg_load(job.doc) = [ok |-> TRUE, c |-> Read(job.doc)] /\ Describes(Read(job.doc))
    BY <2>1, <2>2 DEF k3_cfg_load
  <2>4. QED
    BY <1>1, <2>3 DEF c
<1>5. c.n_layers > 0 /\ c.attn_res_block > 0 /\ c.vocab > 0
  BY <1>4 DEF Describes
<1>6. NL \in 1 .. c.n_layers
  BY <1>3, <1>5 DEF NL
<1>7. QED
  BY <1>2, <1>3, <1>5, <1>6

(* Nothing that a step leaves the process alone changes.                    *)
LEMMA Still ==
    ASSUME job' = job, cfg' = cfg
    PROVE  /\ c' = c /\ opts' = opts /\ store' = store /\ NL' = NL /\ ModelLevel' = ModelLevel
           /\ OfModel' = OfModel /\ \A n : BoundAs(n)' = BoundAs(n)
<1>1. c' = c /\ opts' = opts /\ store' = store
  BY DEF c, opts, store
<1>2. NL' = NL /\ ModelLevel' = ModelLevel
  BY <1>1 DEF NL, ModelLevel
<1>3. OfModel' = OfModel
  BY <1>1, <1>2 DEF OfModel
<1>4. \A n : BoundAs(n)' = BoundAs(n)
  BY <1>1 DEF BoundAs
<1>5. QED
  BY <1>1, <1>2, <1>3, <1>4

(* A text that grows or is cut is a text.                                   *)
LEMMA Texts ==
    ASSUME NEW S, NEW s \in Seq(S)
    PROVE  /\ Len(s) \in Nat
           /\ \A t \in Seq(Nat) : (\E R : s \o t \in Seq(R)) /\ Len(s \o t) = Len(s) + Len(t)
           /\ \A x : (\E R : Append(s, x) \in Seq(R)) /\ Len(Append(s, x)) = Len(s) + 1
           /\ \A n \in 1 .. Len(s) : SubSeq(s, 1, n) \in Seq(S) /\ Len(SubSeq(s, 1, n)) = n
<1>1. Len(s) \in Nat
  BY LenProperties
<1>2. ASSUME NEW X PROVE s \in Seq(S \cup X)
  <2>1. s \in [1 .. Len(s) -> S \cup X]
    BY LenProperties
  <2>2. QED
    BY <1>1, <2>1, SeqDef
<1>3. ASSUME NEW t \in Seq(Nat) PROVE (\E R : s \o t \in Seq(R)) /\ Len(s \o t) = Len(s) + Len(t)
  <2>1. t \in Seq(S \cup Nat)
    <3>1. t \in [1 .. Len(t) -> S \cup Nat] /\ Len(t) \in Nat
      BY LenProperties
    <3>2. QED
      BY <3>1, SeqDef
  <2>2. s \in Seq(S \cup Nat)
    BY <1>2
  <2>3. s \o t \in Seq(S \cup Nat) /\ Len(s \o t) = Len(s) + Len(t)
    BY <2>1, <2>2, Joined
  <2>4. QED
    BY <2>3
<1>4. ASSUME NEW x PROVE (\E R : Append(s, x) \in Seq(R)) /\ Len(Append(s, x)) = Len(s) + 1
  <2>1. s \in Seq(S \cup {x}) /\ x \in S \cup {x}
    BY <1>2
  <2>2. Append(s, x) \in Seq(S \cup {x}) /\ Len(Append(s, x)) = Len(s) + 1
    BY <2>1, AppendProperties
  <2>3. QED
    BY <2>2
<1>5. ASSUME NEW n \in 1 .. Len(s) PROVE SubSeq(s, 1, n) \in Seq(S) /\ Len(SubSeq(s, 1, n)) = n
  <2>1. n \in 0 .. Len(s)
    BY <1>1
  <2>2. QED
    BY <2>1, Firsts
<1>6. QED
  BY <1>1, <1>3, <1>4, <1>5

-----------------------------------------------------------------------------
(* Each part of the invariant. *)

LEMMA RangesKept ==
    ASSUME IInv, [Next]_vars
    PROVE  Ranges'
<1> USE DEF Stages, Serves, InPass, process, loan, caller, pass, carried, out
<1>1. /\ job \in Jobs /\ pc \in Stages /\ Len(seq) <= Tmax /\ cached \in 0 .. Len(seq)
      /\ base \in 0 .. Tmax /\ snap.at \in 0 .. Tmax /\ passes \in 0 .. MaxPasses
      /\ fails \in 0 .. MaxFails /\ L \in Nat /\ nb \in Nat
  BY DEF IInv, Ranges
<1>2. PICK S : seq \in Seq(S)
  BY DEF IInv, Ranges
<1>3. Tmax \in Nat \ {0} /\ MaxPasses \in Nat /\ MaxFails \in Nat
  BY ForwardAssumption
<1>4. Len(seq) \in Nat
  BY <1>2, Texts
(* The parts that most steps leave alone.                                   *)
<1>5. ASSUME UNCHANGED <<job, caller, pass>>, pc' \in Stages, fails' \in 0 .. MaxFails
      PROVE  Ranges'
  BY <1>1, <1>2, <1>5 DEF Ranges
<1>6. CASE Loads
  <2>1. pc' \in Stages /\ UNCHANGED <<job, caller, pass, fails>>
    BY <1>6 DEF Loads
  <2>2. QED
    BY <1>1, <1>5, <2>1
<1>7. CASE BindsLayers
  <2>1. pc' \in Stages /\ UNCHANGED <<job, caller, pass>>
    BY <1>7 DEF BindsLayers
  <2>2. PICK ok \in BOOLEAN : Reads(ok)
    BY <1>7 DEF BindsLayers
  <2>3. QED
    BY <1>1, <1>5, <2>1, <2>2, ReadsIs
<1>8. CASE OpensTrunk
  <2>1. pc' \in Stages /\ UNCHANGED <<job, caller, pass, fails>>
    BY <1>8 DEF OpensTrunk
  <2>2. QED
    BY <1>1, <1>5, <2>1
<1>9. CASE BindsModel
  <2>1. pc' \in Stages /\ UNCHANGED <<job, caller, pass>>
    BY <1>9 DEF BindsModel
  <2>2. PICK ok \in BOOLEAN : Reads(ok)
    BY <1>9 DEF BindsModel
  <2>3. QED
    BY <1>1, <1>5, <2>1, <2>2, ReadsIs
<1>10. ASSUME NEW new \in Feeds, NEW all \in BOOLEAN, Feed(new, all)
       PROVE  Ranges'
  <2>1. new \in Seq(Nat)
    BY ForwardAssumption
  <2>2. seq' = seq \o new /\ Len(seq') <= Tmax
    BY <1>10 DEF Feed
  <2>3. (\E R : seq' \in Seq(R)) /\ Len(seq') = Len(seq) + Len(new) /\ Len(new) \in Nat
    BY <1>2, <2>1, <2>2, Texts, LenProperties
  <2>4. /\ base' = (IF opts.incremental THEN cached ELSE 0) /\ passes < MaxPasses /\ passes' = passes + 1
        /\ pc' \in {"layer", "failed"} /\ L' = 0 /\ nb' = 0 /\ UNCHANGED <<job, cached, snap>>
    BY <1>10 DEF Feed
  <2>5. PICK ok \in BOOLEAN : Reads(ok)
    BY <1>10 DEF Feed
  <2>6. fails' \in 0 .. MaxFails
    BY <1>1, <2>5, ReadsIs
  <2>7. base' \in 0 .. Tmax
    BY <1>1, <1>3, <1>4, <2>4
  <2>8. cached' \in 0 .. Len(seq') /\ passes' \in 0 .. MaxPasses
    BY <1>1, <1>3, <1>4, <2>3, <2>4
  <2>9. QED
    BY <1>1, <2>2, <2>3, <2>4, <2>6, <2>7, <2>8 DEF Ranges
<1>11. CASE Fetches
  <2>1. pc' \in Stages /\ UNCHANGED <<job, caller, pass, fails>>
    BY <1>11 DEF Fetches
  <2>2. QED
    BY <1>1, <1>5, <2>1
<1>12. CASE Lent
  <2>1. pc' \in Stages /\ UNCHANGED <<job, caller, pass, fails>>
    BY <1>12 DEF Lent
  <2>2. QED
    BY <1>1, <1>5, <2>1
<1>13. CASE NotLent
  <2>1. pc' \in Stages /\ UNCHANGED <<job, caller, pass>> /\ Reads(FALSE)
    BY <1>13 DEF NotLent
  <2>2. QED
    BY <1>1, <1>5, <2>1, ReadsIs
<1>14. CASE AlreadyBound
  <2>1. pc' \in Stages /\ UNCHANGED <<job, caller, pass, fails>>
    BY <1>14 DEF AlreadyBound
  <2>2. QED
    BY <1>1, <1>5, <2>1
<1>15. CASE Attends
  <2>1. pc' \in Stages /\ UNCHANGED <<job, caller, base, L, fails>> /\ nb' \in {nb, nb + 1}
    BY <1>15 DEF Attends
  <2>2. QED
    BY <1>1, <1>2, <2>1 DEF Ranges
<1>16. CASE Mlp
  <2>1. L' = L + 1 /\ UNCHANGED <<job, caller, base, nb>>
    BY <1>16 DEF Mlp
  <2>2. pc' \in Stages /\ (fails' = fails \/ \E ok \in BOOLEAN : Reads(ok))
    BY <1>16 DEF Mlp
  <2>3. fails' \in 0 .. MaxFails
    BY <1>1, <2>2, ReadsIs
  <2>4. QED
    BY <1>1, <1>2, <2>1, <2>2, <2>3 DEF Ranges
<1>17. CASE Ranks
  <2>1. UNCHANGED <<job, seq, snap, passes, pass>> /\ pc' \in Stages
        /\ (fails' = fails \/ Reads(FALSE)) /\ cached' \in {cached, Len(seq)}
    BY <1>17 DEF Ranks
  <2>2. fails' \in 0 .. MaxFails
    BY <1>1, <2>1, ReadsIs
  <2>3. QED
    BY <1>1, <1>2, <1>4, <2>1, <2>2 DEF Ranges
<1>18. CASE Draws
  <2>1. PICK x \in Sampled : seq' = Append(seq, x)
    BY <1>18 DEF Draws
  <2>2. /\ Len(seq) < Tmax /\ pc' = "ready"
        /\ UNCHANGED <<job, cached, snap, passes, pass, fails>>
    BY <1>18 DEF Draws
  <2>3. (\E R : seq' \in Seq(R)) /\ Len(seq') = Len(seq) + 1
    BY <1>2, <2>1, Texts
  <2>4. QED
    BY <1>1, <1>3, <1>4, <2>2, <2>3 DEF Ranges
<1>19. CASE Snapshot
  <2>1. /\ snap' = [ks |-> ks, at |-> cached]
        /\ UNCHANGED <<pc, job, seq, cached, passes, pass, fails>>
    BY <1>19 DEF Snapshot
  <2>2. snap'.at = cached
    BY <2>1
  <2>3. snap'.at \in 0 .. Tmax
    BY <1>1, <1>3, <1>4, <2>2
  <2>4. QED
    BY <1>1, <1>2, <2>1, <2>3 DEF Ranges
<1>20. CASE Clears
  <2>1. /\ seq' = <<>> /\ cached' = 0 /\ snap' = [ks |-> <<>>, at |-> 0] /\ pc' = "ready"
        /\ UNCHANGED <<job, passes, pass, fails>>
    BY <1>20 DEF Clears
  <2>2. seq' \in Seq(Nat) /\ Len(seq') = 0 /\ snap'.at = 0
    BY <2>1, EmptySeq
  <2>3. QED
    BY <1>1, <1>3, <2>1, <2>2 DEF Ranges
<1>21. ASSUME NEW keep \in 1 .. Tmax, Rewinds(keep)
       PROVE  Ranges'
  <2>1. /\ snap.at > 0 /\ keep \in snap.at + 1 .. Len(seq)
        /\ cached' = snap.at /\ seq' = SubSeq(seq, 1, keep) /\ pc' = "ready"
        /\ UNCHANGED <<job, snap, passes, pass, fails>>
    BY <1>21 DEF Rewinds
  <2>2. keep \in 1 .. Len(seq)
    BY <1>1, <1>3, <1>4, <2>1
  <2>3. seq' \in Seq(S) /\ Len(seq') = keep
    BY <1>2, <2>1, <2>2, Texts
  <2>4. Len(seq') <= Tmax /\ cached' \in 0 .. Len(seq')
    BY <1>1, <1>3, <1>4, <2>1, <2>3
  <2>5. QED
    BY <1>1, <2>1, <2>3, <2>4 DEF Ranges
<1>22. CASE UNCHANGED vars
  <2>1. UNCHANGED <<job, pc, caller, pass, fails>>
    BY <1>22 DEF vars
  <2>2. QED
    BY <1>1, <1>5, <2>1
<1>23. CASE Spills
  <2>1. pc' \in Stages /\ UNCHANGED <<job, caller, pass, fails>>
    BY <1>23 DEF Spills
  <2>2. QED
    BY <1>1, <1>5, <2>1
<1>24. CASE NotDrawn
  <2>1. pc' \in Stages /\ UNCHANGED <<job, caller, pass>> /\ Reads(FALSE)
    BY <1>24 DEF NotDrawn
  <2>2. QED
    BY <1>1, <1>5, <2>1, ReadsIs
<1>25. QED
  BY <1>6, <1>7, <1>8, <1>9, <1>10, <1>11, <1>12, <1>13, <1>14, <1>15, <1>16, <1>17, <1>18,
     <1>19, <1>20, <1>21, <1>22, <1>23, <1>24 DEF Next

LEMMA LoadedKept ==
    ASSUME NaturalSizes, IInv, [Next]_vars
    PROVE  Loaded'
<1> USE DEF Serves, InPass, process, caller, pass
<1>1. Loaded
  BY DEF IInv
<1>2. CASE Loads
  <2>1. pc = "config" /\ cfg' = k3_cfg_load(job.doc) /\ job' = job /\ L' = L /\ nb' = nb
        /\ pc' = IF cfg'.ok THEN "trunk" ELSE "refused"
    BY <1>2 DEF Loads
  <2>2. k3_cfg_load(job.doc).ok \in BOOLEAN
    BY DEF k3_cfg_load, Refused
  <2>3. cfg'.ok => Sized(c')
    <3>1. job \in Jobs
      BY DEF IInv, Ranges
    <3>2. QED
      BY <2>1, <3>1 DEF NaturalSizes, c
  <2>4. QED
    BY <1>1, <2>1, <2>2, <2>3 DEF Loaded
<1>3. ASSUME UNCHANGED <<job, cfg>>, pc \notin {"config", "refused"},
             pc' \in Serves \/ (pc \notin Serves /\ UNCHANGED <<L, nb>>)
      PROVE  Loaded'
  <2>1. c' = c
    BY <1>3 DEF c
  <2>2. QED
    BY <1>1, <1>3, <2>1 DEF Loaded
<1>4. CASE BindsLayers
  <2>1. pc = "trunk" /\ UNCHANGED <<job, cfg, L, nb>>
    BY <1>4 DEF BindsLayers
  <2>2. QED
    BY <1>3, <2>1
<1>5. CASE OpensTrunk
  <2>1. pc = "trunk" /\ UNCHANGED <<job, cfg, L, nb>>
    BY <1>5 DEF OpensTrunk
  <2>2. QED
    BY <1>3, <2>1
<1>6. CASE BindsModel
  <2>1. pc = "model" /\ UNCHANGED <<job, cfg, L, nb>>
    BY <1>6 DEF BindsModel
  <2>2. QED
    BY <1>3, <2>1
<1>7. ASSUME NEW new \in Feeds, NEW all \in BOOLEAN, Feed(new, all)
      PROVE  Loaded'
  <2>1. pc \in Serves /\ pc' \in Serves /\ UNCHANGED <<job, cfg>>
    BY <1>7 DEF Feed
  <2>2. QED
    BY <1>3, <2>1
<1>8. CASE Fetches \/ Lent \/ NotLent \/ AlreadyBound
  <2>1. pc \in Serves /\ pc' \in Serves /\ UNCHANGED <<job, cfg>>
    BY <1>8 DEF Fetches, Lent, NotLent, AlreadyBound
  <2>2. QED
    BY <1>3, <2>1
<1>9. CASE Attends
  <2>1. pc \in Serves /\ pc' \in Serves /\ UNCHANGED <<job, cfg>>
    BY <1>9 DEF Attends
  <2>2. QED
    BY <1>3, <2>1
<1>10. CASE Mlp \/ Spills
  <2>1. pc \in Serves /\ pc' \in Serves /\ UNCHANGED <<job, cfg>>
    BY <1>10 DEF Mlp, Spills
  <2>2. QED
    BY <1>3, <2>1
<1>11. CASE Ranks
  <2>1. pc \in Serves /\ pc' \in Serves /\ UNCHANGED <<job, cfg>>
    BY <1>11 DEF Ranks
  <2>2. QED
    BY <1>3, <2>1
<1>12. CASE Draws \/ NotDrawn \/ Snapshot \/ Clears
  <2>1. pc \in Serves /\ pc' \in Serves /\ UNCHANGED <<job, cfg>>
    BY <1>12 DEF Draws, NotDrawn, Snapshot, Clears
  <2>2. QED
    BY <1>3, <2>1
<1>13. ASSUME NEW keep \in 1 .. Tmax, Rewinds(keep)
       PROVE  Loaded'
  <2>1. pc \in Serves /\ pc' \in Serves /\ UNCHANGED <<job, cfg>>
    BY <1>13 DEF Rewinds
  <2>2. QED
    BY <1>3, <2>1
<1>14. CASE UNCHANGED vars
  <2>1. UNCHANGED <<job, cfg, c, pc, L, nb>>
    BY <1>14 DEF vars, c
  <2>2. QED
    BY <1>1, <2>1 DEF Loaded
<1>15. QED
  BY <1>2, <1>4, <1>5, <1>6, <1>7, <1>8, <1>9, <1>10, <1>11, <1>12, <1>13, <1>14 DEF Next

(* At a block boundary there is a snapshot for each block before.           *)
LEMMA BlockBegins ==
    ASSUME NEW b \in Nat \ {0}, NEW n \in Nat, NEW k \in Nat, n % b = 0, k * b < n + b
    PROVE  k * b <= n
<1> DEFINE q == n \div b
<1>1. q \in Nat /\ n = b * q + (n % b)
  BY ONLY b \in Nat \ {0}, n \in Nat
<1>2. n = q * b
  <2> HIDE DEF q
  <2>1. b * q = q * b /\ b * q \in Nat
    BY <1>1
  <2>2. QED
    BY <1>1, <2>1
<1> HIDE DEF q
<1>3. SUFFICES ASSUME k > q PROVE FALSE
  <2>1. ASSUME k <= q PROVE k * b <= n
    BY <1>1, <1>2, <2>1, Scales
  <2>2. QED
    BY <1>1, <2>1
<1>4. q + 1 <= k /\ q + 1 \in Nat
  BY <1>1, <1>3
<1>5. (q + 1) * b <= k * b
  BY <1>4, Scales
<1>6. (q + 1) * b = n + b
  BY <1>1, <1>2
<1>7. k * b \in Nat
  OBVIOUS
<1>8. QED
  BY <1>5, <1>6, <1>7

(* So many snapshots have room, and the residual behind them.               *)
LEMMA BlocksFit ==
    ASSUME NEW b \in Nat \ {0}, NEW n \in Nat, NEW k \in Nat, k * b < n + b
    PROVE  k <= n \div b + 1
<1> DEFINE q == n \div b
           r == n % b
<1>1. q \in Nat /\ n = b * q + r /\ r \in 0 .. b - 1
  BY ONLY b \in Nat \ {0}, n \in Nat
<1> HIDE DEF q, r
<1>2. SUFFICES ASSUME k > q + 1 PROVE FALSE
  <2>1. k <= q + 1 \/ k > q + 1
    BY <1>1
  <2>2. QED
    BY <1>2, <2>1 DEF q
<1>3. q + 2 <= k /\ q + 2 \in Nat
  BY <1>1, <1>2
<1>4. (q + 2) * b <= k * b
  BY <1>3, Scales
<1>5. (q + 2) * b = b * q + b + b /\ b * q \in Nat /\ k * b \in Nat
  BY <1>1
<1>6. QED
  BY <1>1, <1>4, <1>5

LEMMA WalksKept ==
    ASSUME IInv, [Next]_vars, Ranges', Loaded'
    PROVE  Walks'
<1> USE DEF Serves, InPass, Midway, process, caller, pass
<1>1. Walks /\ cfg.ok \in BOOLEAN /\ L \in Nat /\ nb \in Nat
      /\ cached \in 0 .. Len(seq) /\ Len(seq) \in Nat
  <2>1. Len(seq) \in Nat
    BY LenProperties DEF IInv, Ranges
  <2>2. QED
    BY <2>1 DEF IInv, Ranges, Loaded
<1>2. cfg.ok => c.attn_res_block \in Nat \ {0} /\ NL \in 1 .. c.n_layers /\ c.n_layers \in Nat
  BY ConfigIs
<1>3. pc \notin {"config", "refused"} => cfg.ok
  BY DEF IInv, Loaded
<1>4. CASE Loads
  <2>1. pc = "config" /\ pc' \in {"trunk", "refused"} /\ UNCHANGED <<job, L, nb>>
    BY <1>4 DEF Loads
  <2>2. L = 0 /\ nb = 0
    BY <2>1 DEF IInv, Loaded
  <2>3. ASSUME cfg'.ok PROVE Walks'
    <3>1. job' \in Jobs /\ cfg' = k3_cfg_load(job'.doc)
      BY <2>3 DEF Ranges, Loaded
    <3>2. Sized(c')
      BY <2>3 DEF Loaded
    <3>3. c'.n_layers \in Nat /\ c'.attn_res_block \in Nat
      BY <3>2, SizesAre
    <3>4. Describes(c')
      <4>1. ~(Refused.ok) /\ k3_cfg_load(job'.doc).ok
        BY <2>3, <3>1 DEF Refused
      <4>2. k3_cfg_load(job'.doc) = [ok |-> TRUE, c |-> Read(job'.doc)] /\ Describes(Read(job'.doc))
        BY <4>1 DEF k3_cfg_load
      <4>3. QED
        BY <3>1, <4>2 DEF c
    <3>5. c'.n_layers > 0 /\ c'.attn_res_block > 0
      BY <3>4 DEF Describes
    <3>6. NL' \in Nat
      BY <3>3 DEF NL
    <3>7. nb' * c'.attn_res_block = 0
      BY <2>1, <2>2, <3>3
    <3>8. QED
      BY <2>1, <2>2, <3>3, <3>5, <3>6, <3>7 DEF Walks
  <2>4. QED
    BY <2>3 DEF Walks
<1>5. ASSUME UNCHANGED <<job, cfg>> PROVE c' = c /\ NL' = NL /\ opts' = opts /\ cfg'.ok = cfg.ok
  BY <1>5, Still
(* Steps outside a pass that end outside one.                               *)
<1>6. ASSUME UNCHANGED <<job, cfg, L, nb>>, pc \notin Midway, pc' \notin InPass \cup Midway,
             pc' # "answered"
      PROVE  Walks'
  BY <1>1, <1>5, <1>6 DEF Walks
<1>7. CASE BindsLayers
  <2>1. pc = "trunk" /\ pc' \in {"model", "refused"} /\ UNCHANGED <<job, cfg, L, nb>>
    BY <1>7 DEF BindsLayers
  <2>2. QED
    BY <1>6, <2>1
<1>8. CASE OpensTrunk
  <2>1. pc = "trunk" /\ pc' \in {"model", "refused"} /\ UNCHANGED <<job, cfg, L, nb>>
    BY <1>8 DEF OpensTrunk
  <2>2. QED
    BY <1>6, <2>1
<1>9. CASE BindsModel
  <2>1. pc = "model" /\ pc' \in {"ready", "refused"} /\ UNCHANGED <<job, cfg, L, nb>>
    BY <1>9 DEF BindsModel
  <2>2. QED
    BY <1>6, <2>1
<1>10. ASSUME NEW new \in Feeds, NEW all \in BOOLEAN, Feed(new, all)
       PROVE  Walks'
  <2>1. /\ pc \in {"ready", "answered"} /\ pc' \in {"layer", "failed"} /\ UNCHANGED <<job, cfg, cached>>
        /\ base' = (IF opts.incremental THEN cached ELSE 0) /\ base' < Len(seq') /\ L' = 0 /\ nb' = 0
    BY <1>10 DEF Feed
  <2>2. cfg.ok /\ c' = c /\ NL' = NL /\ opts' = opts
    BY <1>3, <1>5, <2>1
  <2>3. nb' * c'.attn_res_block = 0 /\ c'.attn_res_block > 0
    BY <1>2, <2>1, <2>2
  <2>4. QED
    BY <1>2, <2>1, <2>2, <2>3 DEF Walks
(* Steps of a walk that stay at their layer.                                *)
<1>11. ASSUME pc \in InPass, pc # "mlp", pc' \in {"layer", "fetch", "attention", "failed"},
              pc' \in {"fetch", "attention"} => L < NL,
              UNCHANGED <<job, cfg, base, cached, seq, L, nb>>
       PROVE  Walks'
  <2>1. cfg.ok /\ c' = c /\ NL' = NL /\ opts' = opts
    BY <1>3, <1>5, <1>11
  <2>2. QED
    BY <1>1, <1>11, <2>1 DEF Walks
<1>12. CASE Fetches
  <2>1. pc = "layer" /\ pc' = "fetch" /\ L < NL /\ UNCHANGED <<job, cfg, base, cached, seq, L, nb>>
    BY <1>12 DEF Fetches
  <2>2. QED
    BY <1>11, <2>1
<1>13. CASE Lent
  <2>1. pc = "fetch" /\ pc' \in {"attention", "failed"} /\ UNCHANGED <<job, cfg, base, cached, seq, L, nb>>
    BY <1>13 DEF Lent
  <2>2. L < NL
    BY <1>1, <1>3, <2>1 DEF Walks
  <2>3. QED
    BY <1>11, <2>1, <2>2
<1>14. CASE NotLent
  <2>1. pc = "fetch" /\ pc' = "failed" /\ UNCHANGED <<job, cfg, base, cached, seq, L, nb>>
    BY <1>14 DEF NotLent
  <2>2. QED
    BY <1>11, <2>1
<1>15. CASE AlreadyBound
  <2>1. pc = "layer" /\ pc' = "attention" /\ L < NL /\ UNCHANGED <<job, cfg, base, cached, seq, L, nb>>
    BY <1>15 DEF AlreadyBound
  <2>2. QED
    BY <1>11, <2>1
<1>16. CASE Attends
  <2>1. /\ pc = "attention" /\ pc' = "mlp" /\ UNCHANGED <<job, cfg, base, cached, seq, L>>
        /\ nb' = IF L % c.attn_res_block = 0 THEN nb + 1 ELSE nb
    BY <1>16 DEF Attends
  <2>2. cfg.ok /\ c' = c /\ NL' = NL /\ opts' = opts
    BY <1>3, <1>5, <2>1
  <2> DEFINE b == c.attn_res_block
  <2>3. b \in Nat \ {0} /\ L < NL /\ nb * b < L + b
    BY <1>1, <1>2, <2>1, <2>2 DEF Walks
  <2>4. nb' = (IF L % b = 0 THEN nb + 1 ELSE nb)
    BY <2>1
  <2>5. nb' * b < L + 1 + b
    <3> HIDE DEF b
    <3>1. nb * b \in Nat /\ (nb + 1) * b = nb * b + b
      BY <1>1, <2>3
    <3>2. L % b = 0 => nb * b <= L
      BY <1>1, <2>3, BlockBegins
    <3>3. QED
      BY <1>1, <2>3, <2>4, <3>1, <3>2
  <2>6. QED
    BY <1>1, <2>1, <2>2, <2>3, <2>5 DEF Walks
<1>17. CASE Mlp
  <2>1. pc = "mlp" /\ pc' \in {"layer", "failed"} /\ L' = L + 1
        /\ UNCHANGED <<job, cfg, base, cached, seq, nb>>
    BY <1>17 DEF Mlp
  <2>2. cfg.ok /\ c' = c /\ NL' = NL /\ opts' = opts
    BY <1>3, <1>5, <2>1
  <2>3. L < NL /\ nb * c.attn_res_block < L + 1 + c.attn_res_block
    BY <1>1, <2>1, <2>2 DEF Walks
  <2>4. QED
    BY <1>1, <1>2, <2>1, <2>2, <2>3 DEF Walks
<1>18. CASE Ranks
  <2>1. pc = "layer" /\ L = NL /\ pc' \in {"answered", "failed"} /\ UNCHANGED <<job, cfg, L, nb>>
    BY <1>18 DEF Ranks
  <2>2. cfg.ok /\ c' = c /\ NL' = NL /\ opts' = opts
    BY <1>3, <1>5, <2>1
  <2>3. QED
    BY <1>1, <2>1, <2>2 DEF Walks
<1>19. CASE Draws
  <2>1. pc = "answered" /\ pc' = "ready" /\ UNCHANGED <<job, cfg, L, nb>>
    BY <1>19 DEF Draws
  <2>2. QED
    BY <1>6, <2>1
<1>20. CASE Snapshot
  <2>1. pc \in {"ready", "answered"} /\ pc' = pc /\ UNCHANGED <<job, cfg, L, nb>>
    BY <1>20 DEF Snapshot
  <2>2. c' = c /\ NL' = NL /\ cfg'.ok = cfg.ok
    BY <1>5, <2>1
  <2>3. QED
    BY <1>1, <2>1, <2>2 DEF Walks
<1>21. CASE Clears
  <2>1. pc \in {"ready", "answered"} /\ pc' = "ready" /\ UNCHANGED <<job, cfg, L, nb>>
    BY <1>21 DEF Clears
  <2>2. QED
    BY <1>6, <2>1
<1>22. ASSUME NEW keep \in 1 .. Tmax, Rewinds(keep)
       PROVE  Walks'
  <2>1. pc \in {"failed", "answered"} /\ pc' = "ready" /\ UNCHANGED <<job, cfg, L, nb>>
    BY <1>22 DEF Rewinds
  <2>2. QED
    BY <1>6, <2>1
<1>23. CASE UNCHANGED vars
  <2>1. UNCHANGED <<pc, job, cfg, base, cached, seq, L, nb>>
    BY <1>23 DEF vars
  <2>2. c' = c /\ NL' = NL /\ opts' = opts /\ cfg'.ok = cfg.ok
    BY <1>5, <2>1
  <2>3. QED
    BY <1>1, <2>1, <2>2 DEF Walks
<1>24. CASE NotDrawn
  <2>1. pc = "answered" /\ pc' = "failed" /\ UNCHANGED <<job, cfg, L, nb>>
    BY <1>24 DEF NotDrawn
  <2>2. QED
    BY <1>6, <2>1
<1>25. CASE Spills
  <2>1. pc = "mlp" /\ pc' = "astray" /\ UNCHANGED <<job, cfg, base, cached, seq, L, nb>>
    BY <1>25 DEF Spills
  <2>2. cfg.ok /\ c' = c /\ NL' = NL /\ opts' = opts
    BY <1>3, <1>5, <2>1
  <2>3. QED
    BY <1>1, <2>1, <2>2 DEF Walks
<1>26. QED
  BY <1>4, <1>7, <1>8, <1>9, <1>10, <1>12, <1>13, <1>14, <1>15, <1>16, <1>17, <1>18,
     <1>19, <1>20, <1>21, <1>22, <1>23, <1>24, <1>25 DEF Next

LEMMA BoundKept ==
    ASSUME IInv, [Next]_vars
    PROVE  Bound'
<1> USE DEF Serves, InPass, process, caller, pass, loan
<1>1. Bound /\ L \in Nat
  BY DEF IInv, Ranges
<1>2. cfg.ok => NL \in Nat \ {0}
  BY ConfigIs
<1>3. pc \notin {"config", "refused"} => cfg.ok
  BY DEF IInv, Loaded
<1>4. ASSUME UNCHANGED <<job, cfg>>
      PROVE  /\ c' = c /\ opts' = opts /\ store' = store /\ NL' = NL /\ ModelLevel' = ModelLevel
             /\ OfModel' = OfModel /\ \A n : BoundAs(n)' = BoundAs(n)
  BY <1>4, Still
(* What holds of the weights while they are left alone.                     *)
<1>5. ASSUME UNCHANGED <<job, cfg, mb, lay>>, pc \in Serves, pc' \in Serves,
             pc' \in InPass \cup {"answered"} => \A n \in 0 .. L' - 1 : lay[n].ok,
             pc' \in {"attention", "mlp"} => lay[L'].ok,
             pc' = "fetch" => opts.trunk /\ src_layer' = L'
      PROVE  Bound'
  <2>1. /\ c' = c /\ opts' = opts /\ store' = store /\ NL' = NL /\ ModelLevel' = ModelLevel
        /\ OfModel' = OfModel /\ \A n : BoundAs(n)' = BoundAs(n)
    BY <1>4, <1>5
  <2>2. /\ DOMAIN lay = 0 .. NL - 1
        /\ \A n \in 0 .. NL - 1 : lay[n] = BoundAs(n) \/ (opts.trunk /\ lay[n] = Refused)
        /\ ~opts.trunk => \A n \in 0 .. NL - 1 : lay[n].ok
        /\ opts.trunk => IndexHolds(job.index) /\ job.index.layers >= NL
        /\ mb = OfModel /\ mb.ok /\ (opts.ultra => stream_init(c, store[ModelLevel]))
    BY <1>1, <1>5 DEF Bound
  <2>3. /\ DOMAIN lay' = 0 .. NL' - 1
        /\ \A n \in 0 .. NL' - 1 : lay'[n] = BoundAs(n)' \/ (opts'.trunk /\ lay'[n] = Refused)
        /\ ~opts'.trunk => \A n \in 0 .. NL' - 1 : lay'[n].ok
        /\ opts'.trunk => IndexHolds(job'.index) /\ job'.index.layers >= NL'
    BY <1>5, <2>1, <2>2
  <2>4. mb' = OfModel' /\ mb'.ok /\ (opts'.ultra => stream_init(c', store'[ModelLevel']))
    BY <1>5, <2>1, <2>2
  <2>5. /\ pc' \in InPass \cup {"answered"} => \A n \in 0 .. L' - 1 : lay'[n].ok
        /\ pc' \in {"attention", "mlp"} => lay'[L'].ok
        /\ pc' = "fetch" => opts'.trunk /\ src_layer' = L'
    BY <1>5, <2>1
  <2>6. QED
    BY <2>3, <2>4, <2>5 DEF Bound
<1>6. CASE Loads
  <2>1. pc' \in {"trunk", "refused"}
    BY <1>6 DEF Loads
  <2>2. QED
    BY <2>1 DEF Bound
<1>7. CASE BindsLayers
  <2>1. /\ ~opts.trunk /\ lay' = [n \in 0 .. NL - 1 |-> bind_resident(store[n], plan_layer(c, n))]
        /\ pc' \in {"model", "refused"} /\ UNCHANGED <<job, cfg, src_layer, L>>
        /\ pc' = "model" => \A n \in DOMAIN lay' : lay'[n].ok
    BY <1>7 DEF BindsLayers
  <2>2. /\ opts' = opts /\ NL' = NL /\ \A n : BoundAs(n)' = BoundAs(n)
    BY <1>4, <2>1
  <2>3. \A n : BoundAs(n) = bind_resident(store[n], plan_layer(c, n))
    BY <2>1 DEF BoundAs
  <2>4. DOMAIN lay' = 0 .. NL - 1 /\ \A n \in 0 .. NL - 1 : lay'[n] = BoundAs(n)
    BY <2>1, <2>3
  <2>5. CASE pc' = "refused"
    BY <2>5 DEF Bound
  <2>6. CASE pc' = "model"
    BY <2>1, <2>2, <2>4, <2>6 DEF Bound
  <2>7. QED
    BY <2>1, <2>5, <2>6
<1>8. CASE OpensTrunk
  <2>1. /\ opts.trunk /\ lay' = [n \in 0 .. NL - 1 |-> Refused]
        /\ pc' \in {"model", "refused"} /\ UNCHANGED <<job, cfg, src_layer, L>>
        /\ pc' = "model" => IndexHolds(job.index) /\ job.index.layers >= NL
    BY <1>8 DEF OpensTrunk
  <2>2. /\ opts' = opts /\ NL' = NL
    BY <1>4, <2>1
  <2>3. DOMAIN lay' = 0 .. NL - 1 /\ \A n \in 0 .. NL - 1 : lay'[n] = Refused
    BY <2>1
  <2>4. IndexHolds(job.index)' = IndexHolds(job.index)
    BY <2>1
  <2>5. CASE pc' = "refused"
    BY <2>5 DEF Bound
  <2>6. CASE pc' = "model"
    BY <2>1, <2>2, <2>3, <2>4, <2>6 DEF Bound
  <2>7. QED
    BY <2>1, <2>5, <2>6
<1>9. CASE BindsModel
  <2>1. /\ pc = "model" /\ mb' = OfModel /\ UNCHANGED <<job, cfg, lay, src_layer, L>>
        /\ pc' \in {"ready", "refused"}
        /\ pc' = "ready" => mb'.ok /\ (opts.ultra => stream_init(c, store[ModelLevel]))
    BY <1>9 DEF BindsModel, OfModel
  <2>2. /\ c' = c /\ opts' = opts /\ store' = store /\ NL' = NL /\ ModelLevel' = ModelLevel
        /\ OfModel' = OfModel /\ \A n : BoundAs(n)' = BoundAs(n)
    BY <1>4, <2>1
  <2>3. /\ DOMAIN lay = 0 .. NL - 1
        /\ \A n \in 0 .. NL - 1 : lay[n] = BoundAs(n) \/ (opts.trunk /\ lay[n] = Refused)
        /\ ~opts.trunk => \A n \in 0 .. NL - 1 : lay[n].ok
        /\ opts.trunk => IndexHolds(job.index) /\ job.index.layers >= NL
    BY <1>1, <2>1 DEF Bound
  <2>4. CASE pc' = "refused"
    BY <2>4 DEF Bound
  <2>5. CASE pc' = "ready"
    <3>1. mb' = OfModel' /\ mb'.ok /\ (opts'.ultra => stream_init(c', store'[ModelLevel']))
      BY <2>1, <2>2, <2>5
    <3>2. /\ DOMAIN lay' = 0 .. NL' - 1
          /\ \A n \in 0 .. NL' - 1 : lay'[n] = BoundAs(n)' \/ (opts'.trunk /\ lay'[n] = Refused)
          /\ ~opts'.trunk => \A n \in 0 .. NL' - 1 : lay'[n].ok
          /\ opts'.trunk => IndexHolds(job'.index) /\ job'.index.layers >= NL'
      BY <2>1, <2>2, <2>3
    <3>3. QED
      BY <2>5, <3>1, <3>2 DEF Bound
  <2>6. QED
    BY <2>1, <2>4, <2>5
<1>10. ASSUME NEW new \in Feeds, NEW all \in BOOLEAN, Feed(new, all)
       PROVE  Bound'
  <2>1. /\ pc \in {"ready", "answered"} /\ pc' \in {"layer", "failed"}
        /\ UNCHANGED <<job, cfg, mb, lay>> /\ L' = 0
    BY <1>10 DEF Feed
  <2>2. \A n \in 0 .. L' - 1 : lay[n].ok
    BY <2>1
  <2>3. QED
    BY <1>5, <2>1, <2>2
<1>11. CASE Fetches
  <2>1. pc = "layer" /\ pc' = "fetch" /\ opts.trunk /\ UNCHANGED <<job, cfg, mb, lay, L>>
    BY <1>11 DEF Fetches
  <2>2. src_layer' = L
    BY <1>11 DEF Fetches, Source!Ask
  <2>3. \A n \in 0 .. L - 1 : lay[n].ok
    BY <1>1, <2>1 DEF Bound
  <2>4. QED
    BY <1>5, <2>1, <2>2, <2>3
<1>12. CASE Lent
  <2>1. /\ pc = "fetch" /\ UNCHANGED <<job, cfg, mb, L>>
        /\ lay' = [lay EXCEPT ![L] = bind_layer_mem(c, L, store[src_bytes'])]
        /\ pc' = IF lay'[L].ok THEN "attention" ELSE "failed"
    BY <1>12 DEF Lent
  <2>2. src_bytes' = src_layer /\ src_layer = L /\ opts.trunk
    BY <1>1, <1>12, <2>1 DEF Lent, Source!Lend, Bound
  <2>3. /\ c' = c /\ opts' = opts /\ store' = store /\ NL' = NL /\ ModelLevel' = ModelLevel
        /\ OfModel' = OfModel /\ \A n : BoundAs(n)' = BoundAs(n)
    BY <1>4, <2>1
  <2>4. cfg.ok /\ L < NL
    BY <1>3, <2>1 DEF IInv, Walks
  <2>5. /\ DOMAIN lay = 0 .. NL - 1
        /\ \A n \in 0 .. NL - 1 : lay[n] = BoundAs(n) \/ (opts.trunk /\ lay[n] = Refused)
        /\ opts.trunk => IndexHolds(job.index) /\ job.index.layers >= NL
        /\ mb = OfModel /\ mb.ok /\ (opts.ultra => stream_init(c, store[ModelLevel]))
        /\ \A n \in 0 .. L - 1 : lay[n].ok
    BY <1>1, <2>1 DEF Bound
  <2>6. L \in 0 .. NL - 1
    BY <1>1, <1>2, <2>4
  <2>7. BoundAs(L) = bind_layer_mem(c, L, store[L])
    BY <2>2 DEF BoundAs
  <2>8. /\ DOMAIN lay' = 0 .. NL - 1 /\ lay'[L] = BoundAs(L)
        /\ \A n \in 0 .. NL - 1 : n # L => lay'[n] = lay[n]
    BY <2>1, <2>2, <2>5, <2>6, <2>7
  <2>9. \A n \in 0 .. L' - 1 : lay'[n].ok
    <3>1. \A n \in 0 .. L - 1 : n \in 0 .. NL - 1 /\ n # L
      BY <1>1, <1>2, <2>4
    <3>2. QED
      BY <2>1, <2>5, <2>8, <3>1
  <2>10. /\ DOMAIN lay' = 0 .. NL' - 1
         /\ \A n \in 0 .. NL' - 1 : lay'[n] = BoundAs(n)' \/ (opts'.trunk /\ lay'[n] = Refused)
         /\ opts'.trunk
         /\ opts'.trunk => IndexHolds(job'.index) /\ job'.index.layers >= NL'
    BY <2>1, <2>2, <2>3, <2>5, <2>8
  <2>11. mb' = OfModel' /\ mb'.ok /\ (opts'.ultra => stream_init(c', store'[ModelLevel']))
    BY <2>1, <2>3, <2>5
  <2>12. pc' \in {"attention", "failed"} /\ (pc' = "attention" => lay'[L'].ok)
    BY <2>1
  <2>13. QED
    BY <2>9, <2>10, <2>11, <2>12 DEF Bound
<1>13. CASE NotLent
  <2>1. pc = "fetch" /\ pc' = "failed" /\ UNCHANGED <<job, cfg, mb, lay>>
    BY <1>13 DEF NotLent
  <2>2. QED
    BY <1>5, <2>1
<1>14. CASE AlreadyBound
  <2>1. pc = "layer" /\ pc' = "attention" /\ ~opts.trunk /\ L < NL /\ UNCHANGED <<job, cfg, mb, lay, L>>
    BY <1>14 DEF AlreadyBound
  <2>2. (\A n \in 0 .. L - 1 : lay[n].ok) /\ \A n \in 0 .. NL - 1 : lay[n].ok
    BY <1>1, <2>1 DEF Bound
  <2>3. L \in 0 .. NL - 1
    BY <1>1, <1>2, <1>3, <2>1
  <2>4. QED
    BY <1>5, <2>1, <2>2, <2>3
<1>15. CASE Attends
  <2>1. pc = "attention" /\ pc' = "mlp" /\ UNCHANGED <<job, cfg, mb, lay, L>>
    BY <1>15 DEF Attends
  <2>2. (\A n \in 0 .. L - 1 : lay[n].ok) /\ lay[L].ok
    BY <1>1, <2>1 DEF Bound
  <2>3. QED
    BY <1>5, <2>1, <2>2
<1>16. CASE Mlp
  <2>1. pc = "mlp" /\ pc' \in {"layer", "failed"} /\ L' = L + 1 /\ UNCHANGED <<job, cfg, mb, lay>>
    BY <1>16 DEF Mlp
  <2>2. (\A n \in 0 .. L - 1 : lay[n].ok) /\ lay[L].ok
    BY <1>1, <2>1 DEF Bound
  <2>3. \A n \in 0 .. L' - 1 : lay[n].ok
    <3>1. \A n \in 0 .. L' - 1 : n \in 0 .. L - 1 \/ n = L
      BY <1>1, <2>1
    <3>2. QED
      BY <2>2, <3>1
  <2>4. QED
    BY <1>5, <2>1, <2>3
<1>17. CASE Ranks
  <2>1. pc = "layer" /\ pc' \in {"answered", "failed"} /\ UNCHANGED <<job, cfg, mb, lay, L>>
    BY <1>17 DEF Ranks
  <2>2. \A n \in 0 .. L - 1 : lay[n].ok
    BY <1>1, <2>1 DEF Bound
  <2>3. QED
    BY <1>5, <2>1, <2>2
<1>18. CASE Draws
  <2>1. pc = "answered" /\ pc' = "ready" /\ UNCHANGED <<job, cfg, mb, lay>>
    BY <1>18 DEF Draws
  <2>2. QED
    BY <1>5, <2>1
<1>19. CASE Snapshot
  <2>1. pc \in {"ready", "answered"} /\ pc' = pc /\ UNCHANGED <<job, cfg, mb, lay, L>>
    BY <1>19 DEF Snapshot
  <2>2. pc = "answered" => \A n \in 0 .. L - 1 : lay[n].ok
    BY <1>1 DEF Bound
  <2>3. QED
    BY <1>5, <2>1, <2>2
<1>20. CASE Clears
  <2>1. pc \in {"ready", "answered"} /\ pc' = "ready" /\ UNCHANGED <<job, cfg, mb, lay>>
    BY <1>20 DEF Clears
  <2>2. QED
    BY <1>5, <2>1
<1>21. ASSUME NEW keep \in 1 .. Tmax, Rewinds(keep)
       PROVE  Bound'
  <2>1. pc \in {"failed", "answered"} /\ pc' = "ready" /\ UNCHANGED <<job, cfg, mb, lay>>
    BY <1>21 DEF Rewinds
  <2>2. QED
    BY <1>5, <2>1
<1>22. CASE UNCHANGED vars
  <2>1. UNCHANGED <<pc, job, cfg, mb, lay, src_layer, L>>
    BY <1>22 DEF vars
  <2>2. CASE pc \in Serves
    BY <1>1, <1>5, <2>1, <2>2 DEF Bound
  <2>3. CASE pc = "model"
    <3>1. /\ opts' = opts /\ NL' = NL /\ \A n : BoundAs(n)' = BoundAs(n)
      BY <1>4, <2>1
    <3>2. QED
      BY <1>1, <2>1, <2>3, <3>1 DEF Bound
  <2>4. CASE pc \notin {"model"} \cup Serves
    BY <2>1, <2>4 DEF Bound
  <2>5. QED
    BY <2>2, <2>3, <2>4
<1>23. CASE Spills \/ NotDrawn
  <2>1. pc \in {"mlp", "answered"} /\ pc' \in {"astray", "failed"} /\ UNCHANGED <<job, cfg, mb, lay>>
    BY <1>23 DEF Spills, NotDrawn
  <2>2. QED
    BY <1>5, <2>1
<1>24. QED
  BY <1>6, <1>7, <1>8, <1>9, <1>10, <1>11, <1>12, <1>13, <1>14, <1>15, <1>16, <1>17, <1>18,
     <1>19, <1>20, <1>21, <1>22, <1>23 DEF Next

LEMMA Begins ==
    ASSUME Init
    PROVE  IInv
<1>1. /\ job \in Jobs /\ pc = "config" /\ cfg = Refused /\ seq = <<>> /\ cached = 0 /\ passes = 0
      /\ fails = 0 /\ snap = [ks |-> <<>>, at |-> 0] /\ base = 0 /\ L = 0 /\ nb = 0
  BY DEF Init
<1>2. ~cfg.ok /\ cfg.ok \in BOOLEAN
  BY <1>1 DEF Refused
<1>3. seq \in Seq(Nat) /\ Len(seq) = 0 /\ snap.at = 0
  BY <1>1
<1>4. Ranges
  BY <1>1, <1>3, ForwardAssumption DEF Ranges, Stages
<1>5. Loaded
  BY <1>1, <1>2 DEF Loaded
<1>6. Walks
  BY <1>2 DEF Walks
<1>7. Bound
  BY <1>1 DEF Bound, Serves, InPass
<1>8. QED
  BY <1>4, <1>5, <1>6, <1>7 DEF IInv

(* The inductive invariant of the forward pass: what is bound, how far the  *)
(* walk is, how many snapshots it has taken.                                *)
THEOREM Invariant ==
    ASSUME NaturalSizes
    PROVE  Spec => []IInv
<1>1. Init => IInv
  BY Begins
<1>2. IInv /\ [Next]_vars => IInv'
  <2>1. SUFFICES ASSUME IInv, [Next]_vars PROVE IInv'
    OBVIOUS
  <2>2. Ranges' /\ Loaded' /\ Bound'
    BY <2>1, RangesKept, LoadedKept, BoundKept
  <2>3. Walks'
    BY <2>1, <2>2, WalksKept
  <2>4. QED
    BY <2>2, <2>3 DEF IInv
<1>3. QED
  BY <1>1, <1>2, PTL DEF Spec

-----------------------------------------------------------------------------
(* What the invariant gives. *)

LEMMA BoundLies ==
    ASSUME NEW m, Sized(m), NEW n, NEW tensors
    PROVE  /\ bind_layer_mem(m, n, tensors).ok => LaidOut(bind_layer_mem(m, n, tensors))
           /\ bind_resident(tensors, plan_layer(m, n)).ok
                => LaidOut(bind_resident(tensors, plan_layer(m, n)))
BY LayerIsPlan, WidenIs, ResidentLaidOut, PackedLaidOut

LEMMA TypesFollow == IInv => TypeOK
<1> SUFFICES ASSUME IInv PROVE TypeOK
  OBVIOUS
<1> USE DEF Serves, InPass, Midway
<1>1. Ranges /\ Loaded /\ Walks /\ Bound
  BY DEF IInv
<1>2. /\ pc \in Stages /\ Len(seq) \in 0 .. Tmax /\ cached \in 0 .. Len(seq) /\ base \in 0 .. Tmax
      /\ passes \in 0 .. MaxPasses /\ fails \in 0 .. MaxFails
  <2>1. Len(seq) \in Nat
    BY <1>1, LenProperties DEF Ranges
  <2>2. QED
    BY <1>1, <2>1, ForwardAssumption DEF Ranges
<1>3. ASSUME cfg.ok PROVE L \in 0 .. NL /\ nb \in 0 .. maxb(c) - 1
  <2>1. /\ c.n_layers \in Nat \ {0} /\ c.attn_res_block \in Nat \ {0} /\ NL \in 1 .. c.n_layers
    BY <1>3, ConfigIs
  <2>2. L \in Nat /\ nb \in Nat /\ L <= NL
        /\ nb * c.attn_res_block < L + (IF pc \in Midway THEN 1 ELSE 0) + c.attn_res_block
        /\ (pc \in Midway => L < NL)
    BY <1>1, <1>3 DEF Ranges, Walks
  <2> DEFINE b == c.attn_res_block
             n == c.n_layers
  <2>3. nb * b < n + b
    <3> DEFINE x == nb * b
    <3>1. x \in Nat /\ b \in Nat /\ n \in Nat
      BY <2>1, <2>2
    <3>2. x < L + (IF pc \in Midway THEN 1 ELSE 0) + b
      BY <2>2
    <3> HIDE DEF x, b
    <3>3. NL <= n /\ NL \in Nat
      BY <2>1
    <3>4. L + (IF pc \in Midway THEN 1 ELSE 0) <= NL
      BY <2>2, <3>3
    <3> HIDE DEF n
    <3>5. x < n + b
      BY <2>2, <3>1, <3>2, <3>3, <3>4
    <3>6. QED
      BY <3>5 DEF x
  <2>4. nb <= n \div b + 1
    BY <2>1, <2>2, <2>3, BlocksFit
  <2>5. maxb(c) = n \div b + 2
    BY DEF maxb
  <2>6. n \div b \in Nat
    BY ONLY <2>1
  <2> HIDE DEF b, n
  <2>7. QED
    BY <2>1, <2>2, <2>4, <2>5, <2>6
<1>4. ASSUME pc = "attention" PROVE LaidOut(lay[L])
  <2>1. cfg.ok /\ L < NL /\ L \in Nat
    BY <1>1, <1>4 DEF Loaded, Walks, Ranges
  <2>2. Sized(c) /\ NL \in Nat
    BY <2>1, ConfigIs
  <2>3. L \in 0 .. NL - 1
    BY <2>1, <2>2
  <2>4. lay[L].ok /\ (lay[L] = BoundAs(L) \/ lay[L] = Refused)
    BY <1>1, <1>4, <2>3 DEF Bound
  <2>5. lay[L] = BoundAs(L)
    BY <2>4 DEF Refused
  <2>6. LaidOut(BoundAs(L))
    BY <2>2, <2>4, <2>5, BoundLies DEF BoundAs
  <2>7. QED
    BY <2>5, <2>6
<1>5. ASSUME pc = "answered" PROVE LaidOut(mb)
  <2>1. cfg.ok /\ mb = OfModel /\ mb.ok
    BY <1>1, <1>5 DEF Loaded, Bound
  <2>2. Sized(c)
    BY <2>1, ConfigIs
  <2>3. plan_model(c, ~opts.ultra, ~opts.ultra) \in Seq(Request)
    BY <2>2, ModelIsPlan
  <2>4. QED
    BY <2>1, <2>3, ResidentLaidOut DEF OfModel
<1>6. QED
  BY <1>2, <1>3, <1>4, <1>5 DEF TypeOK, Stages

(* The counters stay in range, the snapshots fit beside the residual, and   *)
(* what a layer, or the last projection, computes with was bound to regions *)
(* that lie apart, aligned and inside their area, for every checkpoint and  *)
(* every config without negative sizes.                                     *)
THEOREM TypesHold ==
    ASSUME NaturalSizes
    PROVE  Spec => []TypeOK
BY Invariant, TypesFollow, PTL

LEMMA AttentionFits ==
    ASSUME IInv, pc = "attention"
    PROVE  Allocated(c, Tmax) >= LayerReach(c, T, IF is_mla(c, L)
                                   THEN MlaReach(c, T, IF opts.incremental THEN cached ELSE 0,
                                                 opts.incremental)
                                   ELSE KdaReach(c, T))
<1>1. /\ cfg.ok /\ Len(seq) \in Nat /\ Len(seq) <= Tmax /\ base < Len(seq)
      /\ base = (IF opts.incremental THEN cached ELSE 0) /\ base \in 0 .. Tmax /\ Tmax \in Nat
  <2>1. Len(seq) \in Nat
    BY LenProperties DEF IInv, Ranges
  <2>2. QED
    BY <2>1, ForwardAssumption DEF IInv, Ranges, Loaded, Walks, InPass
<1>2. Sized(c) /\ c.attn_res_block > 0
  BY <1>1, ConfigIs
<1>3. base \in Nat /\ T \in Nat /\ base + T <= Tmax /\ T <= Tmax
  BY <1>1 DEF T
<1>4. opts.incremental \in BOOLEAN
  BY JobsAssumption DEF IInv, Ranges, opts, Options
<1> DEFINE mla == MlaReach(c, T, base, opts.incremental)
           kda == KdaReach(c, T)
           askedM == mla_scratch(c, Tmax, Tmax, FALSE)
           askedK == kda_scratch(c, Tmax)
           askedE == moe_scratch(c)
<1>5. mla \in Nat /\ askedM \in Nat /\ mla <= askedM
  BY <1>1, <1>2, <1>3, <1>4, MlaFits
<1>6. kda \in Nat /\ askedK \in Nat /\ kda <= askedK
  BY <1>1, <1>2, <1>3, KdaFits
<1>7. askedE \in Nat
  BY <1>2, MoeFits
<1>8. sub_scratch(c, Tmax) = Larger(Larger(askedM, askedK), askedE)
  BY DEF sub_scratch
<1> HIDE DEF mla, kda, askedM, askedK, askedE
<1>9. mla <= sub_scratch(c, Tmax) /\ kda <= sub_scratch(c, Tmax)
  <2>1. Larger(askedM, askedK) \in Nat /\ Larger(askedM, askedK) >= askedM /\ Larger(askedM, askedK) >= askedK
    BY <1>5, <1>6, LargerIs
  <2>2. sub_scratch(c, Tmax) >= Larger(askedM, askedK) /\ sub_scratch(c, Tmax) \in Nat
    BY <1>7, <1>8, <2>1, LargerIs
  <2>3. QED
    BY <1>5, <1>6, <2>1, <2>2
<1>10. Allocated(c, Tmax) >= LayerReach(c, T, mla) /\ Allocated(c, Tmax) >= LayerReach(c, T, kda)
  BY <1>1, <1>2, <1>3, <1>5, <1>6, <1>9, SubFits
<1>11. mla = MlaReach(c, T, IF opts.incremental THEN cached ELSE 0, opts.incremental)
  BY <1>1 DEF mla
<1>12. QED
  BY <1>10, <1>11 DEF kda

(* The activations of a dense layer, as far as they are counted or not.     *)
LEMMA DenseReaches ==
    ASSUME NEW m, Sized(m), m.attn_res_block > 0, NEW most \in Nat, NEW n \in Nat, n <= most
    PROVE  Allocated(m, most) + Uncounted(m, most) >= LayerReach(m, n, DenseReach(m))
<1> DEFINE d == DenseReach(m)
           sub == sub_scratch(m, most)
           more == Uncounted(m, most)
<1>1. d \in Nat
  BY SizesAre DEF DenseReach
<1>2. /\ sub \in Nat /\ layer_scratch(m, most) = Front(m, most) + sub
      /\ Allocated(m, most) \in Int /\ Allocated(m, most) >= layer_scratch(m, most)
  BY AllocatedIs
<1>3. Front(m, n) \in Nat /\ Front(m, most) \in Nat /\ Front(m, n) <= Front(m, most)
  BY FrontGrows
<1>4. LayerReach(m, n, d) = Front(m, n) + d
  <2> HIDE DEF d
  <2>1. QED
    BY <1>1, ReachIs
<1>5. more = IF d - sub > 0 THEN d - sub ELSE 0
  BY DEF Uncounted, Larger, DenseReach
<1> HIDE DEF d, sub, more
<1>6. d <= sub + more /\ more \in Nat
  BY <1>1, <1>2, <1>5
<1>7. Allocated(m, most) + more >= Front(m, n) + d
  BY <1>1, <1>2, <1>3, <1>6
<1>8. QED
  BY <1>4, <1>7 DEF d, more

LEMMA MlpFits ==
    ASSUME IInv, pc = "mlp"
    PROVE  IF is_dense(c, L)
           THEN Allocated(c, Tmax) + Uncounted(c, Tmax) >= LayerReach(c, T, DenseReach(c))
           ELSE Allocated(c, Tmax) >= LayerReach(c, T, MoeReach(c, T > 1 /\ opts.batch /\ ~opts.draft))
<1>1. /\ cfg.ok /\ Len(seq) \in Nat /\ Len(seq) <= Tmax /\ base < Len(seq) /\ base \in 0 .. Tmax
      /\ L \in Nat /\ Tmax \in Nat
  <2>1. Len(seq) \in Nat
    BY LenProperties DEF IInv, Ranges
  <2>2. QED
    BY <2>1, ForwardAssumption DEF IInv, Ranges, Loaded, Walks, InPass
<1>2. Sized(c) /\ c.attn_res_block > 0
  BY <1>1, ConfigIs
<1>3. T \in Nat /\ T <= Tmax
  BY <1>1 DEF T
<1> DEFINE batched == T > 1 /\ opts.batch /\ ~opts.draft
           moe == MoeReach(c, batched)
           askedM == mla_scratch(c, Tmax, Tmax, FALSE)
           askedK == kda_scratch(c, Tmax)
           askedE == moe_scratch(c)
<1>4. batched \in BOOLEAN
  OBVIOUS
<1>5. moe \in Nat /\ askedE \in Nat /\ moe <= askedE
  <2> HIDE DEF batched
  <2>1. QED
    BY <1>2, <1>4, MoeFits
<1>6. askedM \in Nat /\ askedK \in Nat
  <2>1. 0 \in Nat /\ 0 + Tmax <= Tmax /\ Tmax <= Tmax /\ FALSE \in BOOLEAN
    BY <1>1
  <2>2. QED
    BY <1>1, <1>2, <2>1, MlaFits, KdaFits
<1>7. sub_scratch(c, Tmax) = Larger(Larger(askedM, askedK), askedE)
  BY DEF sub_scratch
<1> HIDE DEF batched, moe, askedM, askedK, askedE
<1>8. sub_scratch(c, Tmax) >= moe
  <2>1. Larger(askedM, askedK) \in Nat
    BY <1>6, LargerIs
  <2>2. sub_scratch(c, Tmax) >= askedE /\ sub_scratch(c, Tmax) \in Nat
    BY <1>5, <1>7, <2>1, LargerIs
  <2>3. QED
    BY <1>5, <2>2
<1>9. CASE is_dense(c, L)
  BY <1>1, <1>2, <1>3, <1>9, DenseReaches
<1>10. CASE ~is_dense(c, L)
  <2>1. moe <= sub_scratch(c, Tmax)
    BY <1>5, <1>8
  <2>2. Allocated(c, Tmax) >= LayerReach(c, T, moe)
    BY <1>1, <1>2, <1>3, <1>5, <2>1, SubFits
  <2>3. QED
    BY <1>10, <2>2 DEF moe, batched
<1>11. QED
  BY <1>9, <1>10

LEMMA RankFits ==
    ASSUME IInv, pc = "layer", L = NL
    PROVE  Allocated(c, Tmax) >= RankReach(c, nb)
<1>1. cfg.ok /\ TypeOK /\ Tmax \in Nat
  BY TypesFollow, ForwardAssumption DEF IInv, Loaded
<1>2. Sized(c) /\ c.attn_res_block > 0
  BY <1>1, ConfigIs
<1>3. nb \in 0 .. Stack(c) - 1 /\ Stack(c) \in Nat
  BY <1>1, <1>2, StackIs DEF TypeOK, maxb, Stack
<1>4. c.hidden \in Nat /\ c.dense_inter \in Nat
  BY <1>2, SizesAre
<1> DEFINE have == 3 * Tmax + 2 + Stack(c)
           used == nb + 2
           sub == 0
<1>5. have \in Nat /\ used \in Nat /\ used <= have
  BY <1>1, <1>3
<1>6. used * c.hidden \in Nat /\ have * c.hidden \in Nat /\ used * c.hidden <= have * c.hidden
  <2> HIDE DEF have, used
  <2>1. QED
    BY <1>4, <1>5, Scales
<1>7. Front(c, Tmax) >= RankReach(c, nb) /\ RankReach(c, nb) \in Nat
  <2>1. Front(c, Tmax) = have * c.hidden + 2 * c.dense_inter /\ RankReach(c, nb) = used * c.hidden
    BY DEF Front, RankReach
  <2> DEFINE x == have * c.hidden
             y == used * c.hidden
  <2>2. x \in Nat /\ y \in Nat /\ y <= x
    BY <1>6
  <2> HIDE DEF have, used, x, y
  <2>3. QED
    BY <1>4, <2>1, <2>2 DEF x, y
<1>8. 0 <= sub_scratch(c, Tmax)
  <2>1. sub_scratch(c, Tmax) \in Nat
    BY <1>1, <1>2, AllocatedIs
  <2>2. QED
    BY <2>1
<1>9. Allocated(c, Tmax) >= LayerReach(c, Tmax, 0) /\ LayerReach(c, Tmax, 0) = Front(c, Tmax) + 0
      /\ Front(c, Tmax) \in Nat
  <2>1. 0 \in Nat /\ Tmax <= Tmax
    BY <1>1
  <2>2. QED
    BY <1>1, <1>2, <1>8, <2>1, SubFits, ReachIs
<1>10. Allocated(c, Tmax) \in Int
  <2>1. 0 \in Nat /\ 0 + Tmax <= Tmax
    BY <1>1
  <2>2. QED
    BY <1>1, <1>2, AllocatedIs
<1>11. QED
  BY <1>7, <1>9, <1>10

(* One buffer, allocated before the first pass for the longest text, holds  *)
(* every region of every step of every pass, for every config without       *)
(* negative sizes: but for the activations of a dense layer, which reach    *)
(* past it by no more than they are wider than attention or experts need.   *)
THEOREM ScratchHeld ==
    ASSUME NaturalSizes
    PROVE  Spec => []ScratchHolds
<1>1. IInv => ScratchHolds
  BY AttentionFits, MlpFits, RankFits DEF ScratchHolds
<1>2. QED
  BY <1>1, Invariant, PTL

-----------------------------------------------------------------------------
(* Why a process stops. *)

(* A failure is on record, or the checkpoint is at fault.                   *)
Blamed == pc \in {"refused", "failed"} => fails > 0 \/ ~job.good

(* All that this process binds can be bound.                                *)
Bindable ==
    /\ opts.trunk => IndexHolds(job.index) /\ job.index.layers >= NL
    /\ \A n \in 0 .. NL - 1 : BoundAs(n).ok
    /\ OfModel.ok
    /\ opts.ultra => stream_init(c, store[ModelLevel])

LEMMA BindsIs ==
    ASSUME IInv, GoodBinds, cfg.ok
    PROVE  job.good <=> Bindable
<1>1. job \in Jobs /\ cfg = k3_cfg_load(job.doc) /\ k3_cfg_load(job.doc).ok
  BY DEF IInv, Ranges, Loaded
<1>2. job.good <=> Binds(job, c)
  BY <1>1 DEF GoodBinds, c
<1>3. NL = LayersTo(job, c) /\ OfModel = bind_resident(job.store[c.n_layers],
                                              plan_model(c, ~job.opts.ultra, ~job.opts.ultra))
      /\ store[ModelLevel] = job.store[c.n_layers] /\ opts = job.opts
  BY DEF NL, LayersTo, opts, store, ModelLevel, OfModel
<1>4. CASE opts.trunk
  <2>1. \A n : BoundAs(n) = bind_layer_mem(c, n, job.store[n])
    BY <1>4 DEF BoundAs, store
  <2>2. QED
    BY <1>2, <1>3, <1>4, <2>1 DEF Binds, Bindable
<1>5. CASE ~opts.trunk
  <2>1. \A n : BoundAs(n) = bind_resident(job.store[n], plan_layer(c, n))
    BY <1>5 DEF BoundAs, store
  <2>2. QED
    BY <1>2, <1>3, <1>5, <2>1 DEF Binds, Bindable
<1>6. QED
  BY <1>4, <1>5

LEMMA BlamedKept ==
    ASSUME IInv, GoodBinds, Blamed, [Next]_vars
    PROVE  Blamed'
<1> USE DEF process
<1>1. fails \in 0 .. MaxFails /\ job.good \in BOOLEAN
  BY ForwardAssumption DEF IInv, Ranges
<1>2. pc \notin {"config", "refused"} => cfg.ok
  BY DEF IInv, Loaded
(* A step that fails says why.                                              *)
<1>3. ASSUME job' = job, pc' \notin {"refused", "failed"} PROVE Blamed'
  BY <1>3 DEF Blamed
<1>4. ASSUME job' = job, fails' > 0 \/ ~job.good PROVE Blamed'
  BY <1>4 DEF Blamed
<1>5. CASE Loads
  <2>1. job' = job /\ cfg' = k3_cfg_load(job.doc) /\ pc' = IF cfg'.ok THEN "trunk" ELSE "refused"
    BY <1>5 DEF Loads
  <2>2. CASE pc' = "refused"
    <3>1. ~k3_cfg_load(job.doc).ok
      BY <2>1, <2>2
    <3>2. job \in Jobs
      BY DEF IInv, Ranges
    <3>3. ~job.good
      BY <3>1, <3>2 DEF GoodBinds
    <3>4. QED
      BY <1>4, <2>1, <3>3
  <2>3. CASE pc' # "refused"
    <3>1. pc' = "trunk"
      BY <2>1, <2>3
    <3>2. QED
      BY <1>3, <2>1, <3>1
  <2>4. QED
    BY <2>2, <2>3
<1>6. CASE BindsLayers
  <2>1. /\ pc = "trunk" /\ ~opts.trunk /\ job' = job /\ cfg' = cfg
        /\ lay' = [n \in 0 .. NL - 1 |-> bind_resident(store[n], plan_layer(c, n))]
    BY <1>6 DEF BindsLayers
  <2>2. PICK ok \in BOOLEAN :
          /\ Reads(ok)
          /\ pc' = IF ok /\ \A n \in DOMAIN lay' : lay'[n].ok THEN "model" ELSE "refused"
    BY <1>6 DEF BindsLayers
  <2>3. CASE ~ok
    BY <1>1, <1>4, <2>1, <2>2, <2>3, ReadsIs
  <2>4. CASE ok /\ ~job.good
    BY <1>4, <2>1, <2>4
  <2>5. CASE ok /\ job.good
    <3>1. cfg.ok /\ Bindable
      BY <1>2, <2>1, <2>5, BindsIs
    <3>2. \A n \in DOMAIN lay' : lay'[n].ok
      BY <2>1, <3>1 DEF Bindable, BoundAs
    <3>3. QED
      BY <1>3, <2>1, <2>2, <2>5, <3>2
  <2>6. QED
    BY <2>3, <2>4, <2>5
<1>7. CASE OpensTrunk
  <2>1. /\ pc = "trunk" /\ opts.trunk /\ job' = job
        /\ pc' = IF IndexHolds(job.index) /\ job.index.layers >= NL THEN "model" ELSE "refused"
    BY <1>7 DEF OpensTrunk
  <2>2. CASE job.good
    <3>1. cfg.ok /\ Bindable
      BY <1>2, <2>1, <2>2, BindsIs
    <3>2. QED
      BY <1>3, <2>1, <3>1 DEF Bindable
  <2>3. CASE ~job.good
    BY <1>4, <2>1, <2>3
  <2>4. QED
    BY <2>2, <2>3
<1>8. CASE BindsModel
  <2>1. pc = "model" /\ job' = job /\ cfg' = cfg /\ mb' = OfModel
    BY <1>8 DEF BindsModel, OfModel
  <2>2. PICK ok \in BOOLEAN :
          /\ Reads(ok)
          /\ pc' = IF ok /\ mb'.ok /\ (opts.ultra => stream_init(c, store[ModelLevel]))
                   THEN "ready" ELSE "refused"
    BY <1>8 DEF BindsModel
  <2>3. CASE ~ok
    BY <1>1, <1>4, <2>1, <2>2, <2>3, ReadsIs
  <2>4. CASE ok /\ ~job.good
    BY <1>4, <2>1, <2>4
  <2>5. CASE ok /\ job.good
    <3>1. cfg.ok /\ Bindable
      BY <1>2, <2>1, <2>5, BindsIs
    <3>2. QED
      BY <1>3, <2>1, <2>2, <2>5, <3>1 DEF Bindable
  <2>6. QED
    BY <2>3, <2>4, <2>5
<1>9. ASSUME NEW new \in Feeds, NEW all \in BOOLEAN, Feed(new, all)
      PROVE  Blamed'
  <2>1. PICK ok \in BOOLEAN : Reads(ok) /\ pc' = IF ok THEN "layer" ELSE "failed"
    BY <1>9 DEF Feed
  <2>2. job' = job
    BY <1>9 DEF Feed
  <2>3. QED
    BY <1>1, <1>3, <1>4, <2>1, <2>2, ReadsIs
<1>10. CASE Fetches \/ AlreadyBound
  <2>1. job' = job /\ pc' \in {"fetch", "attention"}
    BY <1>10 DEF Fetches, AlreadyBound
  <2>2. QED
    BY <1>3, <2>1
<1>11. CASE Lent
  <2>1. /\ pc = "fetch" /\ job' = job /\ cfg' = cfg
        /\ lay' = [lay EXCEPT ![L] = bind_layer_mem(c, L, store[src_bytes'])]
        /\ pc' = IF lay'[L].ok THEN "attention" ELSE "failed"
    BY <1>11 DEF Lent
  <2>2. src_bytes' = L /\ opts.trunk
    BY <1>11, <2>1 DEF Lent, Source!Lend, IInv, Bound
  <2>3. cfg.ok /\ L \in 0 .. NL - 1 /\ DOMAIN lay = 0 .. NL - 1
    <3>1. cfg.ok /\ L < NL /\ L \in Nat /\ DOMAIN lay = 0 .. NL - 1
      BY <1>2, <2>1 DEF IInv, Walks, Ranges, Bound, Serves, InPass
    <3>2. NL \in Nat
      BY <3>1, ConfigIs
    <3>3. QED
      BY <3>1, <3>2
  <2>4. lay'[L] = BoundAs(L)
    BY <2>1, <2>2, <2>3 DEF BoundAs
  <2>5. CASE job.good
    <3>1. BoundAs(L).ok
      BY <2>3, <2>5, BindsIs DEF Bindable
    <3>2. QED
      BY <1>3, <2>1, <2>4, <3>1
  <2>6. CASE ~job.good
    BY <1>4, <2>1, <2>6
  <2>7. QED
    BY <2>5, <2>6
<1>12. CASE NotLent
  <2>1. job' = job /\ Reads(FALSE)
    BY <1>12 DEF NotLent
  <2>2. QED
    BY <1>1, <1>4, <2>1, ReadsIs
<1>13. CASE Attends
  <2>1. job' = job /\ pc' = "mlp"
    BY <1>13 DEF Attends
  <2>2. QED
    BY <1>3, <2>1
<1>14. CASE Mlp
  <2>1. job' = job /\ (pc' = "layer" \/ \E ok \in BOOLEAN : Reads(ok) /\ (ok <=> pc' = "layer"))
    BY <1>14 DEF Mlp
  <2>2. CASE pc' = "layer"
    BY <1>3, <2>1, <2>2
  <2>3. CASE pc' # "layer"
    <3>1. Reads(FALSE)
      BY <2>1, <2>3
    <3>2. QED
      BY <1>1, <1>4, <2>1, <3>1, ReadsIs
  <2>4. QED
    BY <2>2, <2>3
<1>15. CASE Ranks
  <2>1. job' = job /\ (pc' = "answered" \/ Reads(FALSE))
    BY <1>15 DEF Ranks
  <2>2. QED
    BY <1>1, <1>3, <1>4, <2>1, ReadsIs
<1>16. CASE Draws \/ Clears
  <2>1. job' = job /\ pc' = "ready"
    BY <1>16 DEF Draws, Clears
  <2>2. QED
    BY <1>3, <2>1
<1>17. CASE Snapshot
  <2>1. pc \in {"ready", "answered"} /\ pc' = pc /\ job' = job
    BY <1>17 DEF Snapshot
  <2>2. QED
    BY <1>3, <2>1
<1>18. ASSUME NEW keep \in 1 .. Tmax, Rewinds(keep)
       PROVE  Blamed'
  <2>1. job' = job /\ pc' = "ready"
    BY <1>18 DEF Rewinds
  <2>2. QED
    BY <1>3, <2>1
<1>19. CASE UNCHANGED vars
  BY <1>19 DEF vars, Blamed
<1>20. CASE Spills
  <2>1. job' = job /\ pc' = "astray"
    BY <1>20 DEF Spills
  <2>2. QED
    BY <1>3, <2>1
<1>21. CASE NotDrawn
  <2>1. job' = job /\ Reads(FALSE)
    BY <1>21 DEF NotDrawn
  <2>2. QED
    BY <1>1, <1>4, <2>1, ReadsIs
<1>22. QED
  BY <1>5, <1>6, <1>7, <1>8, <1>9, <1>10, <1>11, <1>12, <1>13, <1>14, <1>15, <1>16, <1>17,
     <1>18, <1>19, <1>20, <1>21 DEF Next

(* When a checkpoint is good just in case what its process binds can be     *)
(* bound, a process is refused and a pass fails only for a read that failed *)
(* or a checkpoint that is not good; and what answers, or is ready with     *)
(* resident weights, is good.                                               *)
THEOREM CauseHeld ==
    ASSUME NaturalSizes, GoodBinds
    PROVE  Spec => []FailsForCause
<1>1. Init => Blamed
  BY DEF Init, Blamed
<1>2. IInv /\ Blamed /\ [Next]_vars => Blamed'
  BY BlamedKept
<1>3. IInv /\ Blamed => FailsForCause
  <2> SUFFICES ASSUME IInv, Blamed PROVE FailsForCause
    OBVIOUS
  <2> USE DEF Serves, InPass
  <2>1. ASSUME pc = "answered" \/ (pc = "ready" /\ ~opts.trunk) PROVE job.good
    <3>1. cfg.ok
      BY <2>1 DEF IInv, Loaded
    <3>2. NL \in Nat
      BY <3>1, ConfigIs
    <3>3. /\ \A n \in 0 .. NL - 1 : lay[n] = BoundAs(n) \/ (opts.trunk /\ lay[n] = Refused)
          /\ opts.trunk => IndexHolds(job.index) /\ job.index.layers >= NL
          /\ OfModel.ok /\ (opts.ultra => stream_init(c, store[ModelLevel]))
      BY <2>1 DEF IInv, Bound
    <3>4. \A n \in 0 .. NL - 1 : lay[n].ok
      BY <2>1, <3>1 DEF IInv, Bound, Walks
    <3>5. \A n \in 0 .. NL - 1 : BoundAs(n).ok
      BY <3>3, <3>4 DEF Refused
    <3>6. QED
      BY <3>1, <3>3, <3>5, BindsIs DEF Bindable
  <2>2. QED
    BY <2>1 DEF Blamed, FailsForCause
<1>4. QED
  BY <1>1, <1>2, <1>3, Invariant, PTL DEF Spec

-----------------------------------------------------------------------------
(* The sampler.  v ids, with the logits g. *)

(* What is taken of the exponential: numbers, and one for the best token.   *)
Weighable == (\A d \in Nat : Mass(d) \in Nat) /\ Mass(0) > 0

LEMMA BestIs ==
    ASSUME NEW v \in Nat \ {0}, NEW g \in [0 .. v - 1 -> Int]
    PROVE  argmax(g) \in 0 .. v - 1 /\ \A j \in 0 .. v - 1 : g[j] <= g[argmax(g)]
<1> DEFINE First(i, n) == \A j \in 0 .. n : g[j] < g[i] \/ (g[j] = g[i] /\ i <= j)
           A == {n \in 0 .. v - 1 : \E i \in 0 .. n : First(i, n)}
<1>1. v - 1 \in Nat
  OBVIOUS
<1>2. 0 \in A
  <2>1. First(0, 0)
    OBVIOUS
  <2>2. QED
    BY <1>1, <2>1
<1>3. ASSUME NEW n \in 0 .. v - 1 - 1, n \in A PROVE n + 1 \in A
  <2>1. PICK i \in 0 .. n : First(i, n)
    BY <1>3
  <2>2. n + 1 \in 0 .. v - 1 /\ i \in 0 .. n + 1 /\ i \in 0 .. v - 1
    OBVIOUS
  <2>3. \A j \in 0 .. n + 1 : j \in 0 .. n \/ j = n + 1
    OBVIOUS
  <2>4. \A j \in 0 .. n + 1 : g[j] \in Int
    OBVIOUS
  <2>5. CASE g[n + 1] > g[i]
    <3>1. First(n + 1, n + 1)
      BY <2>1, <2>2, <2>3, <2>4, <2>5
    <3>2. QED
      BY <2>2, <3>1
  <2>6. CASE ~(g[n + 1] > g[i])
    <3>1. First(i, n + 1)
      BY <2>1, <2>2, <2>3, <2>4, <2>6
    <3>2. QED
      BY <2>2, <3>1
  <2>7. QED
    BY <2>5, <2>6
<1>4. v - 1 \in A
  <2> HIDE DEF A
  <2>1. \A n \in 0 .. v - 1 : n \in A
    BY <1>1, <1>2, <1>3, Climbs
  <2>2. QED
    BY <1>1, <2>1
<1>5. \E i \in DOMAIN g : \A j \in DOMAIN g : g[j] < g[i] \/ (g[j] = g[i] /\ i <= j)
  BY <1>4
<1>6. /\ argmax(g) \in DOMAIN g
      /\ \A j \in DOMAIN g : g[j] < g[argmax(g)] \/ (g[j] = g[argmax(g)] /\ argmax(g) <= j)
  BY <1>5 DEF argmax
<1>7. QED
  BY <1>6

LEMMA ProbIs ==
    ASSUME Weighable, NEW v \in Nat \ {0}, NEW g \in [0 .. v - 1 -> Int]
    PROVE  (\A i \in 0 .. v - 1 : prob(g, i) \in Nat) /\ prob(g, argmax(g)) > 0
<1> DEFINE m == argmax(g)
<1>1. m \in 0 .. v - 1 /\ \A j \in 0 .. v - 1 : g[j] <= g[m]
  BY BestIs
<1> HIDE DEF m
<1>2. ASSUME NEW i \in 0 .. v - 1 PROVE g[m] - g[i] \in Nat
  BY <1>1
<1>3. g[m] - g[m] = 0
  BY <1>1
<1>4. QED
  BY <1>1, <1>2, <1>3 DEF prob, m, Weighable

(* The recursion of Total. *)
Totals(f, g, ids) ==
    f = [S \in SUBSET ids |->
            IF S = {} THEN 0
            ELSE LET i == CHOOSE i \in S : TRUE IN prob(g, i) + f[S \ {i}]]

LEMMA TotalIs ==
    ASSUME Weighable, NEW v \in Nat \ {0}, NEW g \in [0 .. v - 1 -> Int],
           NEW ids \in SUBSET (0 .. v - 1)
    PROVE  /\ Total(g, ids) \in Nat
           /\ argmax(g) \in ids => Total(g, ids) > 0
           /\ ids = {} => Total(g, ids) = 0
<1> DEFINE pick(S) == CHOOSE i \in S : TRUE
           D(n) == {S \in SUBSET ids : Cardinality(S) <= n}
           N == Cardinality(ids)
           Runs(f, n) == /\ f \in [D(n) -> Nat]
                         /\ \A S \in D(n) :
                              f[S] = IF S = {} THEN 0 ELSE prob(g, pick(S)) + f[S \ {pick(S)}]
           A == {n \in 0 .. N : \E f : Runs(f, n)}
<1>1. IsFiniteSet(ids) /\ N \in Nat
  <2>1. 0 \in Int /\ v - 1 \in Int
    OBVIOUS
  <2>2. IsFiniteSet(0 .. v - 1)
    BY <2>1, FS_Interval
  <2>3. IsFiniteSet(ids)
    BY <2>2, FS_Subset
  <2>4. QED
    BY <2>3, FS_CardinalityType
<1>2. ASSUME NEW S \in SUBSET ids
      PROVE  IsFiniteSet(S) /\ Cardinality(S) \in 0 .. N
  <2>1. IsFiniteSet(S) /\ Cardinality(S) <= N
    BY <1>1, FS_Subset
  <2>2. Cardinality(S) \in Nat
    BY <2>1, FS_CardinalityType
  <2>3. QED
    BY <1>1, <2>1, <2>2
<1>3. ASSUME NEW S \in SUBSET ids, S # {}
      PROVE  /\ pick(S) \in S /\ S \ {pick(S)} \in SUBSET ids
             /\ Cardinality(S \ {pick(S)}) = Cardinality(S) - 1
             /\ prob(g, pick(S)) \in Nat
  <2>1. pick(S) \in S
    BY <1>3
  <2>2. QED
    BY <1>2, <2>1, FS_RemoveElement, ProbIs
<1>4. Cardinality({}) = 0 /\ {} \in SUBSET ids /\ \A S \in SUBSET ids : Cardinality(S) = 0 <=> S = {}
  BY <1>2, FS_EmptySet
<1> HIDE DEF pick
<1>5. 0 \in A
  <2> DEFINE f == [S \in D(0) |-> 0]
  <2>1. \A S \in D(0) : S = {}
    BY <1>2, <1>4
  <2>2. Runs(f, 0)
    BY <2>1
  <2> HIDE DEF Runs, f
  <2>3. 0 \in 0 .. N
    BY <1>1
  <2>4. QED
    BY <2>2, <2>3
<1>6. ASSUME NEW n \in 0 .. N - 1, n \in A PROVE n + 1 \in A
  <2>1. PICK f : Runs(f, n)
    BY <1>6
  <2> DEFINE e == [S \in D(n + 1) |-> IF Cardinality(S) <= n THEN f[S]
                                      ELSE prob(g, pick(S)) + f[S \ {pick(S)}]]
  <2>2. \A S \in D(n + 1) : Cardinality(S) <= n => S \in D(n)
    OBVIOUS
  <2>3. ASSUME NEW S \in D(n + 1), S # {}
        PROVE  S \ {pick(S)} \in D(n) /\ S \ {pick(S)} \in D(n + 1)
    <3>1. S \in SUBSET ids /\ Cardinality(S) <= n + 1 /\ Cardinality(S) \in Nat
      BY <1>1, <1>2
    <3>2. S \ {pick(S)} \in SUBSET ids /\ Cardinality(S \ {pick(S)}) = Cardinality(S) - 1
      BY <1>3, <2>3, <3>1
    <3>3. QED
      BY <1>1, <3>1, <3>2
  <2>4. ASSUME NEW S \in D(n + 1)
        PROVE  /\ e[S] \in Nat
               /\ e[S] = IF S = {} THEN 0 ELSE prob(g, pick(S)) + e[S \ {pick(S)}]
    <3>1. S \in SUBSET ids
      OBVIOUS
    <3>2. /\ Cardinality(S) <= n => e[S] = f[S]
          /\ ~(Cardinality(S) <= n) => e[S] = prob(g, pick(S)) + f[S \ {pick(S)}]
      OBVIOUS
    <3>3. CASE S = {}
      <4>1. Cardinality(S) <= n /\ S \in D(n)
        BY <1>4, <3>3
      <4>2. f[S] = 0
        BY <2>1, <3>3, <4>1
      <4> HIDE DEF e
      <4>3. QED
        BY <3>2, <3>3, <4>1, <4>2
    <3>4. CASE S # {}
      <4> DEFINE R == S \ {pick(S)}
      <4>1. R \in D(n) /\ R \in D(n + 1) /\ prob(g, pick(S)) \in Nat
        BY <1>3, <2>3, <3>1, <3>4
      <4>2. e[R] = f[R] /\ f[R] \in Nat
        BY <2>1, <4>1
      <4>3. e[S] = prob(g, pick(S)) + f[R]
        <5>1. CASE Cardinality(S) <= n
          <6>1. S \in D(n)
            BY <2>2, <5>1
          <6>2. f[S] = prob(g, pick(S)) + f[R]
            BY <2>1, <3>4, <6>1
          <6>3. QED
            BY <3>2, <5>1, <6>2
        <5>2. CASE ~(Cardinality(S) <= n)
          BY <3>2, <5>2
        <5>3. QED
          BY <5>1, <5>2
      <4> HIDE DEF e
      <4>4. e[S] = prob(g, pick(S)) + e[R]
        BY <4>2, <4>3
      <4>5. e[S] \in Nat
        BY <4>1, <4>2, <4>3
      <4>6. QED
        BY <3>4, <4>4, <4>5
    <3>5. QED
      BY <3>3, <3>4
  <2>5. Runs(e, n + 1)
    <3>1. e \in [D(n + 1) -> Nat]
      BY <2>4
    <3> HIDE DEF e
    <3>2. QED
      BY <2>4, <3>1
  <2> HIDE DEF Runs, e
  <2>6. n + 1 \in 0 .. N
    BY <1>1
  <2>7. QED
    BY <2>5, <2>6
<1>7. PICK f : Runs(f, N)
  <2> HIDE DEF A
  <2>1. \A n \in 0 .. N : n \in A
    BY <1>1, <1>5, <1>6, Climbs
  <2>2. N \in A
    BY <1>1, <2>1
  <2>3. QED
    BY <2>2 DEF A
<1>8. D(N) = SUBSET ids
  BY <1>1, <1>2
<1>9. Totals(f, g, ids)
  <2>1. f = [S \in SUBSET ids |-> f[S]]
    BY <1>7, <1>8
  <2>2. \A S \in SUBSET ids : f[S] = IF S = {} THEN 0 ELSE prob(g, pick(S)) + f[S \ {pick(S)}]
    BY <1>7, <1>8
  <2>3. QED
    BY <2>1, <2>2 DEF Totals, pick
<1> DEFINE G == CHOOSE x : Totals(x, g, ids)
<1>10. Totals(G, g, ids) /\ Total(g, ids) = G[ids]
  BY <1>9 DEF Total, Totals
<1> HIDE DEF G
<1>11. /\ G[{}] = 0
       /\ \A S \in SUBSET ids : S # {} => G[S] = prob(g, pick(S)) + G[S \ {pick(S)}]
  BY <1>10 DEF Totals, pick
<1> DEFINE Fair(S) == G[S] \in Nat /\ (argmax(g) \in S => G[S] > 0)
           B == {n \in 0 .. N : \A S \in D(n) : Fair(S)}
<1>12. 0 \in B
  <2>1. \A S \in D(0) : S = {} /\ S \in SUBSET ids
    BY <1>2, <1>4
  <2>2. ASSUME NEW S \in D(0) PROVE Fair(S)
    <3>1. S = {}
      BY <2>1
    <3>2. G[S] = 0 /\ argmax(g) \notin S
      BY <1>11, <3>1
    <3>3. QED
      BY <3>2
  <2>3. 0 \in 0 .. N
    BY <1>1
  <2> HIDE DEF Fair, D
  <2>4. QED
    BY <2>2, <2>3
<1>13. ASSUME NEW n \in 0 .. N - 1, n \in B PROVE n + 1 \in B
  <2>1. ASSUME NEW S \in D(n + 1) PROVE Fair(S)
    <3>1. S \in SUBSET ids /\ Cardinality(S) <= n + 1 /\ Cardinality(S) \in Nat
      BY <1>1, <1>2
    <3>2. CASE S = {}
      BY <1>11, <3>1, <3>2
    <3>3. CASE S # {}
      <4> DEFINE R == S \ {pick(S)}
      <4>1. R \in SUBSET ids /\ Cardinality(R) = Cardinality(S) - 1 /\ prob(g, pick(S)) \in Nat
        BY <1>3, <3>1, <3>3
      <4>2. R \in D(n)
        BY <1>1, <3>1, <4>1
      <4>3. Fair(R)
        BY <1>13, <4>2
      <4>4. G[S] = prob(g, pick(S)) + G[R]
        BY <1>11, <3>1, <3>3
      <4>5. argmax(g) \in S => argmax(g) \in R \/ argmax(g) = pick(S)
        OBVIOUS
      <4>6. argmax(g) = pick(S) => prob(g, pick(S)) > 0
        BY ProbIs
      <4> HIDE DEF R
      <4>7. QED
        BY <4>1, <4>3, <4>4, <4>5, <4>6
    <3>4. QED
      BY <3>2, <3>3
  <2>2. QED
    BY <1>1, <2>1
<1>14. Fair(ids)
  <2> HIDE DEF B, Fair
  <2>1. \A n \in 0 .. N : n \in B
    BY <1>1, <1>12, <1>13, Climbs
  <2>2. N \in B /\ ids \in D(N)
    BY <1>1, <1>2, <2>1
  <2>3. QED
    BY <2>2 DEF B
<1>15. QED
  BY <1>10, <1>11, <1>14

(* Where an id stands among the sorted ones. *)
Rank(g, i) == Cardinality(Before(g, i))

(* Sorting puts every id somewhere, and before it those that beat it.       *)
LEMMA RankIs ==
    ASSUME Weighable, NEW v \in Nat \ {0}, NEW g \in [0 .. v - 1 -> Int]
    PROVE  /\ Cardinality(DOMAIN g) = v
           /\ \A i, j \in 0 .. v - 1 : j \in Before(g, i) <=> Rank(g, j) < Rank(g, i)
           /\ \A n \in 1 .. v : sorted(g)[n] \in 0 .. v - 1 /\ Rank(g, sorted(g)[n]) = n - 1
           /\ \A i \in 0 .. v - 1 : \E n \in 1 .. v : sorted(g)[n] = i
<1> DEFINE D == 0 .. v - 1
           p(i) == prob(g, i)
           R(i) == Rank(g, i)
<1>1. IsFiniteSet(D) /\ Cardinality(D) = v /\ DOMAIN g = D
  <2>1. 0 \in Int /\ v - 1 \in Int /\ ~(0 > v - 1) /\ v - 1 - 0 + 1 = v
    OBVIOUS
  <2>2. QED
    BY <2>1, FS_Interval
<1>2. \A i \in D : p(i) \in Nat
  BY ProbIs
<1>3. \A i \in D : Before(g, i) = {j \in D : p(j) > p(i) \/ (p(j) = p(i) /\ j < i)}
  BY <1>1 DEF Before
<1>4. \A i \in D : IsFiniteSet(Before(g, i)) /\ R(i) \in Nat /\ R(i) <= v - 1
  <2>1. SUFFICES ASSUME NEW i \in D
                 PROVE  IsFiniteSet(Before(g, i)) /\ R(i) \in Nat /\ R(i) <= v - 1
    OBVIOUS
  <2>2. Before(g, i) \in SUBSET (D \ {i})
    <3> HIDE DEF p
    <3>1. i \notin Before(g, i)
      BY <1>2, <1>3
    <3>2. QED
      BY <1>3, <3>1
  <2>3. IsFiniteSet(D \ {i}) /\ Cardinality(D \ {i}) = v - 1
    <3> HIDE DEF D
    <3>1. QED
      BY <1>1, <2>1, FS_RemoveElement
  <2>4. IsFiniteSet(Before(g, i)) /\ Cardinality(Before(g, i)) <= Cardinality(D \ {i})
    <3> HIDE DEF D
    <3>1. QED
      BY <2>2, <2>3, FS_Subset
  <2>5. Cardinality(Before(g, i)) \in Nat
    BY <2>4, FS_CardinalityType
  <2>6. QED
    BY <2>3, <2>4, <2>5 DEF Rank
<1>5. ASSUME NEW i \in D, NEW j \in D, j \in Before(g, i)
      PROVE  R(j) < R(i)
  <2>1. Before(g, j) \subseteq Before(g, i)
    <3> HIDE DEF p
    <3>1. p(j) > p(i) \/ (p(j) = p(i) /\ j < i)
      BY <1>3, <1>5
    <3>2. ASSUME NEW k \in Before(g, j) PROVE k \in Before(g, i)
      <4>1. k \in D /\ (p(k) > p(j) \/ (p(k) = p(j) /\ k < j))
        BY <1>3, <3>2
      <4>2. p(i) \in Nat /\ p(j) \in Nat /\ p(k) \in Nat /\ i \in Int /\ j \in Int /\ k \in Int
        BY <1>2, <4>1
      <4>3. p(k) > p(i) \/ (p(k) = p(i) /\ k < i)
        BY <3>1, <4>1, <4>2
      <4>4. QED
        BY <1>3, <4>1, <4>3
    <3>3. QED
      BY <3>2
  <2>2. j \notin Before(g, j)
    <3> HIDE DEF p
    <3>1. QED
      BY <1>2, <1>3
  <2>3. IsFiniteSet(Before(g, i)) /\ IsFiniteSet(Before(g, j)) /\ R(i) \in Nat /\ R(j) \in Nat
    BY <1>4
  <2>4. Cardinality(Before(g, j)) <= Cardinality(Before(g, i))
        /\ (Cardinality(Before(g, i)) = Cardinality(Before(g, j)) => Before(g, i) = Before(g, j))
    BY <2>1, <2>3, FS_Subset
  <2>5. Cardinality(Before(g, i)) # Cardinality(Before(g, j))
    BY <1>5, <2>2, <2>4
  <2>6. QED
    BY <2>3, <2>4, <2>5 DEF Rank
<1>6. ASSUME NEW i \in D, NEW j \in D, i # j
      PROVE  j \in Before(g, i) \/ i \in Before(g, j)
  <2> HIDE DEF p
  <2>1. p(i) \in Nat /\ p(j) \in Nat /\ i \in Int /\ j \in Int
    BY <1>2
  <2>2. QED
    BY <1>3, <1>6, <2>1
<1>7. \A i, j \in D : j \in Before(g, i) <=> R(j) < R(i)
  <2>1. SUFFICES ASSUME NEW i \in D, NEW j \in D, R(j) < R(i) PROVE j \in Before(g, i)
    BY <1>5
  <2>2. R(i) \in Nat /\ R(j) \in Nat
    BY <1>4
  <2>3. i # j
    BY <2>1, <2>2
  <2>4. ~(i \in Before(g, j))
    BY <1>5, <2>1, <2>2
  <2>5. QED
    BY <1>6, <2>3, <2>4
<1> DEFINE r == [i \in D |-> R(i)]
<1>8. r \in Injection(D, 0 .. v - 1)
  <2>1. r \in [D -> 0 .. v - 1]
    <3> HIDE DEF R, D
    <3>1. \A i \in D : R(i) \in 0 .. v - 1
      BY <1>4
    <3>2. QED
      BY <3>1
  <2>2. ASSUME NEW i \in D, NEW j \in D, i # j PROVE r[i] # r[j]
    <3>1. R(i) < R(j) \/ R(j) < R(i)
      BY <1>5, <1>6, <2>2
    <3>2. R(i) \in Nat /\ R(j) \in Nat
      BY <1>4
    <3> HIDE DEF R, D
    <3>3. QED
      BY <3>1, <3>2
  <2> HIDE DEF r, R, D
  <2>3. QED
    BY <2>1, <2>2 DEF Injection, IsInjective
<1>9. r \in Surjection(D, 0 .. v - 1)
  <2>1. IsFiniteSet(0 .. v - 1) /\ Cardinality(D) = Cardinality(0 .. v - 1)
    BY <1>1
  <2> HIDE DEF r, D
  <2>2. QED
    BY <1>8, <2>1, FS_Injection
<1>10. ASSUME NEW n \in 1 .. v
       PROVE  sorted(g)[n] \in D /\ R(sorted(g)[n]) = n - 1
  <2>1. n - 1 \in 0 .. v - 1
    OBVIOUS
  <2>2. PICK i \in D : r[i] = n - 1
    <3> HIDE DEF r, D
    <3>1. QED
      BY <1>9, <2>1 DEF Surjection
  <2>3. Cardinality(Before(g, i)) = n - 1
    BY <2>2 DEF Rank
  <2>4. sorted(g)[n] = CHOOSE x \in DOMAIN g : Cardinality(Before(g, x)) = n - 1
    BY <1>1 DEF sorted
  <2>5. QED
    BY <1>1, <2>2, <2>3, <2>4 DEF Rank
<1>11. ASSUME NEW i \in D PROVE \E n \in 1 .. v : sorted(g)[n] = i
  <2> DEFINE n == R(i) + 1
  <2>1. R(i) \in Nat /\ R(i) <= v - 1
    BY <1>4
  <2>2. n \in 1 .. v /\ n - 1 = R(i)
    <3> HIDE DEF R
    <3>1. QED
      BY <2>1
  <2>3. sorted(g)[n] \in D /\ R(sorted(g)[n]) = R(i)
    <3> HIDE DEF n
    <3>1. QED
      BY <1>10, <2>2
  <2>4. r[sorted(g)[n]] = r[i]
    BY <2>3
  <2>5. sorted(g)[n] = i
    <3> HIDE DEF r, D, n, R
    <3>1. QED
      BY <1>8, <2>3, <2>4 DEF Injection, IsInjective
  <2>6. QED
    BY <2>2, <2>5
<1>12. QED
  BY <1>1, <1>7, <1>10, <1>11

(* What a search upwards stops at. *)
Searches(f, n, X) == f = [i \in 0 .. n |-> IF i < n /\ i \in X THEN f[i + 1] ELSE i]

LEMMA SearchEnds ==
    ASSUME NEW n \in Nat, NEW X
    PROVE  /\ \E f : Searches(f, n, X)
           /\ \A f : Searches(f, n, X) =>
                /\ f[0] \in 0 .. n
                /\ \A i \in 0 .. f[0] - 1 : i \in X
                /\ f[0] = n \/ f[0] \notin X
<1> DEFINE Stops(i) == {k \in i .. n : k = n \/ k \notin X}
<1>1. ASSUME NEW i \in 0 .. n
      PROVE  /\ Min(Stops(i)) \in Stops(i) /\ \A k \in Stops(i) : Min(Stops(i)) <= k
             /\ Min(Stops(i)) \in Int
  <2>1. i \in Int /\ n \in Int /\ n \in i .. n
    OBVIOUS
  <2>2. IsFiniteSet(i .. n)
    BY <2>1, FS_Interval
  <2>3. IsFiniteSet(Stops(i))
    BY <2>2, FS_Subset
  <2>4. Stops(i) # {} /\ \A k \in Stops(i) : k \in Int
    BY <2>1
  <2> HIDE DEF Stops
  <2>5. QED
    BY <2>3, <2>4, MinExists
<1> DEFINE e == [i \in 0 .. n |-> Min(Stops(i))]
<1>2. ASSUME NEW i \in 0 .. n
      PROVE  e[i] = IF i < n /\ i \in X THEN e[i + 1] ELSE i
  <2>1. CASE i < n /\ i \in X
    <3>1. i + 1 \in 0 .. n
      BY <2>1
    <3>2. Stops(i) = Stops(i + 1)
      <4>1. \A k \in i .. n : k = i \/ k \in i + 1 .. n
        OBVIOUS
      <4>2. \A k \in i + 1 .. n : k \in i .. n
        OBVIOUS
      <4>3. QED
        BY <2>1, <4>1, <4>2
    <3>3. QED
      BY <2>1, <3>1, <3>2
  <2>2. CASE ~(i < n /\ i \in X)
    <3>1. i \in Stops(i)
      BY <2>2
    <3>2. \A k \in Stops(i) : i <= k
      OBVIOUS
    <3>3. Min(Stops(i)) = i
      <4>1. Min(Stops(i)) \in Stops(i) /\ Min(Stops(i)) <= i /\ Min(Stops(i)) \in Int
        BY <1>1, <3>1
      <4>2. i <= Min(Stops(i)) /\ i \in Int
        BY <3>2, <4>1
      <4> HIDE DEF Stops
      <4>3. QED
        BY <4>1, <4>2
    <3>4. QED
      BY <2>2, <3>3
  <2>3. QED
    BY <2>1, <2>2
<1>3. Searches(e, n, X)
  <2>1. e = [i \in 0 .. n |-> e[i]]
    OBVIOUS
  <2> HIDE DEF e
  <2>2. QED
    BY <1>2, <2>1 DEF Searches
<1>4. ASSUME NEW f, Searches(f, n, X)
      PROVE  /\ f[0] \in 0 .. n
             /\ \A i \in 0 .. f[0] - 1 : i \in X
             /\ f[0] = n \/ f[0] \notin X
  <2>1. \A i \in 0 .. n : f[i] = IF i < n /\ i \in X THEN f[i + 1] ELSE i
    BY <1>4 DEF Searches
  <2> DEFINE m == Min(Stops(0))
             A == {k \in 0 .. m : f[0] = f[k]}
  <2>2. /\ m \in 0 .. n /\ (m = n \/ m \notin X)
        /\ \A k \in 0 .. n : (k = n \/ k \notin X) => m <= k
    <3>1. 0 \in 0 .. n
      OBVIOUS
    <3>2. m \in Stops(0) /\ \A k \in Stops(0) : m <= k
      BY <1>1, <3>1
    <3> HIDE DEF m
    <3>3. QED
      BY <3>2
  <2> HIDE DEF m
  <2>3. 0 \in A
    BY <2>2
  <2>4. ASSUME NEW k \in 0 .. m - 1, k \in A PROVE k + 1 \in A
    <3>1. k \in 0 .. n /\ k < n /\ k + 1 \in 0 .. m /\ ~(m <= k)
      BY <2>2
    <3>2. k \in X
      BY <2>2, <3>1
    <3>3. f[k] = f[k + 1]
      BY <2>1, <3>1, <3>2
    <3>4. QED
      BY <2>4, <3>1, <3>3
  <2>5. m \in A
    <3> HIDE DEF A
    <3>1. m \in Nat
      BY <2>2
    <3>2. \A k \in 0 .. m : k \in A
      BY <2>3, <2>4, <3>1, Climbs
    <3>3. QED
      BY <3>1, <3>2
  <2>6. f[m] = m
    BY <2>1, <2>2
  <2>7. f[0] = m
    BY <2>5, <2>6
  <2>8. \A k \in 0 .. m - 1 : k \in X
    <3>1. \A k \in 0 .. m - 1 : k \in 0 .. n /\ ~(m <= k)
      BY <2>2
    <3>2. QED
      BY <2>2, <3>1
  <2>9. QED
    BY <2>2, <2>7, <2>8
<1>5. QED
  BY <1>3, <1>4

(* How many ids stay: no more than top_k, each short of top_p without it.   *)
LEMMA NkIs ==
    ASSUME Weighable, NEW v \in Nat \ {0}, NEW g \in [0 .. v - 1 -> Int],
           NEW k \in Int, NEW q, q.num \in Nat \ {0}, q.den \in Nat \ {0}
    PROVE  /\ nk(g, k, q) \in 1 .. v
           /\ k > 0 => nk(g, k, q) <= k
           /\ \A i \in 0 .. nk(g, k, q) - 1 : Short(g, Weighs(g, i), q)
<1> DEFINE nw == IF k > 0 /\ k < Cardinality(DOMAIN g) THEN k ELSE Cardinality(DOMAIN g)
           X == {i \in Nat : Short(g, Weighs(g, i), q)}
           Is(f) == f = [i \in 0 .. nw |->
                           IF i < nw /\ Short(g, Weighs(g, i), q) THEN f[i + 1] ELSE i]
           K == CHOOSE f : Is(f)
<1>1. Cardinality(DOMAIN g) = v
  BY RankIs
<1>2. nw \in 1 .. v /\ (k > 0 => nw <= k)
  BY <1>1
<1>3. nk(g, k, q) = IF K[0] = 0 THEN 1 ELSE K[0]
  BY DEF nk
<1> HIDE DEF nw
<1>n. nw \in Nat
  BY <1>2
<1>4. \A f : Is(f) <=> Searches(f, nw, X)
  <2>1. \A i \in 0 .. nw : Short(g, Weighs(g, i), q) <=> i \in X
    BY <1>2
  <2> HIDE DEF X
  <2>2. \A f : [i \in 0 .. nw |-> IF i < nw /\ Short(g, Weighs(g, i), q) THEN f[i + 1] ELSE i]
             = [i \in 0 .. nw |-> IF i < nw /\ i \in X THEN f[i + 1] ELSE i]
    BY <2>1
  <2>3. QED
    BY <2>2 DEF Searches
<1> HIDE DEF Is
<1>5. Searches(K, nw, X)
  <2>1. \E f : Is(f)
    <3>1. \E f : Searches(f, nw, X)
      BY <1>n, SearchEnds
    <3>2. QED
      BY <1>4, <3>1
  <2>2. Is(K)
    BY <2>1
  <2>3. QED
    BY <1>4, <2>2
<1> HIDE DEF K, X
<1>6. /\ K[0] \in 0 .. nw
      /\ \A i \in 0 .. K[0] - 1 : i \in X
      /\ K[0] = nw \/ K[0] \notin X
  BY <1>n, <1>5, SearchEnds
(* Nothing weighs less than the fraction asked for.                         *)
<1>7. 0 \in X
  <2>1. {sorted(g)[i] : i \in 1 .. 0} = {}
    OBVIOUS
  <2>2. Weighs(g, 0) = 0
    BY <2>1, TotalIs DEF Weighs
  <2>3. Total(g, DOMAIN g) \in Nat /\ Total(g, DOMAIN g) > 0
    BY BestIs, TotalIs
  <2> DEFINE t == Total(g, DOMAIN g)
  <2>4. 1 * t <= q.num * t /\ q.num * t \in Nat
    <3>1. 1 <= q.num /\ 1 \in Nat /\ q.num \in Nat /\ t \in Nat
      BY <2>3
    <3> HIDE DEF t
    <3>2. QED
      BY <3>1, Scales
  <2>5. 0 * q.den < q.num * t
    <3>1. t \in Nat /\ t > 0
      BY <2>3
    <3> HIDE DEF t
    <3>2. 0 * q.den = 0 /\ 1 * t = t
      BY <3>1
    <3>3. QED
      BY <2>4, <3>1, <3>2
  <2>6. Short(g, Weighs(g, 0), q)
    BY <2>2, <2>5 DEF Short
  <2>7. QED
    BY <2>6 DEF X
<1>8. K[0] # 0
  BY <1>2, <1>6, <1>7
<1>9. nk(g, k, q) = K[0] /\ nk(g, k, q) \in 1 .. nw
  BY <1>2, <1>3, <1>6, <1>8
<1>10. QED
  BY <1>2, <1>6, <1>9 DEF X

(* Whatever number falls, the id it falls on is one that stays.             *)
LEMMA DrawnIsKept ==
    ASSUME Weighable, NEW v \in Nat \ {0}, NEW g \in [0 .. v - 1 -> Int],
           NEW k \in Int, NEW q, q.num \in Nat \ {0}, q.den \in Nat \ {0}, NEW r \in Int
    PROVE  Drawn(g, nk(g, k, q), r) \in Kept(g, k, q)
<1> DEFINE n == nk(g, k, q)
           Falls(i) == r < Weighs(g, i) \/ i = n
           At(i) == Falls(i) /\ \A j \in 1 .. i - 1 : r >= Weighs(g, j)
<1>1. /\ n \in 1 .. v /\ (k > 0 => n <= k)
      /\ \A i \in 0 .. n - 1 : Short(g, Weighs(g, i), q)
  BY NkIs
<1>2. /\ \A i, j \in 0 .. v - 1 : j \in Before(g, i) <=> Rank(g, j) < Rank(g, i)
      /\ \A i \in 1 .. v : sorted(g)[i] \in 0 .. v - 1 /\ Rank(g, sorted(g)[i]) = i - 1
      /\ \A i \in 0 .. v - 1 : \E j \in 1 .. v : sorted(g)[j] = i
  BY RankIs
<1> HIDE DEF n
<1>3. \A i \in 1 .. n : Weighs(g, i) \in Int
  <2>1. SUFFICES ASSUME NEW i \in 1 .. n PROVE Weighs(g, i) \in Int
    OBVIOUS
  <2> DEFINE ids == {sorted(g)[j] : j \in 1 .. i}
  <2>2. ids \in SUBSET (0 .. v - 1)
    <3>1. \A j \in 1 .. i : j \in 1 .. v
      BY <1>1
    <3>2. \A j \in 1 .. i : sorted(g)[j] \in 0 .. v - 1
      BY <1>2, <3>1
    <3>3. QED
      BY <3>2
  <2>3. Weighs(g, i) = Total(g, ids)
    BY DEF Weighs
  <2> HIDE DEF ids
  <2>4. Total(g, ids) \in Nat
    BY <2>2, TotalIs
  <2>5. QED
    BY <2>3, <2>4
<1>4. \E i \in 1 .. n : At(i)
  <2> DEFINE A == {i \in 1 .. n : Falls(i)}
             m == Min(A)
  <2>1. n \in A
    BY <1>1
  <2>2. IsFiniteSet(A) /\ \A i \in A : i \in Int
    <3>1. 1 \in Int /\ n \in Int
      BY <1>1
    <3>2. IsFiniteSet(1 .. n)
      BY <3>1, FS_Interval
    <3>3. A \in SUBSET (1 .. n)
      OBVIOUS
    <3> HIDE DEF A
    <3>4. IsFiniteSet(A)
      BY <3>2, <3>3, FS_Subset
    <3>5. \A j \in A : j \in Int
      BY <3>3
    <3>6. QED
      BY <3>4, <3>5
  <2>3. m \in A /\ \A i \in A : m <= i
    <3> HIDE DEF A
    <3>1. QED
      BY <2>1, <2>2, MinExists
  <2> HIDE DEF m
  <2>4. \A j \in 1 .. m - 1 : j \in 1 .. n /\ ~(m <= j)
    BY <1>1, <2>3
  <2>5. \A j \in 1 .. m - 1 : r >= Weighs(g, j)
    BY <1>3, <2>3, <2>4
  <2>6. QED
    BY <2>3, <2>5
<1> DEFINE i == CHOOSE i \in 1 .. n : At(i)
           x == sorted(g)[i]
<1>5. i \in 1 .. n
  BY <1>4
<1>6. Drawn(g, n, r) = x
  BY DEF Drawn
<1> HIDE DEF i
<1>7. x \in 0 .. v - 1 /\ Rank(g, x) = i - 1 /\ i \in 1 .. v
  <2>1. i \in 1 .. v
    BY <1>1, <1>5
  <2>2. QED
    BY <1>2, <2>1
<1>8. Before(g, x) = {sorted(g)[j] : j \in 1 .. i - 1}
  <2>1. ASSUME NEW y \in Before(g, x) PROVE y \in {sorted(g)[j] : j \in 1 .. i - 1}
    <3>1. y \in 0 .. v - 1
      BY <2>1 DEF Before
    <3>2. PICK j \in 1 .. v : sorted(g)[j] = y
      BY <1>2, <3>1
    <3>3. Rank(g, y) = j - 1 /\ Rank(g, y) < Rank(g, x)
      BY <1>2, <1>7, <2>1, <3>1, <3>2
    <3>4. j \in 1 .. i - 1
      BY <1>7, <3>3
    <3>5. QED
      BY <3>2, <3>4
  <2>2. ASSUME NEW j \in 1 .. i - 1 PROVE sorted(g)[j] \in Before(g, x)
    <3>1. j \in 1 .. v /\ j - 1 < i - 1
      BY <1>7
    <3>2. sorted(g)[j] \in 0 .. v - 1 /\ Rank(g, sorted(g)[j]) < Rank(g, x)
      BY <1>2, <1>7, <3>1
    <3>3. QED
      BY <1>2, <1>7, <3>2
  <2>3. QED
    BY <2>1, <2>2
<1>9. Total(g, Before(g, x)) = Weighs(g, i - 1)
  BY <1>8 DEF Weighs
<1>10. i - 1 \in 0 .. n - 1
  BY <1>1, <1>5
<1>11. Short(g, Total(g, Before(g, x)), q)
  BY <1>1, <1>9, <1>10
<1>12. k > 0 => Cardinality(Before(g, x)) < k
  BY <1>1, <1>7, <1>10 DEF Rank
<1>13. QED
  BY <1>6, <1>7, <1>11, <1>12 DEF Kept, Short, n

(* What the sampler returns unless it fails.                                *)
LEMMA SampledIs ==
    ASSUME Weighable, NEW v \in Nat \ {0}, NEW g \in [0 .. v - 1 -> Int], NEW greedy,
           NEW k \in Int, NEW q, q.num \in Nat \ {0}, q.den \in Nat \ {0}, q.num <= q.den,
           NEW x \in k3_sampler_next(g, greedy, k, q) \ {NoToken}
    PROVE  /\ IF greedy \/ Overflows(g[argmax(g)]) THEN x = argmax(g) ELSE x \in Kept(g, k, q)
           /\ x \in 0 .. v - 1
<1>1. DOMAIN g = 0 .. v - 1 /\ DOMAIN g # {}
  <2>1. 0 \in 0 .. v - 1
    OBVIOUS
  <2>2. QED
    BY <2>1
<1>2. ~(DOMAIN g = {} \/ q.num <= 0 \/ q.num > q.den)
  BY <1>1
<1>3. greedy => x = argmax(g)
  BY <1>2 DEF k3_sampler_next
<1>4. ~greedy /\ NoSum(g) => x = argmax(g)
  BY <1>2 DEF k3_sampler_next
<1>5. Total(g, DOMAIN g) \in Nat /\ Total(g, DOMAIN g) > 0
  BY <1>1, BestIs, TotalIs
<1>6. NoSum(g) <=> Overflows(g[argmax(g)])
  BY <1>5 DEF NoSum
<1>7. ASSUME ~greedy, ~Overflows(g[argmax(g)])
      PROVE  x \in Kept(g, k, q)
  <2> DEFINE n == nk(g, k, q)
  <2>1. x \in {Drawn(g, n, r) : r \in 0 .. Weighs(g, n) - 1}
    BY <1>2, <1>6, <1>7 DEF k3_sampler_next
  <2>2. PICK r \in 0 .. Weighs(g, n) - 1 : x = Drawn(g, n, r)
    BY <2>1
  <2>3. r \in Int
    OBVIOUS
  <2>4. QED
    BY <2>2, <2>3, DrawnIsKept
<1>8. x = argmax(g) => x \in 0 .. v - 1
  BY BestIs
<1>9. x \in Kept(g, k, q) => x \in 0 .. v - 1
  BY <1>1 DEF Kept
<1>10. CASE greedy \/ Overflows(g[argmax(g)])
  BY <1>3, <1>4, <1>6, <1>8, <1>10
<1>11. CASE ~greedy /\ ~Overflows(g[argmax(g)])
  BY <1>7, <1>9, <1>11
<1>12. QED
  BY <1>10, <1>11

(* The logits of an answer.                                                 *)
Logits == pc = "answered" => lg \in [0 .. c.vocab - 1 -> Int]

(* What the projection onto the vocabulary yields can be compared.          *)
Comparable == \A operands : Kernel("logit", operands) \in Int

LEMMA LogitsKept ==
    ASSUME Comparable, IInv, Logits, [Next]_vars
    PROVE  Logits'
<1> USE DEF process, out
<1>1. ASSUME pc' # "answered" PROVE Logits'
  BY <1>1 DEF Logits
<1>2. ASSUME UNCHANGED <<pc, cfg, lg>> PROVE Logits'
  BY <1>2 DEF Logits, c
<1>3. CASE Loads \/ BindsLayers \/ OpensTrunk \/ BindsModel
  BY <1>1, <1>3 DEF Loads, BindsLayers, OpensTrunk, BindsModel
<1>4. ASSUME NEW new \in Feeds, NEW all \in BOOLEAN, Feed(new, all)
      PROVE  Logits'
  BY <1>1, <1>4 DEF Feed
<1>5. CASE Fetches \/ Lent \/ NotLent \/ AlreadyBound
  BY <1>1, <1>5 DEF Fetches, Lent, NotLent, AlreadyBound
<1>6. CASE Attends
  <2>1. pc' = "mlp"
    BY <1>6 DEF Attends
  <2>2. QED
    BY <1>1, <2>1
<1>7. CASE Mlp \/ Spills
  <2>1. pc' \in {"layer", "failed", "astray"}
    BY <1>7 DEF Mlp, Spills
  <2>2. QED
    BY <1>1, <2>1
<1>8. CASE Ranks
  <2>1. CASE pc' # "answered"
    BY <1>1, <2>1
  <2>2. CASE pc' = "answered"
    <3> DEFINE w == GotOfModel
               W == IF opts.ultra THEN Weight(ModelLevel, "lm_head") ELSE w.lm_head
               agg == Aggregated(c, br, nb, h, mul(w.out_res_norm, w.out_res_proj))
               x == rmsnorm(agg[T], w.norm, c)
    <3>1. lg' = Table([i \in 0 .. c.vocab - 1 |-> Kernel("logit", <<x, W, i>>)])
      BY <1>8, <2>2 DEF Ranks
    <3> HIDE DEF x, W
    <3>2. lg' = [i \in 0 .. c.vocab - 1 |-> Kernel("logit", <<x, W, i>>)]
      BY <3>1 DEF Table
    <3>3. lg' \in [0 .. c.vocab - 1 -> Int]
      BY <3>2 DEF Comparable
    <3>4. cfg' = cfg
      BY <1>8 DEF Ranks
    <3>5. QED
      BY <3>3, <3>4 DEF Logits, c
  <2>3. QED
    BY <2>1, <2>2
<1>9. CASE Draws \/ NotDrawn \/ Clears
  BY <1>1, <1>9 DEF Draws, NotDrawn, Clears
<1>10. CASE Snapshot
  BY <1>2, <1>10 DEF Snapshot
<1>11. ASSUME NEW keep \in 1 .. Tmax, Rewinds(keep)
       PROVE  Logits'
  BY <1>1, <1>11 DEF Rewinds
<1>12. CASE UNCHANGED vars
  BY <1>2, <1>12 DEF vars
<1>13. QED
  BY <1>3, <1>4, <1>5, <1>6, <1>7, <1>8, <1>9, <1>10, <1>11, <1>12 DEF Next

LEMMA DrawStep ==
    ASSUME Weighable, IInv, Logits, [Next]_vars,
           Len(seq') > Len(seq), pc = "answered", pc' = "ready"
    PROVE  IF opts.greedy \/ Overflows(lg[argmax(lg)]) THEN seq'[Len(seq')] = argmax(lg)
           ELSE seq'[Len(seq')] \in Kept(lg, opts.top_k, opts.top_p)
<1> USE DEF caller, process
<1>1. PICK S : seq \in Seq(S)
  BY DEF IInv, Ranges
<1>2. Len(seq) \in Nat
  BY <1>1, Texts
<1>3. Draws
  <2>1. \/ Draws \/ Clears \/ \E keep \in 1 .. Tmax : Rewinds(keep)
    <3>1. ASSUME NEW new \in Feeds, NEW all \in BOOLEAN, Feed(new, all) PROVE FALSE
      BY <3>1 DEF Feed
    <3>2. ~Loads /\ ~BindsLayers /\ ~OpensTrunk /\ ~BindsModel
      BY DEF Loads, BindsLayers, OpensTrunk, BindsModel
    <3>3. ~Fetches /\ ~Lent /\ ~NotLent /\ ~AlreadyBound
      BY DEF Fetches, Lent, NotLent, AlreadyBound
    <3>4. ~Attends /\ ~Mlp /\ ~Spills /\ ~Ranks /\ ~NotDrawn
      BY DEF Attends, Mlp, Spills, Ranks, NotDrawn
    <3>5. ~Snapshot /\ ~UNCHANGED vars
      BY DEF Snapshot, vars
    <3>6. QED
      BY <3>1, <3>2, <3>3, <3>4, <3>5 DEF Next
  <2>2. ~Clears
    <3>1. ASSUME Clears PROVE FALSE
      <4>1. seq' = <<>>
        BY <3>1 DEF Clears
      <4>2. Len(seq') = 0
        BY <4>1, EmptySeq
      <4>3. QED
        BY <1>2, <4>2
    <3>2. QED
      BY <3>1
  <2>3. ASSUME NEW keep \in 1 .. Tmax, Rewinds(keep) PROVE FALSE
    <3>1. keep \in snap.at + 1 .. Len(seq) /\ seq' = SubSeq(seq, 1, keep)
      BY <2>3 DEF Rewinds
    <3>2. keep \in 1 .. Len(seq)
      BY <1>2, <3>1
    <3>3. Len(seq') = keep
      BY <1>1, <3>1, <3>2, Texts
    <3>4. QED
      BY <1>2, <3>2, <3>3
  <2>4. QED
    BY <2>1, <2>2, <2>3
<1>4. PICK x \in Sampled \ {NoToken} : seq' = Append(seq, x)
  BY <1>3 DEF Draws
<1>5. seq'[Len(seq')] = x
  <2>1. seq \in Seq(S \cup {x}) /\ x \in S \cup {x}
    <3>1. seq \in [1 .. Len(seq) -> S \cup {x}]
      BY <1>1, LenProperties
    <3>2. QED
      BY <1>2, <3>1, SeqDef
  <2>2. QED
    BY <1>4, <2>1, AppendProperties
<1>6. cfg.ok
  BY DEF IInv, Loaded
<1>7. lg \in [0 .. c.vocab - 1 -> Int] /\ c.vocab \in Nat \ {0}
  BY <1>6, ConfigIs, SizesAre DEF Logits
<1>8. /\ opts.top_k \in Int /\ opts.top_p.num \in Nat \ {0} /\ opts.top_p.den \in Nat \ {0}
      /\ opts.top_p.num <= opts.top_p.den
  BY JobsAssumption DEF IInv, Ranges, opts, Options
<1>9. x \in k3_sampler_next(lg, opts.greedy, opts.top_k, opts.top_p) \ {NoToken}
  BY <1>4 DEF Sampled
<1>10. QED
  BY <1>5, <1>7, <1>8, <1>9, SampledIs

(* When logits and weights can be compared and no size is negative, every   *)
(* token drawn, in whatever pass, is one the options keep: among the first  *)
(* top_k, and needed for the fraction top_p.  It is the best one, greedily  *)
(* and where the temperature leaves the logits no sum.                      *)
THEOREM DrawsHeld ==
    ASSUME NaturalSizes, Comparable, Weighable
    PROVE  Spec => DrawsKept
<1>1. Init => Logits
  BY DEF Init, Logits
<1>2. IInv /\ Logits /\ [Next]_vars => Logits'
  BY LogitsKept
<1>3. IInv /\ Logits /\ [Next]_vars =>
        [Len(seq') > Len(seq) /\ pc = "answered" /\ pc' = "ready" =>
           IF opts.greedy \/ Overflows(lg[argmax(lg)]) THEN seq'[Len(seq')] = argmax(lg)
           ELSE seq'[Len(seq')] \in Kept(lg, opts.top_k, opts.top_p)]_vars
  BY DrawStep
<1>4. QED
  BY <1>1, <1>2, <1>3, Invariant, PTL DEF Spec, DrawsKept

-----------------------------------------------------------------------------
(* Sequences of any items, by their positions. *)

(* f is a sequence of n items. *)
IsSeq(f, n) == n \in Nat /\ f = [t \in 1 .. n |-> f[t]]

(* u is f and then x; f, of n items, and then g, of m; n items of f, from   *)
(* its a-th on.                                                             *)
Extends(u, f, n, x) == IsSeq(u, n + 1) /\ (\A t \in 1 .. n : u[t] = f[t]) /\ u[n + 1] = x
Joins(u, f, n, g, m) ==
    /\ IsSeq(u, n + m)
    /\ \A t \in 1 .. n : u[t] = f[t]
    /\ \A t \in 1 .. m : u[n + t] = g[t]
Cuts(u, f, a, n) == IsSeq(u, n) /\ \A t \in 1 .. n : u[t] = f[a + t - 1]

LEMMA SeqIs ==
    ASSUME NEW f, NEW n, IsSeq(f, n)
    PROVE  \E S : f \in Seq(S) /\ Len(f) = n /\ DOMAIN f = 1 .. n
<1> DEFINE S == {f[t] : t \in 1 .. n}
<1>1. n \in Nat /\ f = [t \in 1 .. n |-> f[t]]
  BY DEF IsSeq
<1>2. f \in [1 .. n -> S]
  BY <1>1
<1> HIDE DEF S
<1>3. f \in Seq(S) /\ Len(f) = n
  BY <1>1, <1>2, FunIsSeq
<1>4. QED
  BY <1>2, <1>3

LEMMA SeqOf ==
    ASSUME NEW S, NEW f \in Seq(S)
    PROVE  IsSeq(f, Len(f))
<1>1. Len(f) \in Nat /\ f \in [1 .. Len(f) -> S]
  BY LenProperties
<1>2. QED
  BY <1>1 DEF IsSeq

(* Two sequences as sequences over one set. *)
LEMMA SeqBoth ==
    ASSUME NEW f, NEW n, IsSeq(f, n), NEW g, NEW m, IsSeq(g, m)
    PROVE  \E S : /\ f \in Seq(S) /\ Len(f) = n /\ DOMAIN f = 1 .. n
                  /\ g \in Seq(S) /\ Len(g) = m /\ DOMAIN g = 1 .. m
<1> DEFINE S == {f[t] : t \in 1 .. n} \cup {g[t] : t \in 1 .. m}
<1>1. n \in Nat /\ f = [t \in 1 .. n |-> f[t]] /\ m \in Nat /\ g = [t \in 1 .. m |-> g[t]]
  BY DEF IsSeq
<1>2. f \in [1 .. n -> S]
  BY <1>1
<1>3. g \in [1 .. m -> S]
  BY <1>1
<1> HIDE DEF S
<1>4. f \in Seq(S) /\ Len(f) = n
  BY <1>1, <1>2, FunIsSeq
<1>5. g \in Seq(S) /\ Len(g) = m
  BY <1>1, <1>3, FunIsSeq
<1>6. QED
  BY <1>2, <1>3, <1>4, <1>5

LEMMA SeqSame ==
    ASSUME NEW f, NEW g, NEW n, IsSeq(f, n), IsSeq(g, n), \A t \in 1 .. n : f[t] = g[t]
    PROVE  f = g
BY DEF IsSeq

LEMMA SeqNone ==
    /\ IsSeq(<<>>, 0)
    /\ \A f : IsSeq(f, 0) => f = <<>>
<1>1. <<>> \in Seq(Nat) /\ Len(<<>>) = 0
  BY EmptySeq
<1>2. IsSeq(<<>>, 0)
  BY <1>1, SeqOf
<1>3. ASSUME NEW f, IsSeq(f, 0) PROVE f = <<>>
  BY <1>2, <1>3, SeqSame
<1>4. QED
  BY <1>2, <1>3

LEMMA SeqOne ==
    ASSUME NEW x
    PROVE  IsSeq(<<x>>, 1) /\ <<x>>[1] = x
<1>1. <<x>> \in Seq({x}) /\ Len(<<x>>) = 1
  OBVIOUS
<1>2. QED
  BY <1>1, SeqOf

LEMMA SeqAppend ==
    ASSUME NEW f, NEW n, IsSeq(f, n), NEW x
    PROVE  Extends(Append(f, x), f, n, x)
<1>0. n \in Nat
  BY DEF IsSeq
<1>1. PICK S : f \in Seq(S) /\ Len(f) = n
  BY SeqIs
<1>2. f \in Seq(S \cup {x}) /\ x \in S \cup {x}
  <2>1. f \in [1 .. n -> S \cup {x}]
    BY <1>1, LenProperties
  <2>2. QED
    BY <1>0, <2>1, SeqDef
<1>3. /\ Append(f, x) \in Seq(S \cup {x}) /\ Len(Append(f, x)) = n + 1
      /\ \A t \in 1 .. n : Append(f, x)[t] = f[t]
      /\ Append(f, x)[n + 1] = x
  BY <1>1, <1>2, AppendProperties
<1>4. IsSeq(Append(f, x), n + 1)
  BY <1>3, SeqOf
<1>5. QED
  BY <1>3, <1>4 DEF Extends

LEMMA SeqJoin ==
    ASSUME NEW f, NEW n, IsSeq(f, n), NEW g, NEW m, IsSeq(g, m)
    PROVE  Joins(f \o g, f, n, g, m)
<1>1. PICK S : f \in Seq(S) /\ Len(f) = n /\ g \in Seq(S) /\ Len(g) = m
  BY SeqBoth
<1>2. /\ f \o g \in Seq(S) /\ Len(f \o g) = n + m
      /\ \A t \in 1 .. n : (f \o g)[t] = f[t]
      /\ \A t \in 1 .. m : (f \o g)[n + t] = g[t]
  <2>1. f \in Seq(S) /\ g \in Seq(S)
    BY <1>1
  <2>2. f \o g \in Seq(S) /\ Len(f \o g) = Len(f) + Len(g)
    BY ONLY <2>1, Joined
  <2>3. \A t \in 1 .. Len(f) : (f \o g)[t] = f[t]
    BY ONLY <2>1, Joined
  <2>4. \A t \in 1 .. Len(g) : (f \o g)[Len(f) + t] = g[t]
    BY ONLY <2>1, Joined
  <2>5. QED
    BY <1>1, <2>2, <2>3, <2>4
<1>3. IsSeq(f \o g, n + m)
  BY <1>2, SeqOf
<1>4. QED
  BY <1>2, <1>3 DEF Joins

LEMMA SeqPart ==
    ASSUME NEW f, NEW n, IsSeq(f, n), NEW a \in 1 .. n + 1, NEW b \in a - 1 .. n
    PROVE  Cuts(SubSeq(f, a, b), f, a, b - a + 1)
<1>0. n \in Nat
  BY DEF IsSeq
<1>1. PICK S : f \in Seq(S) /\ Len(f) = n
  BY SeqIs
<1>2. \A i \in a .. b : f[i] \in S
  BY <1>0, <1>1, ElementOfSeq
<1>3. a \in Int /\ b \in Int
  BY <1>0
<1>4. /\ SubSeq(f, a, b) \in Seq(S)
      /\ Len(SubSeq(f, a, b)) = IF a <= b THEN b - a + 1 ELSE 0
      /\ \A i \in 1 .. b - a + 1 : SubSeq(f, a, b)[i] = f[a + i - 1]
  BY <1>0, <1>1, <1>2, <1>3, SubSeqProperties
<1>5. Len(SubSeq(f, a, b)) = b - a + 1
  BY <1>0, <1>4
<1>6. IsSeq(SubSeq(f, a, b), Len(SubSeq(f, a, b)))
  BY <1>4, SeqOf
<1>7. QED
  BY <1>4, <1>5, <1>6 DEF Cuts

(* A sequence cut after its first k items. *)
LEMMA SeqCut ==
    ASSUME NEW f, NEW n, IsSeq(f, n), NEW k \in 0 .. n
    PROVE  IsSeq(SubSeq(f, 1, k), k) /\ \A t \in 1 .. k : SubSeq(f, 1, k)[t] = f[t]
<1>1. n \in Nat
  BY DEF IsSeq
<1>2. 1 \in 1 .. n + 1 /\ k \in 1 - 1 .. n /\ k - 1 + 1 = k /\ \A t \in 1 .. k : 1 + t - 1 = t
  BY <1>1
<1>3. Cuts(SubSeq(f, 1, k), f, 1, k - 1 + 1)
  BY <1>2, SeqPart
<1>4. QED
  BY <1>2, <1>3 DEF Cuts

-----------------------------------------------------------------------------
(* The window of a convolution, on a whole text and on a feed behind what   *)
(* was carried over.                                                        *)

Views(W, X, t, k) ==
    /\ IsSeq(W, k)
    /\ \A i \in 1 .. k : W[i] = IF t - k + i >= 1 THEN X[t - k + i] ELSE Zero

LEMMA WindowIs ==
    ASSUME NEW X, NEW t, NEW k \in Nat
    PROVE  Views(Model!Window(X, t, k), X, t, k)
<1>1. Model!Window(X, t, k) = [i \in 1 .. k |-> IF t - k + i >= 1 THEN X[t - k + i] ELSE Zero]
  BY DEF Model!Window, Zero, Model!Zero
<1>2. QED
  BY <1>1 DEF IsSeq, Views

(* hist before PP: the windows of PP's n items, and what is left behind them, *)
(* are those of X from b on.                                                *)
Moves(hist, PP, n, X, b, k) ==
    /\ Len(hist) = k
    /\ \A t \in 1 .. n : SubSeq(hist \o PP, t, t + Len(hist)) = Model!Window(X, b + t, k + 1)
    /\ SubSeq(hist \o PP, Len(PP) + 1, Len(PP) + Len(hist)) = Model!Window(X, b + n, k)

LEMMA WindowMoves ==
    ASSUME NEW X, NEW b \in Nat, NEW k \in Nat, NEW PP, NEW n \in Nat, IsSeq(PP, n),
           \A t \in 1 .. n : PP[t] = X[b + t]
    PROVE  Moves(Model!Window(X, b, k), PP, n, X, b, k)
<1> DEFINE hist == Model!Window(X, b, k)
           all == hist \o PP
<1>0. Views(hist, X, b, k)
  BY WindowIs
<1> HIDE DEF hist
<1>1. IsSeq(hist, k) /\ \A i \in 1 .. k : hist[i] = IF b - k + i >= 1 THEN X[b - k + i] ELSE Zero
  BY <1>0 DEF Views
<1>2. Len(hist) = k /\ Len(PP) = n
  BY <1>1, SeqIs
<1>15. Joins(all, hist, k, PP, n)
  BY <1>1, SeqJoin
<1> HIDE DEF all
<1>3. /\ IsSeq(all, k + n)
      /\ \A i \in 1 .. k : all[i] = hist[i]
      /\ \A i \in 1 .. n : all[k + i] = PP[i]
  BY <1>15 DEF Joins
<1>4. ASSUME NEW i \in 1 .. k + n
      PROVE  all[i] = IF b - k + i >= 1 THEN X[b - k + i] ELSE Zero
  <2>1. CASE i <= k
    BY <1>1, <1>3, <2>1
  <2>2. CASE i > k
    <3>1. i - k \in 1 .. n /\ k + (i - k) = i /\ b + (i - k) = b - k + i /\ b - k + i >= 1
      BY <2>2
    <3>2. all[i] = PP[i - k] /\ PP[i - k] = X[b + (i - k)]
      BY <1>3, <3>1
    <3>3. QED
      BY <3>1, <3>2
  <2>3. QED
    BY <2>1, <2>2
<1>5. ASSUME NEW t \in 1 .. n PROVE SubSeq(all, t, t + k) = Model!Window(X, b + t, k + 1)
  <2>1. t \in 1 .. k + n + 1 /\ t + k \in t - 1 .. k + n /\ t + k - t + 1 = k + 1
    OBVIOUS
  <2>2. IsSeq(SubSeq(all, t, t + k), k + 1) /\ \A i \in 1 .. k + 1 : SubSeq(all, t, t + k)[i] = all[t + i - 1]
    <3>0. k + n \in Nat
      OBVIOUS
    <3>1. Cuts(SubSeq(all, t, t + k), all, t, t + k - t + 1)
      BY <1>3, <2>1, SeqPart
    <3>2. QED
      BY <2>1, <3>1 DEF Cuts
  <2>0. Views(Model!Window(X, b + t, k + 1), X, b + t, k + 1)
    BY WindowIs
  <2>3. /\ IsSeq(Model!Window(X, b + t, k + 1), k + 1)
        /\ \A i \in 1 .. k + 1 : Model!Window(X, b + t, k + 1)[i]
              = IF b + t - (k + 1) + i >= 1 THEN X[b + t - (k + 1) + i] ELSE Zero
    BY <2>0 DEF Views
  <2>4. ASSUME NEW i \in 1 .. k + 1 PROVE SubSeq(all, t, t + k)[i] = Model!Window(X, b + t, k + 1)[i]
    <3>1. t + i - 1 \in 1 .. k + n /\ b - k + (t + i - 1) = b + t - (k + 1) + i
      OBVIOUS
    <3>2. QED
      BY <1>4, <2>2, <2>3, <3>1
  <2>5. QED
    BY <2>2, <2>3, <2>4, SeqSame
<1>6. SubSeq(all, n + 1, n + k) = Model!Window(X, b + n, k)
  <2>1. n + 1 \in 1 .. k + n + 1 /\ n + k \in n + 1 - 1 .. k + n /\ n + k - (n + 1) + 1 = k
    OBVIOUS
  <2>2. IsSeq(SubSeq(all, n + 1, n + k), k) /\ \A i \in 1 .. k : SubSeq(all, n + 1, n + k)[i] = all[n + i]
    <3>1. Cuts(SubSeq(all, n + 1, n + k), all, n + 1, n + k - (n + 1) + 1)
      BY <1>3, <2>1, SeqPart
    <3>2. \A i \in 1 .. k : n + 1 + i - 1 = n + i
      OBVIOUS
    <3>3. QED
      BY <2>1, <3>1, <3>2 DEF Cuts
  <2>0. Views(Model!Window(X, b + n, k), X, b + n, k)
    BY WindowIs
  <2>3. /\ IsSeq(Model!Window(X, b + n, k), k)
        /\ \A i \in 1 .. k : Model!Window(X, b + n, k)[i]
              = IF b + n - k + i >= 1 THEN X[b + n - k + i] ELSE Zero
    BY <2>0 DEF Views
  <2>4. ASSUME NEW i \in 1 .. k PROVE SubSeq(all, n + 1, n + k)[i] = Model!Window(X, b + n, k)[i]
    <3>1. n + i \in 1 .. k + n /\ b - k + (n + i) = b + n - k + i
      OBVIOUS
    <3>2. QED
      BY <1>4, <2>2, <2>3, <3>1
  <2>5. QED
    BY <2>2, <2>3, <2>4, SeqSame
<1>7. QED
  BY <1>2, <1>5, <1>6 DEF all, hist, Moves

LEMMA WindowClear ==
    ASSUME NEW X, NEW k \in Nat
    PROVE  Model!Window(X, 0, k) = [i \in 1 .. k |-> Zero]
<1>1. Views(Model!Window(X, 0, k), X, 0, k)
  BY WindowIs
<1>2. \A i \in 1 .. k : ~(0 - k + i >= 1)
  OBVIOUS
<1>3. QED
  BY <1>1, <1>2 DEF IsSeq, Views

(* A window sees nothing behind its position. *)
LEMMA WindowCausal ==
    ASSUME NEW X, NEW Y, NEW t \in Int, NEW k \in Nat, \A i \in 1 .. t : X[i] = Y[i]
    PROVE  Model!Window(X, t, k) = Model!Window(Y, t, k)
<1>1. Views(Model!Window(X, t, k), X, t, k) /\ Views(Model!Window(Y, t, k), Y, t, k)
  BY WindowIs
<1>2. \A i \in 1 .. k : t - k + i >= 1 => t - k + i \in 1 .. t
  OBVIOUS
<1>3. QED
  BY <1>1, <1>2, SeqSame DEF Views

-----------------------------------------------------------------------------
(* The recurrence of a KDA layer. *)

Proj(xs, W) == [t \in DOMAIN xs |-> mmw(xs[t], W)]
Decay(c1, w, x) == decay(mmw(mmw(x, w.f_a), w.f_b), w, c1)
Beta(w, x) == sigmoid(mmw(x, w.b))

(* From S on, over n positions. *)
StepRun(f, S, n, c1, w, xs, k, v) ==
    f = [t \in 0 .. n |->
            IF t = 0 THEN S
            ELSE kda_step(f[t - 1], l2norm(k[t]), v[t], Decay(c1, w, xs[t]), Beta(w, xs[t]))]

StepsOf(f, S, n, c1, w, xs, k, v) ==
    /\ f[0] = S
    /\ \A t \in 1 .. n :
          f[t] = kda_step(f[t - 1], l2norm(k[t]), v[t], Decay(c1, w, xs[t]), Beta(w, xs[t]))

LEMMA StepRuns ==
    ASSUME NEW S, NEW n \in Nat, NEW c1, NEW w, NEW xs, NEW k, NEW v
    PROVE  \E f : StepRun(f, S, n, c1, w, xs, k, v)
<1> DEFINE A == {i \in 0 .. n : \E f : StepRun(f, S, i, c1, w, xs, k, v)}
<1>1. 0 \in A
  <2> DEFINE f == [t \in 0 .. 0 |-> S]
  <2>1. f = [t \in 0 .. 0 |-> IF t = 0 THEN S ELSE
              kda_step(f[t - 1], l2norm(k[t]), v[t], Decay(c1, w, xs[t]), Beta(w, xs[t]))]
    OBVIOUS
  <2>2. StepRun(f, S, 0, c1, w, xs, k, v)
    BY <2>1 DEF StepRun
  <2>3. QED
    BY <2>2
<1>2. ASSUME NEW i \in 0 .. n - 1, i \in A PROVE i + 1 \in A
  <2>1. PICK f : StepRun(f, S, i, c1, w, xs, k, v)
    BY <1>2
  <2> DEFINE At(g, t) == kda_step(g[t - 1], l2norm(k[t]), v[t], Decay(c1, w, xs[t]), Beta(w, xs[t]))
             hh == [t \in 0 .. i + 1 |-> IF t <= i THEN f[t] ELSE At(f, t)]
  <2>2. f = [t \in 0 .. i |-> IF t = 0 THEN S ELSE At(f, t)]
    BY <2>1 DEF StepRun
  <2>3. ASSUME NEW t \in 0 .. i + 1 PROVE hh[t] = IF t = 0 THEN S ELSE At(hh, t)
    <3>1. CASE t = 0
      BY <2>2, <3>1
    <3>2. CASE t # 0
      <4>1. t - 1 \in 0 .. i + 1 /\ t - 1 <= i
        BY <3>2
      <4>2. hh[t - 1] = f[t - 1]
        BY <4>1
      <4>3. At(hh, t) = At(f, t)
        BY <4>2
      <4>4. hh[t] = At(f, t)
        <5>1. t <= i => t \in 0 .. i
          OBVIOUS
        <5>2. t <= i => f[t] = At(f, t)
          <6> HIDE DEF At
          <6>1. QED
            BY <2>2, <3>2, <5>1
        <5>3. QED
          BY <5>2
      <4>5. QED
        <5> HIDE DEF At, hh
        <5>1. QED
          BY <3>2, <4>3, <4>4
    <3>3. QED
      BY <3>1, <3>2
  <2>4. hh = [t \in 0 .. i + 1 |-> hh[t]]
    OBVIOUS
  <2>5. hh = [t \in 0 .. i + 1 |-> IF t = 0 THEN S ELSE At(hh, t)]
    <3> HIDE DEF At, hh
    <3>1. QED
      BY <2>3, <2>4
  <2>6. StepRun(hh, S, i + 1, c1, w, xs, k, v)
    <3> HIDE DEF hh
    <3>1. QED
      BY <2>5 DEF StepRun
  <2>7. i + 1 \in 0 .. n
    OBVIOUS
  <2>8. QED
    <3> HIDE DEF hh
    <3>1. QED
      BY <2>6, <2>7
<1> HIDE DEF A
<1>3. \A i \in 0 .. n : i \in A
  BY <1>1, <1>2, Climbs
<1>4. n \in A
  BY <1>3
<1>5. QED
  BY <1>4 DEF A

LEMMA StepRunIs ==
    ASSUME NEW S, NEW n \in Nat, NEW c1, NEW w, NEW xs, NEW k, NEW v, NEW f,
           StepRun(f, S, n, c1, w, xs, k, v)
    PROVE  StepsOf(f, S, n, c1, w, xs, k, v)
<1> DEFINE At(t) == kda_step(f[t - 1], l2norm(k[t]), v[t], Decay(c1, w, xs[t]), Beta(w, xs[t]))
<1>1. f = [t \in 0 .. n |-> IF t = 0 THEN S ELSE At(t)]
  BY DEF StepRun
<1> HIDE DEF At
<1>2. \A t \in 0 .. n : f[t] = IF t = 0 THEN S ELSE At(t)
  BY <1>1
<1>3. 0 \in 0 .. n /\ \A t \in 1 .. n : t \in 0 .. n /\ t # 0
  OBVIOUS
<1>4. f[0] = S /\ \A t \in 1 .. n : f[t] = At(t)
  BY <1>2, <1>3
<1>5. QED
  BY <1>4 DEF At, StepsOf

(* Two recurrences that meet and take the same inputs go together. *)
(* n steps of f, from its b-th on, with these inputs. *)
Advances(f, b, n, k, v, al, be) ==
    \A t \in 1 .. n : f[b + t] = kda_step(f[b + t - 1], k[t], v[t], al[t], be[t])

LEMMA StepsMeet ==
    ASSUME NEW n \in Nat, NEW b \in Nat, NEW f, NEW g, f[0] = g[b],
           NEW k, NEW v, NEW al, NEW be,
           Advances(f, 0, n, k, v, al, be), Advances(g, b, n, k, v, al, be)
    PROVE  \A t \in 0 .. n : f[t] = g[b + t]
<1> DEFINE A == {t \in 0 .. n : f[t] = g[b + t]}
<1>1. 0 \in A
  <2>1. b + 0 = b
    OBVIOUS
  <2>2. QED
    BY <2>1
<1>2. ASSUME NEW i \in 0 .. n - 1, i \in A PROVE i + 1 \in A
  <2>1. i + 1 \in 1 .. n /\ 0 + (i + 1) = i + 1 /\ 0 + (i + 1) - 1 = i /\ b + (i + 1) - 1 = b + i /\ i + 1 \in 0 .. n
    OBVIOUS
  <2>2. f[i + 1] = kda_step(f[i], k[i + 1], v[i + 1], al[i + 1], be[i + 1])
    BY <2>1 DEF Advances
  <2>3. g[b + (i + 1)] = kda_step(g[b + i], k[i + 1], v[i + 1], al[i + 1], be[i + 1])
    BY <2>1 DEF Advances
  <2>4. f[i] = g[b + i]
    BY <1>2
  <2>5. QED
    BY <2>1, <2>2, <2>3, <2>4
<1> HIDE DEF A
<1>3. \A t \in 0 .. n : t \in A
  BY <1>1, <1>2, Climbs
<1>4. QED
  BY <1>3 DEF A

(* The convolution of the model at a position, and what a layer carries     *)
(* behind the first b positions of the text.                                *)
ConvAt(c1, w, xs, name, taps, t) ==
    conv(Model!Window(Proj(xs, w[name]), t, c1.conv_k), w[taps])
ConvOf(c1, w, xs, name, taps) == [t \in DOMAIN xs |-> ConvAt(c1, w, xs, name, taps, t)]

Hist(c1, w, xs, b) ==
    [S |-> Model!KdaStates(c1, w, xs)[b],
     q |-> Model!Window(Proj(xs, w["q"]), b, c1.conv_k - 1),
     k |-> Model!Window(Proj(xs, w["k"]), b, c1.conv_k - 1),
     v |-> Model!Window(Proj(xs, w["v"]), b, c1.conv_k - 1)]

LEMMA ConvedIs ==
    ASSUME NEW c1, NEW w, NEW xs, NEW name, NEW taps
    PROVE  Model!Conved(c1, w, xs, name, taps) = ConvOf(c1, w, xs, name, taps)
BY DEF Model!Conved, ConvOf, ConvAt, Proj, Model!Table, Model!mmw, mmw, Model!conv, conv

LEMMA StatesRun ==
    ASSUME NEW c1, NEW w, NEW xs, Len(xs) \in Nat
    PROVE  StepRun(Model!KdaStates(c1, w, xs), Zero, Len(xs), c1, w, xs,
                   ConvOf(c1, w, xs, "k", "k_conv"), ConvOf(c1, w, xs, "v", "v_conv"))
<1> DEFINE k == ConvOf(c1, w, xs, "k", "k_conv")
           v == ConvOf(c1, w, xs, "v", "v_conv")
           G == CHOOSE f : StepRun(f, Zero, Len(xs), c1, w, xs, k, v)
<1>1. \E f : StepRun(f, Zero, Len(xs), c1, w, xs, k, v)
  BY StepRuns
<1>2. StepRun(G, Zero, Len(xs), c1, w, xs, k, v)
  BY <1>1
<1>3. Model!Conved(c1, w, xs, "k", "k_conv") = k /\ Model!Conved(c1, w, xs, "v", "v_conv") = v
  BY ConvedIs
<1> HIDE DEF k, v
<1>4. Model!KdaStates(c1, w, xs) = G
  BY <1>3 DEF Model!KdaStates, StepRun, Decay, Beta, Model!Table, Zero, Model!Zero, kda_step,
     Model!kda_step, l2norm, Model!l2norm, decay, Model!decay, mmw, Model!mmw, sigmoid, Model!sigmoid
<1> HIDE DEF G
<1>5. QED
  BY <1>2, <1>4 DEF k, v

KdaOuts(r, c1, w, xs, n) ==
    /\ IsSeq(r, n)
    /\ \A t \in 1 .. n :
          r[t] = kda_tail(c1, xs[t], kda_out(Model!KdaStates(c1, w, xs)[t],
                                             l2norm(ConvAt(c1, w, xs, "q", "q_conv", t))), w)
KdaStepped(S, c1, w, xs, n) ==
    /\ S[0] = Zero
    /\ \A t \in 1 .. n :
          S[t] = kda_step(S[t - 1], l2norm(ConvAt(c1, w, xs, "k", "k_conv", t)),
                          ConvAt(c1, w, xs, "v", "v_conv", t),
                          Decay(c1, w, xs[t]), Beta(w, xs[t]))

LEMMA KdaIs ==
    ASSUME NEW c1, NEW w, NEW xs, NEW n, IsSeq(xs, n)
    PROVE  KdaOuts(Model!Kda(c1, w, xs), c1, w, xs, n)
<1>1. DOMAIN xs = 1 .. n /\ n \in Nat
  BY DEF IsSeq
<1>2. Model!Conved(c1, w, xs, "q", "q_conv") = ConvOf(c1, w, xs, "q", "q_conv")
  BY ConvedIs
<1>3. Model!Kda(c1, w, xs) = [t \in 1 .. n |->
         kda_tail(c1, xs[t], kda_out(Model!KdaStates(c1, w, xs)[t],
                                     l2norm(ConvOf(c1, w, xs, "q", "q_conv")[t])), w)]
  BY <1>1, <1>2 DEF Model!Kda, kda_tail, Model!kda_tail, kda_out, Model!kda_out, l2norm, Model!l2norm,
     mmw, Model!mmw, mul, Model!mul, rmsnorm, Model!rmsnorm, sigmoid, Model!sigmoid
<1>4. \A t \in 1 .. n : ConvOf(c1, w, xs, "q", "q_conv")[t] = ConvAt(c1, w, xs, "q", "q_conv", t)
  BY <1>1 DEF ConvOf
<1>5. QED
  BY <1>1, <1>3, <1>4 DEF IsSeq, KdaOuts

LEMMA StatesAre ==
    ASSUME NEW c1, NEW w, NEW xs, NEW n, IsSeq(xs, n)
    PROVE  KdaStepped(Model!KdaStates(c1, w, xs), c1, w, xs, n)
<1> DEFINE k == ConvOf(c1, w, xs, "k", "k_conv")
           v == ConvOf(c1, w, xs, "v", "v_conv")
           G == Model!KdaStates(c1, w, xs)
<1>1. DOMAIN xs = 1 .. n /\ Len(xs) = n /\ n \in Nat
  BY SeqIs DEF IsSeq
<1>2. StepRun(G, Zero, n, c1, w, xs, k, v)
  BY <1>1, StatesRun
<1>3. \A t \in 1 .. n : k[t] = ConvAt(c1, w, xs, "k", "k_conv", t) /\ v[t] = ConvAt(c1, w, xs, "v", "v_conv", t)
  BY <1>1 DEF ConvOf
<1> HIDE DEF G, k, v
<1>4. StepsOf(G, Zero, n, c1, w, xs, k, v)
  BY <1>1, <1>2, StepRunIs
<1>5. QED
  BY <1>3, <1>4 DEF G, StepsOf, KdaStepped

(* What a call computes, from the state it is given. *)
KdaCall(r, c1, w, ys, n, st, S) ==
    LET q == shortconv(Proj(ys, w["q"]), w["q_conv"], st.q)
        k == shortconv(Proj(ys, w["k"]), w["k_conv"], st.k)
        v == shortconv(Proj(ys, w["v"]), w["v_conv"], st.v)
    IN /\ StepRun(S, st.S, n, c1, w, ys, k, v)
       /\ r = [out |-> [t \in 1 .. n |-> kda_tail(c1, ys[t], kda_out(S[t], l2norm(q[t])), w)],
               state |-> [S |-> S[n],
                          q |-> Carried(Proj(ys, w["q"]), st.q),
                          k |-> Carried(Proj(ys, w["k"]), st.k),
                          v |-> Carried(Proj(ys, w["v"]), st.v)]]

LEMMA LayerKdaIs ==
    ASSUME NEW c1, NEW w, NEW ys, NEW n, IsSeq(ys, n), NEW st
    PROVE  \E S : KdaCall(kda_layer(c1, w, ys, st), c1, w, ys, n, st, S)
<1> DEFINE proj == Table([name \in {"q", "k", "v"} |-> Table([t \in DOMAIN ys |-> mmw(ys[t], w[name])])])
           qq == shortconv(proj.q, w.q_conv, st.q)
           kk == shortconv(proj.k, w.k_conv, st.k)
           vv == shortconv(proj.v, w.v_conv, st.v)
           SS == CHOOSE f : f = [t \in 0 .. Len(ys) |-> IF t = 0 THEN st.S ELSE
                 kda_step(f[t - 1], l2norm(kk[t]), vv[t],
                          decay(mmw(mmw(ys[t], w.f_a), w.f_b), w, c1), sigmoid(mmw(ys[t], w.b)))]
<1>1. kda_layer(c1, w, ys, st) =
        [out |-> [t \in DOMAIN ys |-> kda_tail(c1, ys[t], kda_out(Table(SS)[t], l2norm(qq[t])), w)],
         state |-> [S |-> Table(SS)[Len(ys)], q |-> Carried(proj.q, st.q), k |-> Carried(proj.k, st.k),
                    v |-> Carried(proj.v, st.v)]]
  BY DEF kda_layer
<1>2. DOMAIN ys = 1 .. n /\ Len(ys) = n /\ n \in Nat
  BY SeqIs DEF IsSeq
<1>3. proj.q = Proj(ys, w["q"]) /\ proj.k = Proj(ys, w["k"]) /\ proj.v = Proj(ys, w["v"])
  BY DEF Proj, Table
<1> HIDE DEF proj
<1> DEFINE q == shortconv(Proj(ys, w["q"]), w["q_conv"], st.q)
           k == shortconv(Proj(ys, w["k"]), w["k_conv"], st.k)
           v == shortconv(Proj(ys, w["v"]), w["v_conv"], st.v)
           S == CHOOSE f : StepRun(f, st.S, n, c1, w, ys, k, v)
<1>4. qq = q /\ kk = k /\ vv = v
  BY <1>3
<1> HIDE DEF q, k, v, qq, kk, vv
<1>5. StepRun(S, st.S, n, c1, w, ys, k, v)
  BY <1>2, StepRuns
<1>6. SS = S
  BY <1>2, <1>4 DEF StepRun, Decay, Beta
<1> HIDE DEF S, SS
<1>7. Table(SS) = S
  BY <1>6 DEF Table
<1>8. kda_layer(c1, w, ys, st) =
        [out |-> [t \in 1 .. n |-> kda_tail(c1, ys[t], kda_out(S[t], l2norm(q[t])), w)],
         state |-> [S |-> S[n],
                    q |-> Carried(Proj(ys, w["q"]), st.q),
                    k |-> Carried(Proj(ys, w["k"]), st.k),
                    v |-> Carried(Proj(ys, w["v"]), st.v)]]
  BY <1>1, <1>2, <1>3, <1>4, <1>7
<1>9. KdaCall(kda_layer(c1, w, ys, st), c1, w, ys, n, st, S)
  BY <1>5, <1>8 DEF KdaCall, q, k, v
<1>10. QED
  BY <1>9

KdaNames == {"q", "k", "v", "g", "o", "q_conv", "k_conv", "v_conv", "f_a", "f_b", "b", "A_log",
             "dt_bias", "o_norm"}

(* u has the weights of w by these names. *)
Alike(u, w, names) == \A name \in names : u[name] = w[name]

LEMMA KdaAlike ==
    ASSUME NEW c1, NEW w, NEW u, Alike(u, w, KdaNames), NEW ys, NEW n, NEW st, NEW r, NEW S,
           KdaCall(r, c1, u, ys, n, st, S)
    PROVE  KdaCall(r, c1, w, ys, n, st, S)
<1>1. /\ u["q"] = w["q"] /\ u["k"] = w["k"] /\ u["v"] = w["v"] /\ u["g"] = w["g"] /\ u["o"] = w["o"]
      /\ u["q_conv"] = w["q_conv"] /\ u["k_conv"] = w["k_conv"] /\ u["v_conv"] = w["v_conv"]
      /\ u["f_a"] = w["f_a"] /\ u["f_b"] = w["f_b"] /\ u["b"] = w["b"] /\ u["A_log"] = w["A_log"]
      /\ u["dt_bias"] = w["dt_bias"] /\ u["o_norm"] = w["o_norm"]
  BY DEF Alike, KdaNames
<1>2. \A x, o : kda_tail(c1, x, o, u) = kda_tail(c1, x, o, w)
  BY <1>1 DEF kda_tail
<1>3. \A x : Decay(c1, u, x) = Decay(c1, w, x) /\ Beta(u, x) = Beta(w, x)
  BY <1>1 DEF Decay, Beta, decay
<1> DEFINE q == shortconv(Proj(ys, w["q"]), w["q_conv"], st.q)
           k == shortconv(Proj(ys, w["k"]), w["k_conv"], st.k)
           v == shortconv(Proj(ys, w["v"]), w["v_conv"], st.v)
<1>4. /\ StepRun(S, st.S, n, c1, u, ys, k, v)
      /\ r = [out |-> [t \in 1 .. n |-> kda_tail(c1, ys[t], kda_out(S[t], l2norm(q[t])), u)],
              state |-> [S |-> S[n],
                         q |-> Carried(Proj(ys, w["q"]), st.q),
                         k |-> Carried(Proj(ys, w["k"]), st.k),
                         v |-> Carried(Proj(ys, w["v"]), st.v)]]
  BY <1>1 DEF KdaCall
<1> HIDE DEF q, k, v
<1>5. StepRun(S, st.S, n, c1, w, ys, k, v)
  BY <1>3, <1>4 DEF StepRun
<1>6. [t \in 1 .. n |-> kda_tail(c1, ys[t], kda_out(S[t], l2norm(q[t])), u)]
        = [t \in 1 .. n |-> kda_tail(c1, ys[t], kda_out(S[t], l2norm(q[t])), w)]
  BY <1>2
<1>7. QED
  BY <1>4, <1>5, <1>6 DEF KdaCall, q, k, v

LEMMA ProjIs ==
    ASSUME NEW xs, NEW n, IsSeq(xs, n), NEW W
    PROVE  IsSeq(Proj(xs, W), n) /\ \A t \in 1 .. n : Proj(xs, W)[t] = mmw(xs[t], W)
BY DEF IsSeq, Proj

(* One convolution of a feed behind the first b positions of xs.            *)
ConvFed(c1, w, xs, name, taps, b, n, PP, hist) ==
    /\ \A t \in 1 .. n : shortconv(PP, w[taps], hist)[t] = ConvAt(c1, w, xs, name, taps, b + t)
    /\ Carried(PP, hist) = Model!Window(Proj(xs, w[name]), b + n, c1.conv_k - 1)

LEMMA ConvFeeds ==
    ASSUME NEW c1, c1.conv_k \in Nat \ {0}, NEW w, NEW xs, NEW N, IsSeq(xs, N),
           NEW b \in Nat, NEW n \in Nat, b + n <= N, NEW ys, IsSeq(ys, n),
           \A t \in 1 .. n : ys[t] = xs[b + t],
           NEW name, NEW taps, NEW hist,
           hist = Model!Window(Proj(xs, w[name]), b, c1.conv_k - 1)
    PROVE  ConvFed(c1, w, xs, name, taps, b, n, Proj(ys, w[name]), hist)
<1> DEFINE X == Proj(xs, w[name])
           PP == Proj(ys, w[name])
           k == c1.conv_k - 1
<1>1. k \in Nat /\ k + 1 = c1.conv_k /\ N \in Nat
  <2>1. N \in Nat
    BY DEF IsSeq
  <2>2. \A d \in Nat \ {0} : d - 1 \in Nat /\ d - 1 + 1 = d
    OBVIOUS
  <2>3. QED
    BY <2>1, <2>2
<1>2. IsSeq(X, N) /\ \A t \in 1 .. N : X[t] = mmw(xs[t], w[name])
  BY ProjIs
<1>3. IsSeq(PP, n) /\ \A t \in 1 .. n : PP[t] = mmw(ys[t], w[name])
  BY ProjIs
<1> HIDE DEF X, PP
<1>4. \A t \in 1 .. n : PP[t] = X[b + t]
  <2>1. \A t \in 1 .. n : b + t \in 1 .. N
    BY <1>1
  <2>2. QED
    BY <1>2, <1>3, <2>1
<1>5. hist = Model!Window(X, b, k)
  BY DEF X
<1> HIDE DEF k
<1>0. Moves(hist, PP, n, X, b, k)
  BY <1>1, <1>3, <1>4, <1>5, WindowMoves
<1>6. /\ Len(hist) = k
      /\ \A t \in 1 .. n : SubSeq(hist \o PP, t, t + Len(hist)) = Model!Window(X, b + t, k + 1)
      /\ SubSeq(hist \o PP, Len(PP) + 1, Len(PP) + Len(hist)) = Model!Window(X, b + n, k)
  BY <1>0 DEF Moves
<1>7. shortconv(PP, w[taps], hist)
        = [t \in 1 .. n |-> conv(SubSeq(hist \o PP, t, t + Len(hist)), w[taps])]
  <2>1. DOMAIN PP = 1 .. n
    BY <1>3 DEF IsSeq
  <2>2. QED
    BY <2>1 DEF shortconv, Table
<1>8. ASSUME NEW t \in 1 .. n
      PROVE  shortconv(PP, w[taps], hist)[t] = ConvAt(c1, w, xs, name, taps, b + t)
  <2>1. shortconv(PP, w[taps], hist)[t] = conv(SubSeq(hist \o PP, t, t + Len(hist)), w[taps])
    BY <1>7
  <2>2. QED
    BY <1>1, <1>6, <2>1 DEF ConvAt, X
<1>9. Carried(PP, hist) = Model!Window(X, b + n, k)
  BY <1>6 DEF Carried
<1>10. QED
  BY <1>8, <1>9 DEF X, PP, k, ConvFed

(* A call has put out what the model does behind b positions, n of them, *)
(* and carries what the model carries.                                      *)
KdaFed(r, c1, w, xs, b, n) ==
    /\ \A t \in 1 .. n : r.out[t] = Model!Kda(c1, w, xs)[b + t]
    /\ r.state = Hist(c1, w, xs, b + n)

LEMMA KdaChunk ==
    ASSUME NEW c1, c1.conv_k \in Nat \ {0}, NEW w, NEW u, Alike(u, w, KdaNames), NEW xs, NEW N, IsSeq(xs, N),
           NEW b \in Nat, NEW n \in Nat, b + n <= N, NEW ys, IsSeq(ys, n),
           \A t \in 1 .. n : ys[t] = xs[b + t]
    PROVE  KdaFed(kda_layer(c1, u, ys, Hist(c1, w, xs, b)), c1, w, xs, b, n)
<1> DEFINE st == Hist(c1, w, xs, b)
           r == kda_layer(c1, u, ys, st)
           q == shortconv(Proj(ys, w["q"]), w["q_conv"], st.q)
           k == shortconv(Proj(ys, w["k"]), w["k_conv"], st.k)
           v == shortconv(Proj(ys, w["v"]), w["v_conv"], st.v)
           G == Model!KdaStates(c1, w, xs)
<1>1. /\ st.S = G[b]
      /\ st.q = Model!Window(Proj(xs, w["q"]), b, c1.conv_k - 1)
      /\ st.k = Model!Window(Proj(xs, w["k"]), b, c1.conv_k - 1)
      /\ st.v = Model!Window(Proj(xs, w["v"]), b, c1.conv_k - 1)
  BY DEF Hist
<1> HIDE DEF st
<1>2. PICK S : KdaCall(r, c1, w, ys, n, st, S)
  BY LayerKdaIs, KdaAlike
<1> HIDE DEF r
<1>3. /\ StepRun(S, st.S, n, c1, w, ys, k, v)
      /\ r = [out |-> [t \in 1 .. n |-> kda_tail(c1, ys[t], kda_out(S[t], l2norm(q[t])), w)],
               state |-> [S |-> S[n],
                          q |-> Carried(Proj(ys, w["q"]), st.q),
                          k |-> Carried(Proj(ys, w["k"]), st.k),
                          v |-> Carried(Proj(ys, w["v"]), st.v)]]
  BY <1>2 DEF KdaCall
<1>q. ConvFed(c1, w, xs, "q", "q_conv", b, n, Proj(ys, w["q"]), st.q)
  BY <1>1, ConvFeeds
<1>4. /\ \A t \in 1 .. n : q[t] = ConvAt(c1, w, xs, "q", "q_conv", b + t)
      /\ Carried(Proj(ys, w["q"]), st.q) = Model!Window(Proj(xs, w["q"]), b + n, c1.conv_k - 1)
  BY <1>q DEF ConvFed
<1>k. ConvFed(c1, w, xs, "k", "k_conv", b, n, Proj(ys, w["k"]), st.k)
  BY <1>1, ConvFeeds
<1>5. /\ \A t \in 1 .. n : k[t] = ConvAt(c1, w, xs, "k", "k_conv", b + t)
      /\ Carried(Proj(ys, w["k"]), st.k) = Model!Window(Proj(xs, w["k"]), b + n, c1.conv_k - 1)
  BY <1>k DEF ConvFed
<1>v. ConvFed(c1, w, xs, "v", "v_conv", b, n, Proj(ys, w["v"]), st.v)
  BY <1>1, ConvFeeds
<1>6. /\ \A t \in 1 .. n : v[t] = ConvAt(c1, w, xs, "v", "v_conv", b + t)
      /\ Carried(Proj(ys, w["v"]), st.v) = Model!Window(Proj(xs, w["v"]), b + n, c1.conv_k - 1)
  BY <1>v DEF ConvFed
<1> HIDE DEF q, k, v, G
<1>7. StepsOf(S, st.S, n, c1, w, ys, k, v)
  BY <1>3, StepRunIs
<1>8. KdaStepped(G, c1, w, xs, N)
  BY StatesAre DEF G
<1>9. \A t \in 0 .. n : S[t] = G[b + t]
  <2> DEFINE kk == [t \in 1 .. n |-> l2norm(k[t])]
             al == [t \in 1 .. n |-> Decay(c1, w, ys[t])]
             be == [t \in 1 .. n |-> Beta(w, ys[t])]
  <2>1. Advances(S, 0, n, kk, v, al, be)
    <3>1. \A t \in 1 .. n : 0 + t = t
      OBVIOUS
    <3>2. \A t \in 1 .. n : S[t] = kda_step(S[t - 1], kk[t], v[t], al[t], be[t])
      BY <1>7 DEF StepsOf
    <3>3. QED
      BY <3>1, <3>2 DEF Advances
  <2>2. ASSUME NEW t \in 1 .. n PROVE G[b + t] = kda_step(G[b + t - 1], kk[t], v[t], al[t], be[t])
    <3>1. b + t \in 1 .. N
      BY DEF IsSeq
    <3>2. G[b + t] = kda_step(G[b + t - 1], l2norm(ConvAt(c1, w, xs, "k", "k_conv", b + t)),
             ConvAt(c1, w, xs, "v", "v_conv", b + t), Decay(c1, w, xs[b + t]), Beta(w, xs[b + t]))
      BY <1>8, <3>1 DEF KdaStepped
    <3>3. ys[t] = xs[b + t]
      OBVIOUS
    <3>4. QED
      BY <1>5, <1>6, <3>2, <3>3
  <2>3. S[0] = G[b]
    BY <1>1, <1>7 DEF StepsOf
  <2> HIDE DEF kk, al, be
  <2>4. Advances(G, b, n, kk, v, al, be)
    BY <2>2 DEF Advances
  <2>5. QED
    BY <2>1, <2>3, <2>4, StepsMeet
<1>10. KdaOuts(Model!Kda(c1, w, xs), c1, w, xs, N)
  BY KdaIs
<1>11. ASSUME NEW t \in 1 .. n PROVE r.out[t] = Model!Kda(c1, w, xs)[b + t]
  <2>1. b + t \in 1 .. N /\ t \in 0 .. n
    BY DEF IsSeq
  <2>2. r.out[t] = kda_tail(c1, ys[t], kda_out(S[t], l2norm(q[t])), w)
    BY <1>3
  <2>3. ys[t] = xs[b + t] /\ S[t] = G[b + t] /\ q[t] = ConvAt(c1, w, xs, "q", "q_conv", b + t)
    BY <1>4, <1>9, <2>1
  <2>4. QED
    BY <1>10, <2>1, <2>2, <2>3 DEF KdaOuts, G
<1>12. r.state = Hist(c1, w, xs, b + n)
  <2>1. S[n] = G[b + n]
    BY <1>9
  <2>2. QED
    BY <1>3, <1>4, <1>5, <1>6, <2>1 DEF Hist, G
<1>13. QED
  BY <1>11, <1>12 DEF r, st, KdaFed

(* Before a text begins a layer carries nothing. *)
LEMMA HistBegins ==
    ASSUME NEW c1, c1.conv_k \in Nat \ {0}, NEW w, NEW xs, NEW N, IsSeq(xs, N)
    PROVE  Hist(c1, w, xs, 0) = ClearState(c1)
<1>1. c1.conv_k - 1 \in Nat
  OBVIOUS
<1>2. \A X : Model!Window(X, 0, c1.conv_k - 1) = [i \in 1 .. c1.conv_k - 1 |-> Zero]
  BY <1>1, WindowClear
<1>3. Model!KdaStates(c1, w, xs)[0] = Zero
  BY StatesAre DEF KdaStepped
<1>4. QED
  BY <1>2, <1>3 DEF Hist, ClearState

(* What a layer carries and puts out at a position goes by those up to it.  *)
KdaAgrees(c1, w, xs, zs, b) ==
    /\ Hist(c1, w, xs, b) = Hist(c1, w, zs, b)
    /\ \A t \in 1 .. b : Model!Kda(c1, w, xs)[t] = Model!Kda(c1, w, zs)[t]

LEMMA KdaCausal ==
    ASSUME NEW c1, c1.conv_k \in Nat \ {0}, NEW w, NEW xs, NEW N, IsSeq(xs, N),
           NEW zs, NEW M, IsSeq(zs, M), NEW b \in Nat, b <= N, b <= M,
           \A t \in 1 .. b : xs[t] = zs[t]
    PROVE  KdaAgrees(c1, w, xs, zs, b)
<1>1. N \in Nat /\ M \in Nat /\ \A t \in 1 .. b : t \in 1 .. N /\ t \in 1 .. M
  BY DEF IsSeq
<1>2. \A W : \A t \in 1 .. b : Proj(xs, W)[t] = Proj(zs, W)[t]
  BY <1>1, ProjIs
<1>3. ASSUME NEW W, NEW k \in Nat, NEW t \in 0 .. b
      PROVE  Model!Window(Proj(xs, W), t, k) = Model!Window(Proj(zs, W), t, k)
  <2>1. t \in Int /\ \A i \in 1 .. t : Proj(xs, W)[i] = Proj(zs, W)[i]
    BY <1>2
  <2>2. QED
    BY <2>1, WindowCausal
<1>4. ASSUME NEW name, NEW taps, NEW t \in 1 .. b
      PROVE  ConvAt(c1, w, xs, name, taps, t) = ConvAt(c1, w, zs, name, taps, t)
  <2>1. t \in 0 .. b /\ c1.conv_k \in Nat
    OBVIOUS
  <2>2. QED
    BY <1>3, <2>1 DEF ConvAt
<1> DEFINE F == Model!KdaStates(c1, w, xs)
           G == Model!KdaStates(c1, w, zs)
<1>5. KdaStepped(F, c1, w, xs, N) /\ KdaStepped(G, c1, w, zs, M)
  BY StatesAre
<1> HIDE DEF F, G
<1>7. \A t \in 0 .. b : F[t] = G[t]
  <2> DEFINE k == [t \in 1 .. b |-> l2norm(ConvAt(c1, w, xs, "k", "k_conv", t))]
             v == [t \in 1 .. b |-> ConvAt(c1, w, xs, "v", "v_conv", t)]
             al == [t \in 1 .. b |-> Decay(c1, w, xs[t])]
             be == [t \in 1 .. b |-> Beta(w, xs[t])]
  <2>1. Advances(F, 0, b, k, v, al, be)
    <3>1. \A t \in 1 .. b : 0 + t = t
      OBVIOUS
    <3>2. \A t \in 1 .. b : F[t] = kda_step(F[t - 1], k[t], v[t], al[t], be[t])
      BY <1>1, <1>5 DEF KdaStepped
    <3>3. QED
      BY <3>1, <3>2 DEF Advances
  <2>2. Advances(G, 0, b, k, v, al, be)
    <3>1. \A t \in 1 .. b : 0 + t = t
      OBVIOUS
    <3>2. \A t \in 1 .. b : G[t] = kda_step(G[t - 1], k[t], v[t], al[t], be[t])
      <4>1. ASSUME NEW t \in 1 .. b PROVE G[t] = kda_step(G[t - 1], k[t], v[t], al[t], be[t])
        <5>1. /\ t \in 1 .. M /\ xs[t] = zs[t]
              /\ ConvAt(c1, w, zs, "k", "k_conv", t) = ConvAt(c1, w, xs, "k", "k_conv", t)
              /\ ConvAt(c1, w, zs, "v", "v_conv", t) = ConvAt(c1, w, xs, "v", "v_conv", t)
          BY <1>1, <1>4
        <5>2. QED
          BY <1>5, <5>1 DEF KdaStepped
      <4>2. QED
        BY <4>1
    <3>3. QED
      BY <3>1, <3>2 DEF Advances
  <2> HIDE DEF k, v, al, be
  <2>3. F[0] = G[0] /\ 0 \in Nat /\ \A t \in 0 .. b : 0 + t = t
    BY <1>5 DEF KdaStepped
  <2>4. \A t \in 0 .. b : F[t] = G[0 + t]
    BY <2>1, <2>2, <2>3, StepsMeet
  <2>5. QED
    BY <2>3, <2>4
<1>8. Hist(c1, w, xs, b) = Hist(c1, w, zs, b)
  <2>1. b \in 0 .. b /\ c1.conv_k - 1 \in Nat
    OBVIOUS
  <2>2. F[b] = G[b] /\ \A W : Model!Window(Proj(xs, W), b, c1.conv_k - 1) = Model!Window(Proj(zs, W), b, c1.conv_k - 1)
    BY <1>3, <1>7, <2>1
  <2>3. QED
    BY <2>2 DEF Hist, F, G
<1>9. ASSUME NEW t \in 1 .. b PROVE Model!Kda(c1, w, xs)[t] = Model!Kda(c1, w, zs)[t]
  <2> t \in 1 .. N /\ t \in 1 .. M
    BY <1>1
  <2>1. Model!Kda(c1, w, xs)[t]
          = kda_tail(c1, xs[t], kda_out(F[t], l2norm(ConvAt(c1, w, xs, "q", "q_conv", t))), w)
    <3>1. KdaOuts(Model!Kda(c1, w, xs), c1, w, xs, N)
      BY KdaIs
    <3>2. QED
      BY <3>1 DEF F, KdaOuts
  <2>2. Model!Kda(c1, w, zs)[t]
          = kda_tail(c1, zs[t], kda_out(G[t], l2norm(ConvAt(c1, w, zs, "q", "q_conv", t))), w)
    <3>1. KdaOuts(Model!Kda(c1, w, zs), c1, w, zs, M)
      BY KdaIs
    <3>2. QED
      BY <3>1 DEF G, KdaOuts
  <2>3. t \in 0 .. b
    OBVIOUS
  <2>4. QED
    BY <1>4, <1>7, <2>1, <2>2, <2>3
<1>10. QED
  BY <1>8, <1>9 DEF KdaAgrees

-----------------------------------------------------------------------------
(* Attention over the rows of a cache, and over those of a whole text.      *)

MlaNames(c1) == {"q_a", "q_a_norm", "q_b", "kv_a", "kv_a_norm", "kv_b", "mla_o"}
                \cup (IF c1.mla_out_gate THEN {"mla_g"} ELSE {})

RowsOf(c1, w, xs) == [s \in DOMAIN xs |-> mla_row(c1, xs[s], w)]
MlaAt(c1, w, xs, t) ==
    mla_tail(c1, xs[t], attend(mla_query(c1, xs[t], w), SubSeq(RowsOf(c1, w, xs), 1, t)), w)
MlaOuts(r, c1, w, xs, n) == IsSeq(r, n) /\ \A t \in 1 .. n : r[t] = MlaAt(c1, w, xs, t)

(* A cache has the rows of the first n positions of xs. *)
HasRows(held, c1, w, xs, n) == \A t \in 1 .. n : held[t - 1] = mla_row(c1, xs[t], w)

LEMMA MlaIs ==
    ASSUME NEW c1, NEW w, NEW xs, NEW n, IsSeq(xs, n)
    PROVE  MlaOuts(Model!Mla(c1, w, xs), c1, w, xs, n)
<1>1. DOMAIN xs = 1 .. n /\ n \in Nat
  BY DEF IsSeq
<1> DEFINE rs == Model!Table([s \in DOMAIN xs |-> Model!mla_row(c1, xs[s], w)])
<1>2. rs = RowsOf(c1, w, xs)
  BY DEF RowsOf, Model!Table, mla_row, Model!mla_row, mmw, Model!mmw, rmsnorm, Model!rmsnorm
<1>3. Model!Mla(c1, w, xs) = [t \in 1 .. n |->
         Model!mla_tail(c1, xs[t], Model!attend(Model!mla_query(c1, xs[t], w), SubSeq(rs, 1, t)), w)]
  BY <1>1 DEF Model!Mla
<1> HIDE DEF rs
<1>4. \A x, a : Model!mla_tail(c1, x, a, w) = mla_tail(c1, x, a, w)
  BY DEF mla_tail, Model!mla_tail, mmw, Model!mmw, mul, Model!mul, sigmoid, Model!sigmoid
<1>5. \A x, s : Model!attend(Model!mla_query(c1, x, w), s) = attend(mla_query(c1, x, w), s)
  BY DEF attend, Model!attend, mla_query, Model!mla_query, mmw, Model!mmw, rmsnorm, Model!rmsnorm
<1>6. Model!Mla(c1, w, xs) = [t \in 1 .. n |-> MlaAt(c1, w, xs, t)]
  BY <1>2, <1>3, <1>4, <1>5 DEF MlaAt
<1>7. QED
  BY <1>1, <1>6 DEF MlaOuts, IsSeq

LEMMA RowsAre ==
    ASSUME NEW c1, NEW w, NEW xs, NEW n, IsSeq(xs, n)
    PROVE  IsSeq(RowsOf(c1, w, xs), n)
BY DEF IsSeq, RowsOf

LEMMA MlaAlike ==
    ASSUME NEW c1, NEW w, NEW u, Alike(u, w, MlaNames(c1))
    PROVE  /\ \A x : mla_row(c1, x, u) = mla_row(c1, x, w)
           /\ \A x : mla_query(c1, x, u) = mla_query(c1, x, w)
           /\ \A x, a : mla_tail(c1, x, a, u) = mla_tail(c1, x, a, w)
<1>1. /\ u["q_a"] = w["q_a"] /\ u["q_a_norm"] = w["q_a_norm"] /\ u["q_b"] = w["q_b"]
      /\ u["kv_a"] = w["kv_a"] /\ u["kv_a_norm"] = w["kv_a_norm"] /\ u["kv_b"] = w["kv_b"]
      /\ u["mla_o"] = w["mla_o"]
  BY DEF Alike, MlaNames
<1>2. c1.mla_out_gate => u["mla_g"] = w["mla_g"]
  BY DEF Alike, MlaNames
<1>3. \A x : mla_row(c1, x, u) = mla_row(c1, x, w)
  BY <1>1 DEF mla_row
<1>4. \A x : mla_query(c1, x, u) = mla_query(c1, x, w)
  BY <1>1 DEF mla_query
<1>5. \A x, a : mla_tail(c1, x, a, u) = mla_tail(c1, x, a, w)
  BY <1>1, <1>2 DEF mla_tail
<1>6. QED
  BY <1>3, <1>4, <1>5

(* A call over a cache of b rows has put out what the model does behind b   *)
(* positions, n of them, and left the rows of all of them.                  *)
MlaFed(r, c1, w, xs, b, n, held) ==
    /\ \A t \in 1 .. n : r.out[t] = Model!Mla(c1, w, xs)[b + t]
    /\ HasRows(r.rows, c1, w, xs, b + n)
    /\ DOMAIN r.rows = DOMAIN held

LEMMA MlaChunk ==
    ASSUME NEW c1, NEW w, NEW u, Alike(u, w, MlaNames(c1)), NEW xs, NEW N, IsSeq(xs, N),
           NEW b \in Nat, NEW n \in Nat, b + n <= N, NEW ys, IsSeq(ys, n),
           \A t \in 1 .. n : ys[t] = xs[b + t],
           NEW held, 0 .. b + n - 1 \subseteq DOMAIN held, HasRows(held, c1, w, xs, b)
    PROVE  MlaFed(mla_cached(c1, u, ys, held, b), c1, w, xs, b, n, held)
<1> DEFINE written == RowsWith(c1, u, ys, held, b)
           r == mla_cached(c1, u, ys, held, b)
           R == RowsOf(c1, w, xs)
<1>0. DOMAIN ys = 1 .. n /\ Len(ys) = n /\ N \in Nat /\ DOMAIN xs = 1 .. N
  BY SeqIs DEF IsSeq
<1>1. r = [out |-> [t \in 1 .. n |->
                mla_tail(c1, ys[t], attend(mla_query(c1, ys[t], u), Scored(written, b, t)), u)],
           rows |-> written]
  BY <1>0 DEF mla_cached
<1>2. written = [p \in DOMAIN held |-> IF p \in b .. b + n - 1 THEN mla_row(c1, ys[p - b + 1], u) ELSE held[p]]
  BY <1>0 DEF RowsWith, Table
<1> HIDE DEF written, r
<1>3. ASSUME NEW t \in 1 .. b + n PROVE written[t - 1] = mla_row(c1, xs[t], w) /\ t \in 1 .. N
  <2>1. t - 1 \in DOMAIN held /\ t \in 1 .. N
    BY <1>0
  <2>2. CASE t <= b
    <3>1. t - 1 \notin b .. b + n - 1 /\ t \in 1 .. b
      BY <2>2
    <3>2. QED
      BY <1>2, <2>1, <3>1 DEF HasRows
  <2>3. CASE t > b
    <3>1. t - 1 \in b .. b + n - 1 /\ t - 1 - b + 1 = t - b /\ t - b \in 1 .. n /\ b + (t - b) = t
      BY <2>3
    <3>2. written[t - 1] = mla_row(c1, ys[t - b], u)
      BY <1>2, <2>1, <3>1
    <3>3. ys[t - b] = xs[t]
      BY <3>1
    <3>4. QED
      BY <2>1, <3>2, <3>3, MlaAlike
  <2>4. QED
    BY <2>2, <2>3
<1>4. IsSeq(R, N)
  BY RowsAre
<1>5. ASSUME NEW t \in 1 .. n PROVE Scored(written, b, t) = SubSeq(R, 1, b + t)
  <2>1. b + t \in 0 .. N
    BY <1>0
  <2>2. IsSeq(SubSeq(R, 1, b + t), b + t) /\ \A s \in 1 .. b + t : SubSeq(R, 1, b + t)[s] = R[s]
    BY <1>4, <2>1, SeqCut
  <2>3. IsSeq(Scored(written, b, t), b + t) /\ \A s \in 1 .. b + t : Scored(written, b, t)[s] = written[s - 1]
    BY DEF Scored, IsSeq
  <2>4. ASSUME NEW s \in 1 .. b + t PROVE Scored(written, b, t)[s] = SubSeq(R, 1, b + t)[s]
    <3>1. s \in 1 .. b + n
      OBVIOUS
    <3>2. written[s - 1] = mla_row(c1, xs[s], w) /\ s \in 1 .. N
      BY <1>3, <3>1
    <3>3. R[s] = mla_row(c1, xs[s], w)
      BY <1>0, <3>2 DEF RowsOf
    <3>4. QED
      BY <2>2, <2>3, <3>2, <3>3
  <2>5. QED
    BY <2>2, <2>3, <2>4, SeqSame
<1>6. MlaOuts(Model!Mla(c1, w, xs), c1, w, xs, N)
  BY MlaIs
<1>7. ASSUME NEW t \in 1 .. n PROVE r.out[t] = Model!Mla(c1, w, xs)[b + t]
  <2>1. r.out[t] = mla_tail(c1, ys[t], attend(mla_query(c1, ys[t], u), Scored(written, b, t)), u)
    BY <1>1
  <2>2. ys[t] = xs[b + t] /\ Scored(written, b, t) = SubSeq(R, 1, b + t)
    BY <1>5
  <2>3. b + t \in 1 .. N
    BY <1>0
  <2>4. Model!Mla(c1, w, xs)[b + t] = MlaAt(c1, w, xs, b + t)
    BY <1>6, <2>3 DEF MlaOuts
  <2>5. QED
    BY <2>1, <2>2, <2>4, MlaAlike DEF MlaAt
<1>8. r.rows = written
  BY <1>1
<1>9. DOMAIN written = DOMAIN held
  BY <1>2
<1>10. QED
  BY <1>3, <1>7, <1>8, <1>9 DEF MlaFed, HasRows, r

LEMMA MlaCausal ==
    ASSUME NEW c1, NEW w, NEW xs, NEW N, IsSeq(xs, N),
           NEW zs, NEW M, IsSeq(zs, M), NEW b \in Nat, b <= N, b <= M,
           \A t \in 1 .. b : xs[t] = zs[t]
    PROVE  \A t \in 1 .. b : Model!Mla(c1, w, xs)[t] = Model!Mla(c1, w, zs)[t]
<1> DEFINE R == RowsOf(c1, w, xs)
           Z == RowsOf(c1, w, zs)
<1>1. N \in Nat /\ M \in Nat /\ DOMAIN xs = 1 .. N /\ DOMAIN zs = 1 .. M
  BY DEF IsSeq
<1>2. IsSeq(R, N) /\ IsSeq(Z, M)
  BY RowsAre
<1>3. \A t \in 1 .. b : R[t] = Z[t]
  BY <1>1 DEF RowsOf
<1> HIDE DEF R, Z
<1>4. ASSUME NEW t \in 1 .. b PROVE SubSeq(R, 1, t) = SubSeq(Z, 1, t)
  <2>1. t \in 0 .. N /\ t \in 0 .. M
    BY <1>1
  <2>2. IsSeq(SubSeq(R, 1, t), t) /\ \A s \in 1 .. t : SubSeq(R, 1, t)[s] = R[s]
    BY <1>2, <2>1, SeqCut
  <2>3. IsSeq(SubSeq(Z, 1, t), t) /\ \A s \in 1 .. t : SubSeq(Z, 1, t)[s] = Z[s]
    BY <1>2, <2>1, SeqCut
  <2>4. \A s \in 1 .. t : R[s] = Z[s]
    BY <1>3
  <2>5. QED
    BY <2>2, <2>3, <2>4, SeqSame
<1>5. ASSUME NEW t \in 1 .. b PROVE Model!Mla(c1, w, xs)[t] = Model!Mla(c1, w, zs)[t]
  <2>1. t \in 1 .. N /\ t \in 1 .. M
    BY <1>1
  <2>2. Model!Mla(c1, w, xs)[t] = MlaAt(c1, w, xs, t) /\ Model!Mla(c1, w, zs)[t] = MlaAt(c1, w, zs, t)
    BY <2>1, MlaIs DEF MlaOuts
  <2>3. QED
    BY <1>4, <2>2 DEF MlaAt, R, Z
<1>6. QED
  BY <1>5

-----------------------------------------------------------------------------
(* Ranks among numbers, the larger and then the smaller index first.        *)

AheadOf(p, i) == {j \in DOMAIN p : p[j] > p[i] \/ (p[j] = p[i] /\ j < i)}
Place(p, i) == Cardinality(AheadOf(p, i))

Placed(p, v) ==
    /\ \A i, j \in 0 .. v - 1 : j \in AheadOf(p, i) <=> Place(p, j) < Place(p, i)
    /\ \A i \in 0 .. v - 1 : Place(p, i) \in 0 .. v - 1
    /\ \A i, j \in 0 .. v - 1 : Place(p, i) = Place(p, j) => i = j
    /\ \A n \in 1 .. v : \E i \in 0 .. v - 1 : Place(p, i) = n - 1

LEMMA PlacesAre ==
    ASSUME NEW v \in Nat, NEW p \in [0 .. v - 1 -> Int]
    PROVE  Placed(p, v)
<1> DEFINE D == 0 .. v - 1
           R(i) == Place(p, i)
<1>0. CASE v = 0
  BY <1>0 DEF Placed
<1>1. CASE v # 0
  <2>1. IsFiniteSet(D) /\ Cardinality(D) = v /\ DOMAIN p = D /\ \A i \in D : p[i] \in Int /\ i \in Int
    <3>1. 0 \in Int /\ v - 1 \in Int /\ ~(0 > v - 1) /\ v - 1 - 0 + 1 = v
      BY <1>1
    <3>2. QED
      BY <3>1, FS_Interval
  <2>2. \A i \in D : AheadOf(p, i) = {j \in D : p[j] > p[i] \/ (p[j] = p[i] /\ j < i)}
    BY <2>1 DEF AheadOf
  <2>3. \A i \in D : i \notin AheadOf(p, i)
    <3>1. SUFFICES ASSUME NEW i \in D, i \in AheadOf(p, i) PROVE FALSE
      OBVIOUS
    <3>2. p[i] > p[i] \/ i < i
      BY <2>2, <3>1
    <3>3. QED
      BY <2>1, <3>2
  <2>4. \A i \in D : IsFiniteSet(AheadOf(p, i)) /\ R(i) \in 0 .. v - 1
    <3>1. SUFFICES ASSUME NEW i \in D PROVE IsFiniteSet(AheadOf(p, i)) /\ R(i) \in 0 .. v - 1
      OBVIOUS
    <3>2. AheadOf(p, i) \in SUBSET (D \ {i})
      BY <2>2, <2>3
    <3>3. IsFiniteSet(D \ {i}) /\ Cardinality(D \ {i}) = v - 1
      <4> HIDE DEF D
      <4>1. QED
        BY <2>1, <3>1, FS_RemoveElement
    <3>4. IsFiniteSet(AheadOf(p, i)) /\ Cardinality(AheadOf(p, i)) <= Cardinality(D \ {i})
      <4> HIDE DEF D
      <4>1. QED
        BY <3>2, <3>3, FS_Subset
    <3>5. Cardinality(AheadOf(p, i)) \in Nat
      BY <3>4, FS_CardinalityType
    <3>6. QED
      BY <3>3, <3>4, <3>5 DEF Place
  <2>5. ASSUME NEW i \in D, NEW j \in D, j \in AheadOf(p, i)
        PROVE  R(j) < R(i)
    <3>1. AheadOf(p, j) \subseteq AheadOf(p, i)
      <4>1. p[j] > p[i] \/ (p[j] = p[i] /\ j < i)
        BY <2>2, <2>5
      <4>2. ASSUME NEW k \in AheadOf(p, j) PROVE k \in AheadOf(p, i)
        <5>1. k \in D /\ (p[k] > p[j] \/ (p[k] = p[j] /\ k < j))
          BY <2>2, <4>2
        <5>2. p[i] \in Int /\ p[j] \in Int /\ p[k] \in Int /\ i \in Int /\ j \in Int /\ k \in Int
          BY <2>1, <5>1
        <5>3. p[k] > p[i] \/ (p[k] = p[i] /\ k < i)
          BY <4>1, <5>1, <5>2
        <5>4. QED
          BY <2>2, <5>1, <5>3
      <4>3. QED
        BY <4>2
    <3>2. IsFiniteSet(AheadOf(p, i)) /\ IsFiniteSet(AheadOf(p, j)) /\ R(i) \in Nat /\ R(j) \in Nat
      BY <2>4
    <3>3. Cardinality(AheadOf(p, j)) <= Cardinality(AheadOf(p, i))
          /\ (Cardinality(AheadOf(p, i)) = Cardinality(AheadOf(p, j)) => AheadOf(p, i) = AheadOf(p, j))
      BY <3>1, <3>2, FS_Subset
    <3>4. Cardinality(AheadOf(p, i)) # Cardinality(AheadOf(p, j))
      BY <2>3, <2>5, <3>3
    <3>5. QED
      BY <3>2, <3>3, <3>4 DEF Place
  <2>6. ASSUME NEW i \in D, NEW j \in D, i # j
        PROVE  j \in AheadOf(p, i) \/ i \in AheadOf(p, j)
    <3>1. p[i] \in Int /\ p[j] \in Int /\ i \in Int /\ j \in Int
      BY <2>1
    <3>2. QED
      BY <2>2, <2>6, <3>1
  <2>7. \A i, j \in D : j \in AheadOf(p, i) <=> R(j) < R(i)
    <3>1. SUFFICES ASSUME NEW i \in D, NEW j \in D, R(j) < R(i) PROVE j \in AheadOf(p, i)
      BY <2>5
    <3>2. R(i) \in Nat /\ R(j) \in Nat
      BY <2>4
    <3>3. i # j
      BY <3>1, <3>2
    <3>4. ~(i \in AheadOf(p, j))
      BY <2>5, <3>1, <3>2
    <3>5. QED
      BY <2>6, <3>3, <3>4
  <2> DEFINE r == [i \in D |-> R(i)]
  <2>8. r \in Injection(D, 0 .. v - 1)
    <3>1. r \in [D -> 0 .. v - 1]
      <4>1. \A i \in D : R(i) \in 0 .. v - 1
        BY <2>4
      <4> HIDE DEF R, D
      <4>2. QED
        BY <4>1
    <3>2. ASSUME NEW i \in D, NEW j \in D, i # j PROVE r[i] # r[j]
      <4>1. R(i) < R(j) \/ R(j) < R(i)
        BY <2>5, <2>6, <3>2
      <4>2. R(i) \in Nat /\ R(j) \in Nat
        BY <2>4
      <4> HIDE DEF R, D
      <4>3. QED
        BY <4>1, <4>2
    <3> HIDE DEF r, R, D
    <3>3. QED
      BY <3>1, <3>2 DEF Injection, IsInjective
  <2>9. r \in Surjection(D, 0 .. v - 1)
    <3>1. IsFiniteSet(0 .. v - 1) /\ Cardinality(D) = Cardinality(0 .. v - 1)
      BY <2>1
    <3> HIDE DEF r, D
    <3>2. QED
      BY <2>8, <3>1, FS_Injection
  <2>10. ASSUME NEW n \in 1 .. v PROVE \E i \in D : R(i) = n - 1
    <3>1. n - 1 \in 0 .. v - 1
      OBVIOUS
    <3>2. PICK i \in D : r[i] = n - 1
      <4> HIDE DEF r, D
      <4>1. QED
        BY <2>9, <3>1 DEF Surjection
    <3>3. QED
      BY <3>2
  <2>11. ASSUME NEW i \in D, NEW j \in D, R(i) = R(j) PROVE i = j
    <3>1. r[i] = r[j]
      BY <2>11
    <3> HIDE DEF r, D, R
    <3>2. QED
      BY <2>8, <2>11, <3>1 DEF Injection, IsInjective
  <2>12. QED
    BY <2>4, <2>7, <2>10, <2>11 DEF Placed
<1>2. QED
  BY <1>0, <1>1

(* The first K places. *)
Podium(p, K) == [j \in 1 .. K |-> CHOOSE e \in DOMAIN p : Place(p, e) = j - 1]

LEMMA PodiumIs ==
    ASSUME NEW v \in Nat, NEW p \in [0 .. v - 1 -> Int], NEW K \in 0 .. v
    PROVE  /\ \A j \in 1 .. K : Podium(p, K)[j] \in 0 .. v - 1
           /\ \A j \in 1 .. K : Place(p, Podium(p, K)[j]) = j - 1
<1>1. Placed(p, v) /\ DOMAIN p = 0 .. v - 1
  BY PlacesAre
<1>2. ASSUME NEW j \in 1 .. K
      PROVE  Podium(p, K)[j] \in 0 .. v - 1 /\ Place(p, Podium(p, K)[j]) = j - 1
  <2>1. j \in 1 .. v
    OBVIOUS
  <2>2. \E i \in 0 .. v - 1 : Place(p, i) = j - 1
    BY <1>1, <2>1 DEF Placed
  <2>3. Podium(p, K)[j] = CHOOSE e \in 0 .. v - 1 : Place(p, e) = j - 1
    BY <1>1 DEF Podium
  <2>4. QED
    BY <2>2, <2>3
<1>3. QED
  BY <1>2

(* The best of what is left: all of it is behind.                           *)
Beats(p, e, left) == \A f \in left : p[f] < p[e] \/ (p[f] = p[e] /\ e <= f)
BestOf(p, taken) == CHOOSE e \in DOMAIN p \ taken : Beats(p, e, DOMAIN p \ taken)
Items(s, n) == {s[i] : i \in 1 .. n}
PickRun(f, p, K) ==
    f = [j \in 0 .. K |->
            IF j = 0 THEN <<>>
            ELSE Append(f[j - 1], BestOf(p, Items(f[j - 1], j - 1)))]

LEMMA BestLeft ==
    ASSUME NEW v \in Nat, NEW p \in [0 .. v - 1 -> Int], NEW K \in 0 .. v, NEW j \in 1 .. K,
           NEW taken, taken = Items(Podium(p, K), j - 1)
    PROVE  BestOf(p, taken) = Podium(p, K)[j]
<1> DEFINE left == DOMAIN p \ taken
           e == Podium(p, K)[j]
<1>0. taken = {Podium(p, K)[i] : i \in 1 .. j - 1}
  BY DEF Items
<1>1. Placed(p, v) /\ DOMAIN p = 0 .. v - 1
  BY PlacesAre
<1>2. /\ \A i \in 1 .. K : Podium(p, K)[i] \in 0 .. v - 1
      /\ \A i \in 1 .. K : Place(p, Podium(p, K)[i]) = i - 1
  BY PodiumIs
<1>3. e \in 0 .. v - 1 /\ Place(p, e) = j - 1
  BY <1>2
<1>4. e \notin taken
  <2>1. SUFFICES ASSUME NEW i \in 1 .. j - 1, e = Podium(p, K)[i] PROVE FALSE
    BY <1>0
  <2>2. i \in 1 .. K /\ i - 1 # j - 1
    OBVIOUS
  <2>3. Place(p, e) = i - 1
    BY <1>2, <2>1, <2>2
  <2>4. QED
    BY <1>3, <2>2, <2>3
<1>5. ASSUME NEW f \in left, f # e PROVE p[f] < p[e] \/ (p[f] = p[e] /\ e < f)
  <2>1. f \in 0 .. v - 1 /\ Place(p, f) \in 0 .. v - 1
    BY <1>1 DEF Placed
  <2>2. ~(Place(p, f) < j - 1)
    <3>1. SUFFICES ASSUME Place(p, f) < j - 1 PROVE FALSE
      OBVIOUS
    <3> DEFINE i == Place(p, f) + 1
    <3>2. i \in 1 .. j - 1 /\ i \in 1 .. K /\ i - 1 = Place(p, f)
      BY <2>1, <3>1
    <3> HIDE DEF i
    <3>3. Place(p, Podium(p, K)[i]) = Place(p, f) /\ Podium(p, K)[i] \in 0 .. v - 1
      BY <1>2, <3>2
    <3>4. Podium(p, K)[i] = f
      BY <1>1, <2>1, <3>3 DEF Placed
    <3>5. f \in taken
      BY <1>0, <3>2, <3>4
    <3>6. QED
      BY <3>5
  <2>3. Place(p, f) # j - 1
    BY <1>1, <1>3, <1>5, <2>1 DEF Placed
  <2>4. Place(p, e) < Place(p, f)
    BY <1>3, <2>1, <2>2, <2>3
  <2>5. e \in AheadOf(p, f)
    BY <1>1, <1>3, <2>1, <2>4 DEF Placed
  <2>6. p[e] > p[f] \/ (p[e] = p[f] /\ e < f)
    BY <2>5 DEF AheadOf
  <2>7. p[e] \in Int /\ p[f] \in Int
    BY <1>3, <2>1
  <2>8. QED
    BY <2>6, <2>7
<1>6. e \in left /\ Beats(p, e, left)
  <2>1. e \in left
    BY <1>1, <1>3, <1>4
  <2>2. ASSUME NEW f \in left PROVE p[f] < p[e] \/ (p[f] = p[e] /\ e <= f)
    <3>1. f \in Int /\ e \in Int
      BY <1>1, <1>3
    <3> HIDE DEF e, left
    <3>2. QED
      BY <1>5, <3>1
  <2>3. QED
    BY <2>1, <2>2 DEF Beats
<1>7. ASSUME NEW f \in left, Beats(p, f, left) PROVE f = e
  <2>1. f \in 0 .. v - 1
    BY <1>1
  <2>2. p[f] \in Int /\ p[e] \in Int /\ f \in Int /\ e \in Int
    BY <1>3, <2>1
  <2>3. p[e] < p[f] \/ (p[e] = p[f] /\ f <= e)
    BY <1>6, <1>7 DEF Beats
  <2> HIDE DEF e, left
  <2>4. QED
    BY <1>5, <2>2, <2>3
<1> HIDE DEF e
<1>8. BestOf(p, taken) = e
  BY <1>6, <1>7 DEF BestOf
<1>9. QED
  BY <1>8 DEF e

(* The repeated search finds the first K places. *)
LEMMA SearchRanks ==
    ASSUME NEW v \in Nat, NEW p \in [0 .. v - 1 -> Int], NEW c1, c1.topk \in 0 .. v
    PROVE  Ranked(c1, p) = Podium(p, c1.topk)
<1> DEFINE K == c1.topk
           PP == Podium(p, K)
           F == [j \in 0 .. K |-> SubSeq(PP, 1, j)]
           G == CHOOSE f : PickRun(f, p, K)
<1>0. K \in Nat /\ K \in 0 .. v
  OBVIOUS
<1>1. Ranked(c1, p) = G[K]
  BY DEF Ranked, PickRun, BestOf, Beats, Items
<1> HIDE DEF G, K
<1>2. IsSeq(PP, K)
  BY <1>0 DEF IsSeq, Podium
<1> HIDE DEF PP
<1>3. ASSUME NEW j \in 0 .. K
      PROVE  IsSeq(SubSeq(PP, 1, j), j) /\ \A t \in 1 .. j : SubSeq(PP, 1, j)[t] = PP[t]
  BY <1>2, SeqCut
<1>4. ASSUME NEW j \in 1 .. K, NEW s, s = SubSeq(PP, 1, j - 1)
      PROVE  Append(s, BestOf(p, Items(s, j - 1))) = SubSeq(PP, 1, j)
  <2>1. j - 1 \in 0 .. K /\ j \in 0 .. K /\ j - 1 + 1 = j
    BY <1>0
  <2>2. IsSeq(s, j - 1) /\ \A t \in 1 .. j - 1 : s[t] = PP[t]
    BY <1>3, <1>4, <2>1
  <2> DEFINE taken == Items(s, j - 1)
             u == Append(s, PP[j])
  <2>3. taken = Items(PP, j - 1)
    BY <2>2 DEF Items
  <2> HIDE DEF taken
  <2>4. BestOf(p, taken) = PP[j]
    BY <1>0, <2>3, BestLeft DEF PP
  <2>5. Extends(u, s, j - 1, PP[j])
    BY <2>2, SeqAppend
  <2> HIDE DEF u
  <2>6. IsSeq(u, j) /\ \A t \in 1 .. j - 1 : u[t] = PP[t]
    BY <2>1, <2>2, <2>5 DEF Extends
  <2>7. u[j] = PP[j]
    BY <2>1, <2>5 DEF Extends
  <2>8. \A t \in 1 .. j : u[t] = PP[t]
    <3>1. \A t \in 1 .. j : t \in 1 .. j - 1 \/ t = j
      BY <1>0
    <3>2. QED
      BY <2>6, <2>7, <3>1
  <2>9. IsSeq(SubSeq(PP, 1, j), j) /\ \A t \in 1 .. j : SubSeq(PP, 1, j)[t] = PP[t]
    BY <1>3, <2>1
  <2>10. u = SubSeq(PP, 1, j)
    BY <2>6, <2>8, <2>9, SeqSame
  <2>11. QED
    BY <2>4, <2>10 DEF u, taken
<1>5. SubSeq(PP, 1, 0) = <<>>
  BY <1>0, <1>3, SeqNone
<1>6. PickRun(F, p, K)
  <2>1. ASSUME NEW j \in 0 .. K
        PROVE  F[j] = IF j = 0 THEN <<>> ELSE Append(F[j - 1], BestOf(p, Items(F[j - 1], j - 1)))
    <3>1. CASE j = 0
      BY <1>5, <3>1
    <3>2. CASE j # 0
      <4>1. j \in 1 .. K /\ j - 1 \in 0 .. K
        BY <1>0, <3>2
      <4>2. F[j - 1] = SubSeq(PP, 1, j - 1) /\ F[j] = SubSeq(PP, 1, j)
        BY <4>1
      <4> HIDE DEF F
      <4>3. QED
        BY <1>4, <3>2, <4>1, <4>2
    <3>3. QED
      BY <3>1, <3>2
  <2>2. F = [j \in 0 .. K |-> F[j]]
    OBVIOUS
  <2> HIDE DEF F
  <2>3. QED
    BY <2>1, <2>2 DEF PickRun
<1>7. PickRun(G, p, K)
  <2> HIDE DEF F
  <2>1. QED
    BY <1>6 DEF G
<1>8. \A j \in 0 .. K : G[j] = IF j = 0 THEN <<>> ELSE Append(G[j - 1], BestOf(p, Items(G[j - 1], j - 1)))
  BY <1>7 DEF PickRun
<1> DEFINE A == {j \in 0 .. K : G[j] = SubSeq(PP, 1, j)}
<1>9. 0 \in A
  <2>1. 0 \in 0 .. K
    BY <1>0
  <2>2. G[0] = <<>>
    BY <1>8, <2>1
  <2>3. QED
    BY <1>5, <2>1, <2>2
<1>10. ASSUME NEW j \in 0 .. K - 1, j \in A PROVE j + 1 \in A
  <2>1. j + 1 \in 1 .. K /\ j + 1 - 1 = j /\ j + 1 \in 0 .. K /\ j + 1 # 0
    BY <1>0
  <2>2. G[j] = SubSeq(PP, 1, j)
    BY <1>10
  <2>3. G[j + 1] = Append(G[j], BestOf(p, Items(G[j], j)))
    <3> DEFINE i == j + 1
    <3>1. i \in 0 .. K /\ i # 0 /\ i - 1 = j
      BY <2>1
    <3> HIDE DEF i
    <3>2. G[i] = Append(G[i - 1], BestOf(p, Items(G[i - 1], i - 1)))
      BY <1>8, <3>1
    <3>3. G[i] = Append(G[j], BestOf(p, Items(G[j], j)))
      BY <3>1, <3>2
    <3>4. QED
      BY <3>3 DEF i
  <2>4. Append(G[j], BestOf(p, Items(G[j], j))) = SubSeq(PP, 1, j + 1)
    <3> DEFINE i == j + 1
    <3>1. i \in 1 .. K /\ i - 1 = j
      BY <2>1
    <3> HIDE DEF i
    <3>2. Append(G[j], BestOf(p, Items(G[j], i - 1))) = SubSeq(PP, 1, i)
      BY <1>4, <2>2, <3>1
    <3>3. QED
      BY <3>1, <3>2 DEF i
  <2>5. QED
    BY <2>1, <2>3, <2>4
<1> HIDE DEF A
<1>11. \A j \in 0 .. K : j \in A
  BY <1>0, <1>9, <1>10, Climbs
<1>12. G[K] = SubSeq(PP, 1, K)
  BY <1>0, <1>11 DEF A
<1>13. SubSeq(PP, 1, K) = PP
  <2>1. K \in 0 .. K
    BY <1>0
  <2>2. IsSeq(SubSeq(PP, 1, K), K) /\ \A t \in 1 .. K : SubSeq(PP, 1, K)[t] = PP[t]
    BY <1>3, <2>1
  <2>3. QED
    BY <1>2, <2>2, SeqSame
<1>14. QED
  BY <1>1, <1>12, <1>13 DEF PP, K

-----------------------------------------------------------------------------
(* The experts of one position, and what they add to it.                    *)

MoeNames == {"gate", "bias", "down", "up", "latent_norm", "sh1", "sh3", "sh2"}
DenseNames == {"dense_gate", "dense_up", "dense_down"}

Scores(c1, w, x) == [e \in 0 .. c1.n_experts - 1 |-> score(x, e, w)]
BiasedOf(c1, w, x) == [e \in 0 .. c1.n_experts - 1 |-> biased(Scores(c1, w, x)[e], e, w.bias)]
Picks(c1, w, x) == Podium(BiasedOf(c1, w, x), c1.topk)
Fit(c1, w, x, j) == BiasedOf(c1, w, x)[Picks(c1, w, x)[j]] > Lowest
RawOf(c1, w, x) ==
    [j \in 1 .. c1.topk |-> IF Fit(c1, w, x, j) THEN Scores(c1, w, x)[Picks(c1, w, x)[j]] ELSE Zero]
RoutesOf(c1, w, x) ==
    [j \in 1 .. c1.topk |-> [id |-> IF Fit(c1, w, x, j) THEN Picks(c1, w, x)[j] ELSE 0,
                             wt |-> routed(RawOf(c1, w, x)[j], RawOf(c1, w, x), c1)]]
TermsOf(c1, w, L1, x) ==
    [j \in 1 .. c1.topk |-> [wt |-> RoutesOf(c1, w, x)[j].wt,
                             x  |-> expert(c1, L1, RoutesOf(c1, w, x)[j].id, mmw(x, w.down))]]
MoeOf(c1, w, L1, x) == moe_tail(c1, x, Accumulate(TermsOf(c1, w, L1, x)), w)

(* The biased scores are numbers, and no more experts are chosen than there *)
(* are.                                                                     *)
Ordered == \A operands : Kernel("bias", operands) \in Int
Chooses(c1) == c1.n_experts \in Nat /\ c1.topk \in 0 .. c1.n_experts

LEMMA RouterIs ==
    ASSUME Ordered, NEW c1, Chooses(c1), NEW w, NEW x
    PROVE  router(c1, x, w) = RoutesOf(c1, w, x)
<1> DEFINE s == Scores(c1, w, x)
           p == BiasedOf(c1, w, x)
<1>1. scores(c1, x, w) = s
  BY DEF scores, Table, Scores
<1>2. p \in [0 .. c1.n_experts - 1 -> Int]
  BY DEF Ordered, BiasedOf, biased
<1>3. DOMAIN s = 0 .. c1.n_experts - 1
  BY DEF Scores
<1>4. Table([e \in DOMAIN s |-> biased(s[e], e, w.bias)]) = p
  BY <1>3 DEF Table, BiasedOf
<1>5. Chosen(c1, s, w.bias) = Selected(c1, p)
  <2> HIDE DEF s, p
  <2>1. QED
    BY <1>4 DEF Chosen
<1>6. Ranked(c1, p) = Picks(c1, w, x)
  <2> HIDE DEF p
  <2>1. Ranked(c1, p) = Podium(p, c1.topk)
    BY <1>2, SearchRanks DEF Chooses
  <2>2. QED
    BY <2>1 DEF p, Picks
<1> DEFINE pick == Picks(c1, w, x)
           idx == Table(Chosen(c1, s, w.bias))
           raw == Table([j \in DOMAIN idx |-> IF idx[j] = NoExpert THEN Zero ELSE s[idx[j]]])
           K == 1 .. c1.topk
<1>7. DOMAIN pick = K /\ \A j \in K : pick[j] # NoExpert
  <2>1. \A j \in 1 .. c1.topk : pick[j] \in 0 .. c1.n_experts - 1
    <3> HIDE DEF p
    <3>1. \A j \in 1 .. c1.topk : Podium(p, c1.topk)[j] \in 0 .. c1.n_experts - 1
      BY <1>2, PodiumIs DEF Chooses
    <3>2. QED
      BY <3>1 DEF p, Picks
  <2>2. -1 \notin 0 .. c1.n_experts - 1
    BY DEF Chooses
  <2>3. QED
    BY <2>1, <2>2 DEF Picks, Podium, NoExpert
<1>8. idx = [j \in K |-> IF Fit(c1, w, x, j) THEN pick[j] ELSE NoExpert]
  <2> HIDE DEF s
  <2>1. idx = [j \in DOMAIN pick |-> IF p[pick[j]] > Lowest THEN pick[j] ELSE NoExpert]
    <3> HIDE DEF p
    <3>1. QED
      BY <1>5, <1>6 DEF Selected, Table
  <2> HIDE DEF idx
  <2>2. QED
    BY <1>7, <2>1 DEF Fit
<1>9. router(c1, x, w) = Table([j \in DOMAIN idx |->
          [id |-> IF idx[j] = NoExpert THEN 0 ELSE idx[j], wt |-> routed(raw[j], raw, c1)]])
  <2> HIDE DEF s
  <2>1. QED
    BY <1>1 DEF router
<1> HIDE DEF s, pick, K
<1>10. raw = RawOf(c1, w, x)
  <2>1. raw = [j \in DOMAIN idx |-> IF idx[j] = NoExpert THEN Zero ELSE s[idx[j]]]
    BY DEF Table
  <2> HIDE DEF idx, raw
  <2>2. DOMAIN idx = K
    BY <1>8
  <2>3. ASSUME NEW j \in K
        PROVE  (IF idx[j] = NoExpert THEN Zero ELSE s[idx[j]])
                  = IF Fit(c1, w, x, j) THEN s[pick[j]] ELSE Zero
    BY <1>7, <1>8
  <2>4. raw = [j \in K |-> IF Fit(c1, w, x, j) THEN s[pick[j]] ELSE Zero]
    BY <2>1, <2>2, <2>3
  <2>5. QED
    BY <2>4 DEF RawOf, K, s, pick
<1> HIDE DEF idx, raw
<1>11. DOMAIN idx = K /\ \A j \in K : (IF idx[j] = NoExpert THEN 0 ELSE idx[j])
                                      = IF Fit(c1, w, x, j) THEN pick[j] ELSE 0
  BY <1>7, <1>8
<1>12. router(c1, x, w) = [j \in K |->
          [id |-> IF Fit(c1, w, x, j) THEN pick[j] ELSE 0, wt |-> routed(raw[j], raw, c1)]]
  BY <1>9, <1>11 DEF Table
<1>13. QED
  BY <1>10, <1>12 DEF RoutesOf, K, pick

LEMMA RoutesAlike ==
    ASSUME NEW c1, NEW w, NEW u, Alike(u, w, MoeNames), NEW x
    PROVE  RoutesOf(c1, u, x) = RoutesOf(c1, w, x)
<1>1. u["gate"] = w["gate"] /\ u["bias"] = w["bias"]
  BY DEF Alike, MoeNames
<1>2. Scores(c1, u, x) = Scores(c1, w, x)
  BY <1>1 DEF Scores, score
<1>3. BiasedOf(c1, u, x) = BiasedOf(c1, w, x)
  BY <1>1, <1>2 DEF BiasedOf
<1>4. QED
  BY <1>2, <1>3 DEF RoutesOf, RawOf, Fit, Picks

LEMMA TermsAlike ==
    ASSUME NEW c1, NEW w, NEW u, Alike(u, w, MoeNames), NEW L1, NEW x
    PROVE  TermsOf(c1, u, L1, x) = TermsOf(c1, w, L1, x)
<1>1. u["down"] = w["down"]
  BY DEF Alike, MoeNames
<1>2. QED
  BY <1>1, RoutesAlike DEF TermsOf

LEMMA TailAlike ==
    ASSUME NEW c1, NEW w, NEW u, Alike(u, w, MoeNames), NEW x, NEW a
    PROVE  moe_tail(c1, x, a, u) = moe_tail(c1, x, a, w)
<1>1. /\ u["up"] = w["up"] /\ u["latent_norm"] = w["latent_norm"]
      /\ u["sh1"] = w["sh1"] /\ u["sh2"] = w["sh2"] /\ u["sh3"] = w["sh3"]
  BY DEF Alike, MoeNames
<1>2. QED
  BY <1>1 DEF moe_tail

LEMMA MoeAlike ==
    ASSUME NEW c1, NEW w, NEW u, Alike(u, w, MoeNames), NEW L1, NEW x
    PROVE  MoeOf(c1, u, L1, x) = MoeOf(c1, w, L1, x)
BY TermsAlike, TailAlike DEF MoeOf

(* The plain path, with no expert lost.                                     *)
LEMMA TokenIs ==
    ASSUME Ordered, NEW c1, Chooses(c1), NEW w, NEW L1, NEW x
    PROVE  moe_token(c1, w, L1, x, router(c1, x, w), {}) = MoeOf(c1, w, L1, x)
<1> DEFINE r == RoutesOf(c1, w, x)
<1>1. router(c1, x, w) = r
  BY RouterIs
<1>2. DOMAIN r = 1 .. c1.topk
  BY DEF RoutesOf
<1> HIDE DEF r
<1>3. Terms(c1, L1, r, mmw(x, w.down), {}) = TermsOf(c1, w, L1, x)
  BY <1>2 DEF Terms, TermsOf, r
<1>4. QED
  BY <1>1, <1>3 DEF moe_token, MoeOf

(* The model's experts are ranked to the same places.                       *)
LEMMA MoeIs ==
    ASSUME NEW c1, NEW w, NEW L1, NEW x
    PROVE  Model!MoeAt(c1, w, L1, x) = MoeOf(c1, w, L1, x)
<1> DEFINE s == Model!Table([e \in 0 .. c1.n_experts - 1 |-> Model!score(x, e, w)])
           by == Model!Table([e \in DOMAIN s |-> Model!biased(s[e], e, w.bias)])
           Ahead(e) == {f \in DOMAIN by : by[f] > by[e] \/ (by[f] = by[e] /\ f < e)}
           ranked == Model!Table([j \in 1 .. c1.topk |->
                       CHOOSE e \in DOMAIN by : Cardinality(Ahead(e)) = j - 1])
           fit == Model!Table([j \in 1 .. c1.topk |-> by[ranked[j]] > Model!Lowest])
           raw == Model!Table([j \in 1 .. c1.topk |-> IF fit[j] THEN s[ranked[j]] ELSE Model!Zero])
           z == Model!mmw(x, w.down)
           terms == [j \in 1 .. c1.topk |->
                       [wt |-> Model!routed(raw[j], raw, c1),
                        x  |-> Model!expert(c1, L1, IF fit[j] THEN ranked[j] ELSE 0, z)]]
<1>8. Model!MoeAt(c1, w, L1, x) = Model!moe_tail(c1, x, Model!Accumulate(terms), w)
  BY DEF Model!MoeAt, Model!Cardinality, Cardinality
<1>1. s = Scores(c1, w, x)
  BY DEF Scores, Model!Table, Model!score, score
<1>2. by = BiasedOf(c1, w, x)
  <2>1. DOMAIN s = 0 .. c1.n_experts - 1
    BY <1>1 DEF Scores
  <2> HIDE DEF s
  <2>2. QED
    BY <1>1, <2>1 DEF BiasedOf, Model!Table, Model!biased, biased
<1> HIDE DEF s, by
<1>3. ranked = Picks(c1, w, x)
  BY <1>2 DEF Picks, Podium, Place, AheadOf, Model!Table
<1> HIDE DEF ranked
<1>12. \A j \in 1 .. c1.topk : fit[j] = Fit(c1, w, x, j)
  BY <1>2, <1>3 DEF Fit, Model!Table, Model!Lowest, Lowest
<1> HIDE DEF fit
<1>4. raw = RawOf(c1, w, x)
  BY <1>1, <1>3, <1>12 DEF RawOf, Model!Table, Model!Zero, Zero
<1> HIDE DEF raw
<1>5. \A a, b : Model!routed(a, b, c1) = routed(a, b, c1)
  BY DEF Model!routed, routed, Model!mul, mul
<1>6. \A e, v : Model!expert(c1, L1, e, v) = expert(c1, L1, e, v)
  BY DEF Model!expert, expert
<1>7. terms = TermsOf(c1, w, L1, x)
  <2>1. z = mmw(x, w.down)
    BY DEF Model!mmw, mmw
  <2>2. ASSUME NEW j \in 1 .. c1.topk
        PROVE  /\ RoutesOf(c1, w, x)[j].id = IF fit[j] THEN ranked[j] ELSE 0
               /\ RoutesOf(c1, w, x)[j].wt = routed(raw[j], raw, c1)
    BY <1>3, <1>4, <1>12 DEF RoutesOf
  <2> HIDE DEF z
  <2>3. QED
    BY <1>5, <1>6, <2>1, <2>2 DEF TermsOf
<1> HIDE DEF terms
<1>9. Model!Accumulate(terms) = Accumulate(terms)
  BY DEF Model!Accumulate, Accumulate, Zero, Model!Zero
<1>10. \A a : Model!moe_tail(c1, x, a, w) = moe_tail(c1, x, a, w)
  BY DEF Model!moe_tail, moe_tail, Model!add, add, Model!mmw, mmw, Model!rmsnorm, rmsnorm,
     Model!mlp, mlp, Model!situ_glu, situ_glu
<1>11. QED
  BY <1>7, <1>8, <1>9, <1>10 DEF MoeOf

LEMMA DenseIs ==
    ASSUME NEW c1, NEW w, NEW u, Alike(u, w, DenseNames), NEW xs, NEW n, IsSeq(xs, n)
    PROVE  /\ IsSeq(dense(c1, u, xs), n)
           /\ \A t \in 1 .. n : dense(c1, u, xs)[t]
                 = Model!mlp(xs[t], w.dense_gate, w.dense_up, w.dense_down, c1)
<1>1. /\ u["dense_gate"] = w["dense_gate"] /\ u["dense_up"] = w["dense_up"]
      /\ u["dense_down"] = w["dense_down"]
  BY DEF Alike, DenseNames
<1>2. \A x, a, b, d : Model!mlp(x, a, b, d, c1) = mlp(x, a, b, d, c1)
  BY DEF Model!mlp, mlp, Model!mmw, mmw, Model!situ_glu, situ_glu
<1>3. dense(c1, u, xs) = [t \in 1 .. n |-> mlp(xs[t], w.dense_gate, w.dense_up, w.dense_down, c1)]
  BY <1>1 DEF dense, IsSeq
<1>4. QED
  BY <1>2, <1>3 DEF IsSeq

LEMMA Divides ==
    ASSUME NEW K \in Nat \ {0}, NEW a \in Nat, NEW r \in 0 .. K - 1
    PROVE  (a * K + r) \div K = a /\ (a * K + r) % K = r
<1> DEFINE x == a * K + r
           q == x \div K
           m == x % K
<1>1. a * K \in Nat /\ x \in Nat
  OBVIOUS
<1>2. q \in Int /\ m \in 0 .. K - 1 /\ x = K * q + m
  <2> HIDE DEF x
  <2>1. QED
    BY <1>1
<1> HIDE DEF q, m
<1>3. q * K \in Int /\ q * K - a * K = r - m
  BY <1>1, <1>2
<1>4. (q - a) * K = r - m
  BY <1>2, <1>3
<1>5. ~(q > a)
  <2>1. q - a \in Int /\ (q > a => q - a >= 1)
    BY <1>2
  <2> DEFINE d == q - a
  <2> HIDE DEF d
  <2>2. d \in Int /\ d >= 1 => d * K >= K
    OBVIOUS
  <2>3. QED
    BY <1>2, <1>4, <2>1, <2>2 DEF d
<1>6. ~(q < a)
  <2>1. q - a \in Int /\ (q < a => q - a <= -1)
    BY <1>2
  <2> DEFINE d == q - a
  <2> HIDE DEF d
  <2>2. d \in Int /\ d <= -1 => d * K <= -K
    OBVIOUS
  <2>3. QED
    BY <1>2, <1>4, <2>1, <2>2 DEF d
<1>7. q = a
  BY <1>2, <1>5, <1>6
<1>8. m = r
  BY <1>2, <1>3, <1>7
<1>9. QED
  BY <1>7, <1>8 DEF q, m

-----------------------------------------------------------------------------
(* The experts of a chunk.                                                  *)

(* Which expert the i-th (position, slot) of a chunk is routed to, with K   *)
(* to a position.                                                           *)
IdAt(routes, K, i) == routes[((i - 1) \div K) + 1][((i - 1) % K) + 1].id
Listed(s, e) == \E u \in DOMAIN s : s[u] = e
UniqRun(f, routes, K, N) ==
    f = [i \in 0 .. N |->
            IF i = 0 THEN <<>>
            ELSE IF Listed(f[i - 1], IdAt(routes, K, i)) THEN f[i - 1]
            ELSE Append(f[i - 1], IdAt(routes, K, i))]

LEMMA UniqRuns ==
    ASSUME NEW routes, NEW K, NEW N \in Nat
    PROVE  \E f : UniqRun(f, routes, K, N)
<1> DEFINE E == {IdAt(routes, K, i) : i \in 1 .. N}
           g == [p \in Seq(E) \X (1 .. N) |->
                    IF Listed(p[1], IdAt(routes, K, p[2])) THEN p[1]
                    ELSE Append(p[1], IdAt(routes, K, p[2]))]
<1>1. <<>> \in Seq(E)
  BY EmptySeq
<1>2. ASSUME NEW s \in Seq(E), NEW i \in 1 .. N
      PROVE  Append(s, IdAt(routes, K, i)) \in Seq(E)
  <2>1. IdAt(routes, K, i) \in E
    OBVIOUS
  <2> HIDE DEF E
  <2>2. QED
    BY <2>1, AppendProperties
<1>3. g \in [Seq(E) \X (1 .. N) -> Seq(E)]
  <2> HIDE DEF E
  <2>1. QED
    BY <1>2
<1>4. \A s \in Seq(E), i \in 1 .. N :
          g[<<s, i>>] = IF Listed(s, IdAt(routes, K, i)) THEN s ELSE Append(s, IdAt(routes, K, i))
  <2> HIDE DEF E
  <2>1. QED
    OBVIOUS
<1> HIDE DEF g
<1>5. PICK f \in [0 .. N -> Seq(E)] : Recurs(f, N, <<>>, g)
  <2> HIDE DEF E
  <2>1. QED
    BY <1>1, <1>3, Recursion
<1> HIDE DEF E
<1>6. ASSUME NEW i \in 0 .. N
      PROVE  f[i] = IF i = 0 THEN <<>>
                    ELSE IF Listed(f[i - 1], IdAt(routes, K, i)) THEN f[i - 1]
                    ELSE Append(f[i - 1], IdAt(routes, K, i))
  <2>1. CASE i = 0
    BY <1>5, <2>1 DEF Recurs
  <2>2. CASE i # 0
    <3>1. i \in 1 .. N /\ i - 1 \in 0 .. N
      BY <2>2
    <3>2. f[i] = g[<<f[i - 1], i>>] /\ f[i - 1] \in Seq(E)
      BY <1>5, <3>1 DEF Recurs
    <3>3. g[<<f[i - 1], i>>] = IF Listed(f[i - 1], IdAt(routes, K, i)) THEN f[i - 1]
                               ELSE Append(f[i - 1], IdAt(routes, K, i))
      BY <1>4, <3>1, <3>2
    <3>4. QED
      BY <2>2, <3>2, <3>3
  <2>3. QED
    BY <2>1, <2>2
<1>7. f = [i \in 0 .. N |-> f[i]]
  OBVIOUS
<1>8. UniqRun(f, routes, K, N)
  BY <1>6, <1>7 DEF UniqRun
<1>9. QED
  BY <1>8

(* All of the experts are there.                                            *)
Covers(s, routes, n, K) ==
    /\ \E m : IsSeq(s, m)
    /\ \A t \in 1 .. n, j \in 1 .. K : Listed(s, routes[t][j].id)

LEMMA UniqHas ==
    ASSUME NEW routes, NEW n \in Nat \ {0}, Len(routes) = n, NEW K \in Nat, Len(routes[1]) = K
    PROVE  Covers(Uniq(routes), routes, n, K)
<1> DEFINE N == n * K
           G == CHOOSE f : UniqRun(f, routes, K, N)
<1>0. N \in Nat
  BY Products
<1>1. Uniq(routes) = G[N]
  BY DEF Uniq, UniqRun, IdAt, Listed
<1>2. UniqRun(G, routes, K, N)
  BY <1>0, UniqRuns
<1> HIDE DEF G, N
<1>3. \A i \in 0 .. N :
         G[i] = IF i = 0 THEN <<>>
                ELSE IF Listed(G[i - 1], IdAt(routes, K, i)) THEN G[i - 1]
                ELSE Append(G[i - 1], IdAt(routes, K, i))
  BY <1>2 DEF UniqRun
<1> DEFINE A == {i \in 0 .. N : /\ \E m : IsSeq(G[i], m)
                                /\ \A k \in 1 .. i : Listed(G[i], IdAt(routes, K, k))}
<1>4. 0 \in A
  <2>1. G[0] = <<>> /\ 0 \in 0 .. N
    BY <1>0, <1>3
  <2>2. IsSeq(G[0], 0)
    BY <2>1, SeqNone
  <2>3. QED
    BY <2>1, <2>2
<1>5. ASSUME NEW p \in 0 .. N - 1, p \in A PROVE p + 1 \in A
  <2> DEFINE i == p + 1
  <2>1. i \in 1 .. N /\ i \in 0 .. N /\ i # 0 /\ i - 1 = p /\ \A k \in 1 .. i : k \in 1 .. p \/ k = i
    BY <1>0
  <2>2. PICK m : IsSeq(G[p], m)
    BY <1>5
  <2>3. \A k \in 1 .. p : Listed(G[p], IdAt(routes, K, k))
    BY <1>5
  <2> HIDE DEF i, A
  <2>4. G[i] = IF Listed(G[p], IdAt(routes, K, i)) THEN G[p] ELSE Append(G[p], IdAt(routes, K, i))
    BY <1>3, <2>1
  <2>5. CASE Listed(G[p], IdAt(routes, K, i))
    <3>1. G[i] = G[p]
      BY <2>4, <2>5
    <3>2. IsSeq(G[i], m) /\ \A k \in 1 .. i : Listed(G[i], IdAt(routes, K, k))
      BY <2>1, <2>2, <2>3, <2>5, <3>1
    <3>3. QED
      BY <2>1, <3>2 DEF A, i
  <2>6. CASE ~Listed(G[p], IdAt(routes, K, i))
    <3>1. G[i] = Append(G[p], IdAt(routes, K, i))
      BY <2>4, <2>6
    <3>2. Extends(G[i], G[p], m, IdAt(routes, K, i))
      BY <2>2, <3>1, SeqAppend
    <3>3. m \in Nat /\ DOMAIN G[p] = 1 .. m
      BY <2>2 DEF IsSeq
    <3>4. IsSeq(G[i], m + 1) /\ DOMAIN G[i] = 1 .. m + 1
      BY <3>2 DEF Extends, IsSeq
    <3>5. G[i][m + 1] = IdAt(routes, K, i) /\ \A t \in 1 .. m : G[i][t] = G[p][t]
      BY <3>2 DEF Extends
    <3>6. m + 1 \in 1 .. m + 1 /\ \A t \in 1 .. m : t \in 1 .. m + 1
      BY <3>3
    <3>7. Listed(G[i], IdAt(routes, K, i))
      BY <3>4, <3>5, <3>6 DEF Listed
    <3>8. \A k \in 1 .. p : Listed(G[i], IdAt(routes, K, k))
      BY <2>3, <3>3, <3>4, <3>5, <3>6 DEF Listed
    <3>9. QED
      BY <2>1, <3>4, <3>7, <3>8 DEF A, i
  <2>7. QED
    BY <2>5, <2>6 DEF i
<1> HIDE DEF A
<1>6. \A i \in 0 .. N : i \in A
  BY <1>0, <1>4, <1>5, Climbs
<1>7. ASSUME NEW t \in 1 .. n, NEW j \in 1 .. K PROVE Listed(Uniq(routes), routes[t][j].id)
  <2> DEFINE a == t - 1
             r == j - 1
             i == a * K + j
  <2>1. K \in Nat \ {0} /\ a \in Nat /\ r \in 0 .. K - 1 /\ a + 1 = t /\ r + 1 = j /\ a + 1 <= n
    OBVIOUS
  <2> HIDE DEF a, r
  <2>2. (a * K + r) \div K = a /\ (a * K + r) % K = r
    BY <2>1, Divides
  <2>3. a * K \in Nat /\ (a + 1) * K = a * K + K /\ (a + 1) * K <= N
    BY <2>1, Scales DEF N
  <2>4. i \in 1 .. N /\ i - 1 = a * K + r
    BY <1>0, <2>1, <2>3
  <2> HIDE DEF i
  <2>5. IdAt(routes, K, i) = routes[t][j].id
    BY <2>1, <2>2, <2>4 DEF IdAt
  <2>6. N \in A
    BY <1>0, <1>6
  <2>7. Listed(G[N], IdAt(routes, K, i))
    BY <2>4, <2>6 DEF A
  <2>8. QED
    BY <1>1, <2>5, <2>7
<1>8. \E m : IsSeq(Uniq(routes), m)
  <2>1. N \in A
    BY <1>0, <1>6
  <2>2. QED
    BY <1>1, <2>1 DEF A
<1>9. QED
  BY <1>7, <1>8 DEF Covers

-----------------------------------------------------------------------------
(* What the chunk's experts leave, one after another.                       *)

Left(c1, L1, e, z, lost) == IF e \in lost THEN Zero ELSE expert(c1, L1, e, z)
PutRun(f, c1, L1, n, routes, uniq, z, lost) ==
    f = [u \in 0 .. Len(uniq) |->
            IF u = 0 THEN [t \in 1 .. n |-> [j \in DOMAIN routes[t] |-> -1]]
            ELSE [t \in 1 .. n |-> [j \in DOMAIN routes[t] |->
                    IF routes[t][j].id # uniq[u] THEN f[u - 1][t][j]
                    ELSE Left(c1, L1, uniq[u], z[t], lost)]]]
PutAt(c1, L1, n, routes, uniq, z, lost, u) ==
    [t \in 1 .. n |-> [j \in DOMAIN routes[t] |->
        IF \E v \in 1 .. u : uniq[v] = routes[t][j].id
        THEN Left(c1, L1, routes[t][j].id, z[t], lost) ELSE -1]]

LEMMA PutStep ==
    ASSUME NEW c1, NEW L1, NEW n, NEW routes, NEW uniq, NEW z, NEW lost, NEW u \in Nat \ {0}
    PROVE  PutAt(c1, L1, n, routes, uniq, z, lost, u)
             = [t \in 1 .. n |-> [j \in DOMAIN routes[t] |->
                    IF routes[t][j].id # uniq[u]
                    THEN PutAt(c1, L1, n, routes, uniq, z, lost, u - 1)[t][j]
                    ELSE Left(c1, L1, uniq[u], z[t], lost)]]
<1> DEFINE PP(v) == PutAt(c1, L1, n, routes, uniq, z, lost, v)
           Q == [t \in 1 .. n |-> [j \in DOMAIN routes[t] |->
                    IF routes[t][j].id # uniq[u] THEN PP(u - 1)[t][j]
                    ELSE Left(c1, L1, uniq[u], z[t], lost)]]
<1>1. \A v \in 1 .. u : v \in 1 .. u - 1 \/ v = u
  OBVIOUS
<1>2. u \in 1 .. u /\ \A v \in 1 .. u - 1 : v \in 1 .. u
  OBVIOUS
<1>3. ASSUME NEW t \in 1 .. n, NEW j \in DOMAIN routes[t]
      PROVE  PP(u)[t][j] = Q[t][j]
  <2> DEFINE e == routes[t][j].id
  <2>1. PP(u)[t][j] = IF \E v \in 1 .. u : uniq[v] = e THEN Left(c1, L1, e, z[t], lost) ELSE -1
    BY DEF PutAt
  <2>2. PP(u - 1)[t][j] = IF \E v \in 1 .. u - 1 : uniq[v] = e THEN Left(c1, L1, e, z[t], lost) ELSE -1
    BY DEF PutAt
  <2>3. Q[t][j] = IF e # uniq[u] THEN PP(u - 1)[t][j] ELSE Left(c1, L1, uniq[u], z[t], lost)
    <3> HIDE DEF PP
    <3>1. QED
      OBVIOUS
  <2> HIDE DEF e, PP, Q
  <2>4. CASE e = uniq[u]
    BY <1>2, <2>1, <2>3, <2>4
  <2>5. CASE e # uniq[u]
    <3>1. (\E v \in 1 .. u : uniq[v] = e) <=> (\E v \in 1 .. u - 1 : uniq[v] = e)
      BY <1>1, <1>2, <2>5
    <3>2. QED
      BY <2>1, <2>2, <2>3, <2>5, <3>1
  <2>6. QED
    BY <2>4, <2>5
<1>4. PP(u) = [t \in 1 .. n |-> [j \in DOMAIN routes[t] |-> PP(u)[t][j]]]
  BY DEF PutAt
<1>5. Q = [t \in 1 .. n |-> [j \in DOMAIN routes[t] |-> Q[t][j]]]
  <2> HIDE DEF PP
  <2>1. QED
    OBVIOUS
<1> HIDE DEF PP, Q
<1>6. PP(u) = Q
  BY <1>3, <1>4, <1>5
<1>7. QED
  BY <1>6 DEF PP, Q

LEMMA PutIs ==
    ASSUME NEW c1, NEW L1, NEW n, NEW routes, NEW uniq, Len(uniq) \in Nat, NEW z, NEW lost,
           NEW G, G = CHOOSE f : PutRun(f, c1, L1, n, routes, uniq, z, lost)
    PROVE  G[Len(uniq)] = PutAt(c1, L1, n, routes, uniq, z, lost, Len(uniq))
<1> DEFINE N == Len(uniq)
           PP(u) == PutAt(c1, L1, n, routes, uniq, z, lost, u)
           Next1(g, u) == [t \in 1 .. n |-> [j \in DOMAIN routes[t] |->
                            IF routes[t][j].id # uniq[u] THEN g[t][j]
                            ELSE Left(c1, L1, uniq[u], z[t], lost)]]
           None == [t \in 1 .. n |-> [j \in DOMAIN routes[t] |-> -1]]
           F == [u \in 0 .. N |-> PP(u)]
<1>1. PP(0) = None
  BY DEF PutAt
<1>2. \A u \in Nat \ {0} : PP(u) = Next1(PP(u - 1), u)
  BY PutStep
<1>3. \A f : PutRun(f, c1, L1, n, routes, uniq, z, lost)
        <=> f = [u \in 0 .. N |-> IF u = 0 THEN None ELSE Next1(f[u - 1], u)]
  BY DEF PutRun
<1> HIDE DEF PP, Next1, None, N
<1>4. N \in Nat
  BY DEF N
<1>5. F = [u \in 0 .. N |-> IF u = 0 THEN None ELSE Next1(F[u - 1], u)]
  <2>1. ASSUME NEW u \in 0 .. N PROVE F[u] = IF u = 0 THEN None ELSE Next1(F[u - 1], u)
    <3>1. CASE u = 0
      BY <1>1, <3>1
    <3>2. CASE u # 0
      <4>1. u \in Nat \ {0} /\ u - 1 \in 0 .. N
        BY <1>4, <3>2
      <4>2. F[u - 1] = PP(u - 1) /\ F[u] = PP(u)
        BY <4>1
      <4>3. QED
        BY <1>2, <3>2, <4>1, <4>2
    <3>3. QED
      BY <3>1, <3>2
  <2>2. F = [u \in 0 .. N |-> F[u]]
    OBVIOUS
  <2> HIDE DEF F
  <2>3. QED
    BY <2>1, <2>2
<1>6. PutRun(G, c1, L1, n, routes, uniq, z, lost)
  <2> HIDE DEF F
  <2>1. \E f : PutRun(f, c1, L1, n, routes, uniq, z, lost)
    BY <1>3, <1>5
  <2>2. QED
    BY <2>1
<1>7. G = [u \in 0 .. N |-> IF u = 0 THEN None ELSE Next1(G[u - 1], u)]
  BY <1>3, <1>6
<1>8. \A u \in 0 .. N : G[u] = IF u = 0 THEN None ELSE Next1(G[u - 1], u)
  BY <1>7
<1> DEFINE A == {u \in 0 .. N : G[u] = PP(u)}
<1>9. 0 \in A
  BY <1>1, <1>4, <1>8
<1>10. ASSUME NEW p \in 0 .. N - 1, p \in A PROVE p + 1 \in A
  <2> DEFINE u == p + 1
  <2>1. u \in 0 .. N /\ u # 0 /\ u - 1 = p /\ u \in Nat \ {0}
    BY <1>4
  <2>2. G[p] = PP(p)
    BY <1>10
  <2> HIDE DEF u
  <2>3. G[u] = Next1(G[p], u)
    BY <1>8, <2>1
  <2>4. PP(u) = Next1(PP(p), u)
    BY <1>2, <2>1
  <2>5. u \in A
    BY <2>1, <2>2, <2>3, <2>4
  <2>6. QED
    BY <2>5 DEF u
<1> HIDE DEF A
<1>11. \A u \in 0 .. N : u \in A
  BY <1>4, <1>9, <1>10, Climbs
<1>12. N \in A
  BY <1>4, <1>11
<1>13. QED
  BY <1>12 DEF A, N, PP

(* Every slot of a chunk has what its expert leaves.                        *)
Filled(r, c1, w, L1, xs, n, K, routes, lost) ==
    \A t \in 1 .. n, j \in 1 .. K :
        r[t][j] = Left(c1, L1, routes[t][j].id, mmw(xs[t], w.down), lost)

LEMMA ContributionsAre ==
    ASSUME NEW c1, NEW w, NEW L1, NEW xs, NEW n, IsSeq(xs, n), NEW routes, NEW K \in Nat,
           Covers(Uniq(routes), routes, n, K), \A t \in 1 .. n : DOMAIN routes[t] = 1 .. K,
           NEW lost
    PROVE  Filled(Contributions(c1, w, L1, xs, routes, lost), c1, w, L1, xs, n, K, routes, lost)
<1> SUFFICES ASSUME NEW t \in 1 .. n, NEW j \in 1 .. K
             PROVE  Contributions(c1, w, L1, xs, routes, lost)[t][j]
                      = Left(c1, L1, routes[t][j].id, mmw(xs[t], w.down), lost)
  BY DEF Filled
<1> DEFINE uniq == Uniq(routes)
           z == Table([s \in DOMAIN xs |-> mmw(xs[s], w.down)])
           G == CHOOSE f : PutRun(f, c1, L1, n, routes, uniq, z, lost)
<1>1. DOMAIN xs = 1 .. n
  BY DEF IsSeq
<1>2. Contributions(c1, w, L1, xs, routes, lost) = G[Len(uniq)]
  BY <1>1 DEF Contributions, PutRun, Left
<1>3. PICK m : IsSeq(uniq, m)
  BY DEF Covers
<1>4. Len(uniq) = m /\ m \in Nat /\ DOMAIN uniq = 1 .. m
  <2> HIDE DEF uniq
  <2>1. QED
    BY <1>3, SeqIs DEF IsSeq
<1>5. z[t] = mmw(xs[t], w.down)
  BY <1>1 DEF Table
<1> HIDE DEF z, G, uniq
<1>6. G[Len(uniq)] = PutAt(c1, L1, n, routes, uniq, z, lost, Len(uniq))
  BY <1>4, PutIs DEF G
<1>7. Listed(uniq, routes[t][j].id)
  BY DEF Covers, uniq
<1>8. \E v \in 1 .. Len(uniq) : uniq[v] = routes[t][j].id
  BY <1>4, <1>7 DEF Listed
<1>9. PutAt(c1, L1, n, routes, uniq, z, lost, Len(uniq))[t][j]
        = Left(c1, L1, routes[t][j].id, z[t], lost)
  BY <1>8 DEF PutAt
<1>10. QED
  BY <1>2, <1>5, <1>6, <1>9

(* A batch comes to what its positions do one by one, whatever is lost.     *)
Moes(r, c1, w, L1, xs, n, lost) ==
    /\ IsSeq(r, n)
    /\ \A t \in 1 .. n : r[t] = moe_token(c1, w, L1, xs[t], router(c1, xs[t], w), lost)

LEMMA MoeSeq ==
    ASSUME NEW c1, NEW w, NEW L1, NEW xs, NEW n, IsSeq(xs, n), NEW lost
    PROVE  Moes(k3_moe(c1, w, L1, xs, lost), c1, w, L1, xs, n, lost)
BY DEF IsSeq, k3_moe, Moes

LEMMA ChunkIs ==
    ASSUME Ordered, NEW c1, Chooses(c1), NEW w, NEW L1, NEW xs, NEW n \in Nat \ {0},
           IsSeq(xs, n), NEW lost
    PROVE  moe_prefill_chunk(c1, w, L1, xs, lost) = k3_moe(c1, w, L1, xs, lost)
<1> DEFINE K == c1.topk
           routes == Table([t \in DOMAIN xs |-> router(c1, xs[t], w)])
           contrib == Contributions(c1, w, L1, xs, routes, lost)
<1>0. DOMAIN xs = 1 .. n /\ K \in Nat
  BY DEF IsSeq, Chooses
<1>1. moe_prefill_chunk(c1, w, L1, xs, lost)
        = [t \in 1 .. n |-> moe_tail(c1, xs[t], Accumulate(Summed(routes, t, contrib)), w)]
  BY <1>0 DEF moe_prefill_chunk
<1>2. routes = [t \in 1 .. n |-> RoutesOf(c1, w, xs[t])]
  BY <1>0, RouterIs DEF Table
<1> HIDE DEF routes
<1>3. IsSeq(routes, n) /\ Len(routes) = n
  <2>1. IsSeq(routes, n)
    BY <1>2 DEF IsSeq
  <2>2. QED
    BY <2>1, SeqIs
<1>4. ASSUME NEW t \in 1 .. n PROVE IsSeq(routes[t], K) /\ DOMAIN routes[t] = 1 .. K
  BY <1>0, <1>2 DEF RoutesOf, IsSeq
<1>5. Len(routes[1]) = K
  BY <1>4, SeqIs
<1>6. Covers(Uniq(routes), routes, n, K)
  BY <1>0, <1>3, <1>5, UniqHas
<1>10. Filled(contrib, c1, w, L1, xs, n, K, routes, lost)
  <2> HIDE DEF K
  <2>1. \A t \in 1 .. n : DOMAIN routes[t] = 1 .. K
    BY <1>4
  <2>2. QED
    BY <1>0, <1>6, <2>1, ContributionsAre
<1> HIDE DEF contrib
<1>7. ASSUME NEW t \in 1 .. n
      PROVE  Summed(routes, t, contrib) = Terms(c1, L1, routes[t], mmw(xs[t], w.down), lost)
  <2>1. DOMAIN routes[t] = 1 .. K
    BY <1>4
  <2>2. \A j \in 1 .. K : contrib[t][j] = Left(c1, L1, routes[t][j].id, mmw(xs[t], w.down), lost)
    BY <1>10 DEF Filled
  <2> HIDE DEF K
  <2>3. QED
    BY <2>1, <2>2 DEF Summed, Terms, Left
<1>8. ASSUME NEW t \in 1 .. n
      PROVE  moe_tail(c1, xs[t], Accumulate(Summed(routes, t, contrib)), w)
               = moe_token(c1, w, L1, xs[t], router(c1, xs[t], w), lost)
  <2>1. router(c1, xs[t], w) = routes[t]
    BY <1>2, RouterIs
  <2>2. QED
    BY <1>7, <2>1 DEF moe_token
<1>9. QED
  BY <1>0, <1>1, <1>8 DEF k3_moe

(* A part of what the positions come to is what a part of them comes to.    *)
InParts(c1, w, L1, xs, lost, a, b) ==
    k3_moe(c1, w, L1, SubSeq(xs, a, b), lost) = SubSeq(k3_moe(c1, w, L1, xs, lost), a, b)

LEMMA MoePart ==
    ASSUME NEW c1, NEW w, NEW L1, NEW xs, NEW n, IsSeq(xs, n), NEW lost,
           NEW a \in 1 .. n + 1, NEW b \in a - 1 .. n
    PROVE  InParts(c1, w, L1, xs, lost, a, b)
<1> DEFINE M == k3_moe(c1, w, L1, xs, lost)
           ys == SubSeq(xs, a, b)
           U == k3_moe(c1, w, L1, ys, lost)
           V == SubSeq(M, a, b)
           m == b - a + 1
<1>0. n \in Nat
  BY DEF IsSeq
<1>1. Cuts(ys, xs, a, m)
  BY SeqPart
<1>2. IsSeq(ys, m) /\ \A t \in 1 .. m : ys[t] = xs[a + t - 1]
  BY <1>1 DEF Cuts
<1>3. IsSeq(M, n) /\ \A t \in 1 .. n : M[t] = moe_token(c1, w, L1, xs[t], router(c1, xs[t], w), lost)
  BY MoeSeq DEF Moes
<1> HIDE DEF ys
<1>4. IsSeq(U, m) /\ \A t \in 1 .. m : U[t] = moe_token(c1, w, L1, ys[t], router(c1, ys[t], w), lost)
  <2>1. Moes(U, c1, w, L1, ys, m, lost)
    BY <1>2, MoeSeq
  <2>2. QED
    BY <2>1 DEF Moes
<1> HIDE DEF M, U
<1>5. Cuts(V, M, a, m)
  BY <1>3, SeqPart
<1>6. IsSeq(V, m) /\ \A t \in 1 .. m : V[t] = M[a + t - 1]
  BY <1>5 DEF Cuts
<1> HIDE DEF V
<1>7. ASSUME NEW t \in 1 .. m PROVE U[t] = V[t]
  <2>1. a + t - 1 \in 1 .. n
    BY <1>0
  <2>2. QED
    BY <1>2, <1>3, <1>4, <1>6, <2>1
<1> HIDE DEF m
<1>8. U = V
  BY <1>4, <1>6, <1>7, SeqSame
<1>9. QED
  BY <1>8 DEF InParts, U, V, M, ys

(* A beginning, and then what follows it. *)
LEMMA SeqGrows ==
    ASSUME NEW f, NEW n, IsSeq(f, n), NEW a \in 0 .. n, NEW b \in a .. n
    PROVE  SubSeq(f, 1, a) \o SubSeq(f, a + 1, b) = SubSeq(f, 1, b)
<1> DEFINE u == SubSeq(f, 1, a)
           v == SubSeq(f, a + 1, b)
           x == SubSeq(f, 1, b)
           m == b - a
<1>0. n \in Nat
  BY DEF IsSeq
<1>1. IsSeq(u, a) /\ \A t \in 1 .. a : u[t] = f[t]
  BY SeqCut
<1>2. b \in 0 .. n
  BY <1>0
<1>3. IsSeq(x, b) /\ \A t \in 1 .. b : x[t] = f[t]
  BY <1>2, SeqCut
<1>4. a + 1 \in 1 .. n + 1 /\ b \in (a + 1) - 1 .. n /\ b - (a + 1) + 1 = m /\ m \in Nat /\ a + m = b
  BY <1>0
<1>5. Cuts(v, f, a + 1, m)
  BY <1>4, SeqPart
<1>6. IsSeq(v, m) /\ \A t \in 1 .. m : v[t] = f[(a + 1) + t - 1]
  BY <1>5 DEF Cuts
<1> HIDE DEF u, v, x, m
<1>7. Joins(u \o v, u, a, v, m)
  BY <1>1, <1>6, SeqJoin
<1>8. /\ IsSeq(u \o v, b)
      /\ \A t \in 1 .. a : (u \o v)[t] = u[t]
      /\ \A t \in 1 .. m : (u \o v)[a + t] = v[t]
  BY <1>4, <1>7 DEF Joins
<1> DEFINE y == u \o v
<1>9. ASSUME NEW t \in 1 .. b PROVE y[t] = x[t]
  <2>1. CASE t <= a
    <3>1. t \in 1 .. a
      BY <2>1
    <3>2. QED
      BY <1>1, <1>3, <1>8, <3>1
  <2>2. CASE t > a
    <3>1. t - a \in 1 .. m /\ a + (t - a) = t /\ (a + 1) + (t - a) - 1 = t
      BY <1>4, <2>2
    <3> HIDE DEF y
    <3>2. y[t] = v[t - a]
      BY <1>8, <3>1 DEF y
    <3>3. QED
      BY <1>3, <1>6, <3>1, <3>2
  <2>3. t <= a \/ t > a
    BY <1>0
  <2>4. QED
    BY <2>1, <2>2, <2>3
<1>10. IsSeq(y, b)
  BY <1>8
<1> HIDE DEF y
<1>11. y = x
  BY <1>3, <1>9, <1>10, SeqSame
<1>12. QED
  BY <1>11 DEF y, u, v, x

(* The positions of the i-th chunk end here. *)
EndOf(n, i) == IF i * Chunk < n THEN i * Chunk ELSE n
PartOf(xs, n, i) == SubSeq(xs, (i - 1) * Chunk + 1, EndOf(n, i))
PartDone(c1, w, L1, xs, n, lost, i) ==
    IF Len(PartOf(xs, n, i)) = 1 THEN k3_moe(c1, w, L1, PartOf(xs, n, i), lost)
    ELSE moe_prefill_chunk(c1, w, L1, PartOf(xs, n, i), lost)
DoneRun(f, c1, w, L1, xs, n, lost, N) ==
    f = [i \in 0 .. N |-> IF i = 0 THEN <<>> ELSE f[i - 1] \o PartDone(c1, w, L1, xs, n, lost, i)]

(* As many chunks as there are begun.                                       *)
LEMMA ChunksCover ==
    ASSUME NEW n \in Nat, NEW N, N = (n + Chunk - 1) \div Chunk
    PROVE  /\ N \in Nat /\ EndOf(n, N) = n
           /\ \A i \in 1 .. N : (i - 1) * Chunk \in Nat /\ (i - 1) * Chunk < n
<1> DEFINE C == Chunk
           x == n + C - 1
           m == x % C
<1>0. C \in Nat \ {0}
  BY DecoderLayerAssumption
<1> HIDE DEF C
<1>1. x \in Nat
  BY <1>0
<1>2. N \in Nat /\ m \in 0 .. C - 1 /\ x = C * N + m
  <2>1. N = x \div C
    BY DEF C
  <2> HIDE DEF x
  <2>2. x \div C \in Nat
    BY ONLY <1>0, <1>1
  <2>3. m \in 0 .. C - 1 /\ x = C * (x \div C) + m
    BY <1>0, <1>1
  <2>4. QED
    BY <2>1, <2>2, <2>3
<1> HIDE DEF m
<1>3. C * N \in Nat /\ C * N = N * C
  BY <1>0, <1>2
<1>4. N * C >= n
  BY <1>0, <1>2, <1>3
<1>5. ASSUME NEW i \in 1 .. N PROVE (i - 1) * C \in Nat /\ (i - 1) * C < n
  <2> DEFINE a == i - 1
  <2>1. a \in Nat /\ a + 1 <= N /\ a + 1 \in Nat
    BY <1>2
  <2> HIDE DEF a
  <2>2. a * C \in Nat /\ (a + 1) * C = a * C + C /\ (a + 1) * C <= N * C
    BY <1>0, <1>2, <2>1, Scales
  <2>3. a * C < n
    BY <1>0, <1>2, <1>3, <2>2
  <2>4. QED
    BY <2>2, <2>3 DEF a
<1>6. EndOf(n, N) = n
  BY <1>3, <1>4 DEF EndOf, C
<1>7. QED
  BY <1>2, <1>5, <1>6 DEF C

(* Where a chunk ends the next one begins. *)
LEMMA ChunkEnds ==
    ASSUME NEW n \in Nat, NEW i \in Nat \ {0}, (i - 1) * Chunk \in Nat, (i - 1) * Chunk < n
    PROVE  EndOf(n, i - 1) = (i - 1) * Chunk /\ EndOf(n, i) \in (i - 1) * Chunk + 1 .. n
<1> DEFINE C == Chunk
           a == i - 1
<1>0. C \in Nat \ {0} /\ a \in Nat /\ a + 1 = i
  BY DecoderLayerAssumption
<1>1. EndOf(n, i - 1) = a * C
  BY DEF EndOf
<1>2. a * C \in Nat /\ a * C < n
  OBVIOUS
<1>3. i * C = a * C + C
  <2> HIDE DEF C, a
  <2>1. (a + 1) * C = a * C + C
    BY <1>0
  <2>2. QED
    BY <1>0, <2>1
<1>4. EndOf(n, i) = IF i * C < n THEN i * C ELSE n
  BY DEF EndOf
<1> DEFINE p == a * C
<1> HIDE DEF p
<1>5. p \in Nat /\ p < n /\ EndOf(n, i) = IF p + C < n THEN p + C ELSE n
  BY <1>2, <1>3, <1>4 DEF p
<1> HIDE DEF C
<1>6. EndOf(n, i) \in p + 1 .. n
  BY <1>0, <1>5
<1>7. QED
  BY <1>1, <1>6 DEF p, C

LEMMA PartIs ==
    ASSUME Ordered, NEW c1, Chooses(c1), NEW w, NEW L1, NEW xs, NEW n, IsSeq(xs, n), NEW lost,
           NEW i \in Nat \ {0}, (i - 1) * Chunk \in Nat, (i - 1) * Chunk < n
    PROVE  PartDone(c1, w, L1, xs, n, lost, i)
             = SubSeq(k3_moe(c1, w, L1, xs, lost), EndOf(n, i - 1) + 1, EndOf(n, i))
<1>0. n \in Nat
  BY DEF IsSeq
<1> DEFINE q == (i - 1) * Chunk
<1>10. q \in Nat /\ EndOf(n, i - 1) = q /\ EndOf(n, i) \in q + 1 .. n
  BY <1>0, ChunkEnds
<1> DEFINE a == q + 1
           b == EndOf(n, i)
           ys == PartOf(xs, n, i)
           m == b - a + 1
<1>1. EndOf(n, i - 1) + 1 = a /\ b \in a .. n /\ a \in Nat \ {0}
  <2> HIDE DEF q
  <2>1. QED
    BY <1>0, <1>10
<1>2. ys = SubSeq(xs, a, b)
  BY DEF PartOf
<1> HIDE DEF a, b, ys
<1>3. a \in 1 .. n + 1 /\ b \in a - 1 .. n /\ m \in Nat \ {0}
  BY <1>0, <1>1
<1>4. Cuts(ys, xs, a, m)
  BY <1>2, <1>3, SeqPart
<1> HIDE DEF m
<1>5. IsSeq(ys, m)
  BY <1>4 DEF Cuts
<1>6. moe_prefill_chunk(c1, w, L1, ys, lost) = k3_moe(c1, w, L1, ys, lost)
  BY <1>3, <1>5, ChunkIs
<1>7. PartDone(c1, w, L1, xs, n, lost, i) = k3_moe(c1, w, L1, ys, lost)
  BY <1>6 DEF PartDone, ys
<1>8. k3_moe(c1, w, L1, ys, lost) = SubSeq(k3_moe(c1, w, L1, xs, lost), a, b)
  <2>1. k3_moe(c1, w, L1, SubSeq(xs, a, b), lost) = SubSeq(k3_moe(c1, w, L1, xs, lost), a, b)
    <3>1. InParts(c1, w, L1, xs, lost, a, b)
      BY <1>3, MoePart
    <3>2. QED
      BY <3>1 DEF InParts
  <2>2. QED
    BY <1>2, <2>1
<1>9. QED
  BY <1>1, <1>7, <1>8 DEF b

(* The batched prefill is the plain path, chunk by chunk.                   *)
LEMMA PrefillIs ==
    ASSUME Ordered, NEW c1, Chooses(c1), NEW w, NEW L1, NEW xs, NEW n, IsSeq(xs, n), NEW lost
    PROVE  k3_moe_prefill(c1, w, L1, xs, lost) = k3_moe(c1, w, L1, xs, lost)
<1> DEFINE N == (n + Chunk - 1) \div Chunk
           M == k3_moe(c1, w, L1, xs, lost)
           PP(i) == SubSeq(M, 1, EndOf(n, i))
           D(i) == PartDone(c1, w, L1, xs, n, lost, i)
           F == [i \in 0 .. N |-> PP(i)]
           G == CHOOSE f : DoneRun(f, c1, w, L1, xs, n, lost, N)
<1>0. n \in Nat /\ Len(xs) = n
  BY SeqIs DEF IsSeq
<1>1. k3_moe_prefill(c1, w, L1, xs, lost) = G[N]
  BY <1>0 DEF k3_moe_prefill, DoneRun, PartDone, PartOf, EndOf
<1>2. N \in Nat /\ EndOf(n, N) = n
  BY <1>0, ChunksCover
<1>3. \A i \in 1 .. N : (i - 1) * Chunk \in Nat /\ (i - 1) * Chunk < n
  BY <1>0, ChunksCover
<1>4. IsSeq(M, n)
  BY MoeSeq DEF Moes
<1> HIDE DEF M, N
<1>5. PP(0) = <<>>
  <2>1. EndOf(n, 0) = 0
    BY <1>0, DecoderLayerAssumption DEF EndOf
  <2>2. IsSeq(SubSeq(M, 1, 0), 0)
    BY <1>0, <1>4, SeqCut
  <2>3. QED
    BY <2>1, <2>2, SeqNone
<1>6. ASSUME NEW i \in 1 .. N PROVE PP(i) = PP(i - 1) \o D(i)
  <2>1. i \in Nat \ {0} /\ (i - 1) * Chunk \in Nat /\ (i - 1) * Chunk < n
    BY <1>3
  <2>2. D(i) = SubSeq(M, EndOf(n, i - 1) + 1, EndOf(n, i))
    BY <2>1, PartIs DEF M
  <2>3. EndOf(n, i - 1) \in 0 .. n /\ EndOf(n, i) \in EndOf(n, i - 1) .. n
    BY <1>0, <2>1, ChunkEnds
  <2>4. SubSeq(M, 1, EndOf(n, i - 1)) \o SubSeq(M, EndOf(n, i - 1) + 1, EndOf(n, i))
          = SubSeq(M, 1, EndOf(n, i))
    BY <1>4, <2>3, SeqGrows
  <2>5. QED
    BY <2>2, <2>4
<1>7. \A f : DoneRun(f, c1, w, L1, xs, n, lost, N)
        <=> f = [i \in 0 .. N |-> IF i = 0 THEN <<>> ELSE f[i - 1] \o D(i)]
  BY DEF DoneRun
<1> HIDE DEF PP, D
<1>8. F = [i \in 0 .. N |-> IF i = 0 THEN <<>> ELSE F[i - 1] \o D(i)]
  <2>1. ASSUME NEW i \in 0 .. N PROVE F[i] = IF i = 0 THEN <<>> ELSE F[i - 1] \o D(i)
    <3>1. CASE i = 0
      BY <1>5, <3>1
    <3>2. CASE i # 0
      <4>1. i \in 1 .. N /\ i - 1 \in 0 .. N
        BY <1>2, <3>2
      <4>2. F[i - 1] = PP(i - 1) /\ F[i] = PP(i)
        BY <4>1
      <4>3. QED
        BY <1>6, <3>2, <4>1, <4>2
    <3>3. QED
      BY <3>1, <3>2
  <2>2. F = [i \in 0 .. N |-> F[i]]
    OBVIOUS
  <2> HIDE DEF F
  <2>3. QED
    BY <2>1, <2>2
<1>9. DoneRun(G, c1, w, L1, xs, n, lost, N)
  <2> HIDE DEF F
  <2>1. \E f : DoneRun(f, c1, w, L1, xs, n, lost, N)
    BY <1>7, <1>8
  <2>2. QED
    BY <2>1
<1> HIDE DEF F, G
<1>10. \A i \in 0 .. N : G[i] = IF i = 0 THEN <<>> ELSE G[i - 1] \o D(i)
  BY <1>7, <1>9
<1> DEFINE A == {i \in 0 .. N : G[i] = PP(i)}
<1>11. 0 \in A
  BY <1>2, <1>5, <1>10
<1>12. ASSUME NEW p \in 0 .. N - 1, p \in A PROVE p + 1 \in A
  <2> DEFINE i == p + 1
  <2>1. i \in 0 .. N /\ i # 0 /\ i - 1 = p /\ i \in 1 .. N
    BY <1>2
  <2>2. G[p] = PP(p)
    BY <1>12
  <2> HIDE DEF i
  <2>3. G[i] = G[p] \o D(i)
    BY <1>10, <2>1
  <2>4. PP(i) = PP(p) \o D(i)
    BY <1>6, <2>1
  <2>5. i \in A
    BY <2>1, <2>2, <2>3, <2>4
  <2>6. QED
    BY <2>5 DEF i
<1> HIDE DEF A
<1>13. \A i \in 0 .. N : i \in A
  BY <1>2, <1>11, <1>12, Climbs
<1>14. G[N] = SubSeq(M, 1, n)
  <2>1. N \in A
    BY <1>2, <1>13
  <2>2. QED
    BY <1>2, <2>1 DEF A, PP
<1>15. SubSeq(M, 1, n) = M
  <2>1. n \in 0 .. n
    BY <1>0
  <2>2. IsSeq(SubSeq(M, 1, n), n) /\ \A t \in 1 .. n : SubSeq(M, 1, n)[t] = M[t]
    BY <1>4, <2>1, SeqCut
  <2>3. QED
    BY <1>4, <2>2, SeqSame
<1>16. QED
  BY <1>1, <1>14, <1>15 DEF M

-----------------------------------------------------------------------------
(* The model, layer by layer: R is what there is before layer i.            *)

Opens(m, i) == i % Meant(m).attn_res_block = 0
SeesAt(c1, w, B, x) == IF B = <<>> THEN x ELSE attn_res(Append(B, x), fold_attn(w), c1)
GivenOf(m, i, R) ==
    [t \in DOMAIN R.x |->
        rmsnorm(SeesAt(Meant(m), Weights(m, i), R.blocks[t], R.x[t]), Weights(m, i).in_norm, Meant(m))]
BlocksOf(m, i, R) ==
    [t \in DOMAIN R.x |-> IF Opens(m, i) THEN Append(R.blocks[t], R.x[t]) ELSE R.blocks[t]]
MixedOf(m, i, R) ==
    IF Model!IsFull(Meant(m), i) THEN Model!Mla(Meant(m), Weights(m, i), GivenOf(m, i, R))
    ELSE Model!Kda(Meant(m), Weights(m, i), GivenOf(m, i, R))
MidOf(m, i, R) ==
    [t \in DOMAIN R.x |-> IF Opens(m, i) THEN MixedOf(m, i, R)[t] ELSE add(R.x[t], MixedOf(m, i, R)[t])]
FedOf(m, i, R) ==
    [t \in DOMAIN R.x |->
        rmsnorm(attn_res(Append(BlocksOf(m, i, R)[t], MidOf(m, i, R)[t]), fold_mlp(Weights(m, i)), Meant(m)),
                Weights(m, i).post_norm, Meant(m))]
OutOf(m, i, x) ==
    LET w == Weights(m, i) IN
    IF is_dense(Meant(m), i) THEN mlp(x, w.dense_gate, w.dense_up, w.dense_down, Meant(m))
    ELSE MoeOf(Meant(m), w, i, x)
StepOf(m, i, R) ==
    [x |-> [t \in DOMAIN R.x |-> add(MidOf(m, i, R)[t], OutOf(m, i, FedOf(m, i, R)[t]))],
     blocks |-> BlocksOf(m, i, R),
     given |-> Append(R.given, GivenOf(m, i, R))]

LEMMA StepIs ==
    ASSUME NEW m, NEW i, NEW R
    PROVE  Model!LayerStep(m, i, R) = StepOf(m, i, R)
<1> DEFINE c1 == Meant(m)
           w == Weights(m, i)
           D == DOMAIN R.x
           opens == i % c1.attn_res_block = 0
           sees(t) == IF R.blocks[t] = <<>> THEN R.x[t]
                      ELSE Model!attn_res(Append(R.blocks[t], R.x[t]), Model!fold_attn(w), c1)
           given == Model!Table([t \in D |-> Model!rmsnorm(sees(t), w.in_norm, c1)])
           blocks == Model!Table([t \in D |->
                       IF opens THEN Append(R.blocks[t], R.x[t]) ELSE R.blocks[t]])
           mixed == Model!Table(IF Model!IsFull(c1, i) THEN Model!Mla(c1, w, given)
                                ELSE Model!Kda(c1, w, given))
           x == Model!Table([t \in D |-> IF opens THEN mixed[t] ELSE Model!add(R.x[t], mixed[t])])
           fedTo == Model!Table([t \in D |->
                   Model!rmsnorm(Model!attn_res(Append(blocks[t], x[t]), Model!fold_mlp(w), c1),
                                 w.post_norm, c1)])
           outs(t) == IF Model!is_dense(c1, i)
                     THEN Model!mlp(fedTo[t], w.dense_gate, w.dense_up, w.dense_down, c1)
                     ELSE Model!MoeAt(c1, w, i, fedTo[t])
<1>1. Model!LayerStep(m, i, R)
        = [x |-> Model!Table([t \in D |-> Model!add(x[t], outs(t))]), blocks |-> blocks,
           given |-> Append(R.given, given)]
  BY DEF Model!LayerStep
<1>2. \A s, f : Model!attn_res(s, f, c1) = attn_res(s, f, c1)
  BY DEF Model!attn_res, attn_res
<1>3. \A a, b : Model!rmsnorm(a, b, c1) = rmsnorm(a, b, c1) /\ Model!add(a, b) = add(a, b)
  BY DEF Model!rmsnorm, rmsnorm, Model!add, add
<1>4. Model!fold_attn(w) = fold_attn(w) /\ Model!fold_mlp(w) = fold_mlp(w)
  BY DEF Model!fold_attn, fold_attn, Model!fold_mlp, fold_mlp, Model!mul, mul
<1>5. opens <=> Opens(m, i)
  BY DEF Opens
<1>6. given = GivenOf(m, i, R)
  <2>1. \A t : sees(t) = SeesAt(c1, w, R.blocks[t], R.x[t])
    BY <1>2, <1>4 DEF SeesAt
  <2> HIDE DEF sees, D
  <2>2. given = [t \in D |-> rmsnorm(SeesAt(c1, w, R.blocks[t], R.x[t]), w.in_norm, c1)]
    BY <1>3, <2>1 DEF Model!Table
  <2>3. QED
    BY <2>2 DEF GivenOf, D
<1>7. blocks = BlocksOf(m, i, R)
  BY <1>5 DEF BlocksOf, Model!Table
<1> HIDE DEF given, blocks, opens
<1>8. mixed = MixedOf(m, i, R)
  BY <1>6 DEF MixedOf, Model!Table
<1> HIDE DEF mixed
<1>9. x = MidOf(m, i, R)
  BY <1>3, <1>5, <1>8 DEF MidOf, Model!Table
<1> HIDE DEF x
<1>10. fedTo = FedOf(m, i, R)
  BY <1>2, <1>3, <1>4, <1>7, <1>9 DEF FedOf, Model!Table
<1> HIDE DEF fedTo
<1>11. \A t : outs(t) = OutOf(m, i, fedTo[t])
  <2>1. \A y, a, b, d : Model!mlp(y, a, b, d, c1) = mlp(y, a, b, d, c1)
    BY DEF Model!mlp, mlp, Model!mmw, mmw, Model!situ_glu, situ_glu
  <2>2. Model!is_dense(c1, i) <=> is_dense(c1, i)
    BY DEF Model!is_dense, is_dense
  <2>3. \A y : Model!MoeAt(c1, w, i, y) = MoeOf(c1, w, i, y)
    BY MoeIs
  <2>4. QED
    BY <2>1, <2>2, <2>3 DEF OutOf
<1> HIDE DEF outs
<1>12. Model!Table([t \in D |-> Model!add(x[t], outs(t))])
         = [t \in D |-> add(MidOf(m, i, R)[t], OutOf(m, i, FedOf(m, i, R)[t]))]
  BY <1>3, <1>9, <1>10, <1>11 DEF Model!Table
<1>13. QED
  BY <1>1, <1>6, <1>7, <1>12 DEF StepOf

(* Where a text starts, and what becomes of it. *)
StartOf(m, text) ==
    [x |-> [t \in DOMAIN text |-> Kernel("embed", <<Weights(m, Meant(m).n_layers).embed, text[t]>>)],
     blocks |-> [t \in DOMAIN text |-> <<>>],
     given |-> <<>>]
WalkRun(f, m, text, N) ==
    f = [i \in 0 .. N |-> IF i = 0 THEN StartOf(m, text) ELSE StepOf(m, i - 1, f[i - 1])]
After(m, text) == CHOOSE f : WalkRun(f, m, text, Depth(m))

LEMMA WalkRuns ==
    ASSUME NEW m, NEW text, NEW N \in Nat
    PROVE  \E f : WalkRun(f, m, text, N)
<1> DEFINE A == {i \in 0 .. N : \E f : WalkRun(f, m, text, i)}
           S == StartOf(m, text)
           At(g, t) == StepOf(m, t - 1, g[t - 1])
<1>1. 0 \in A
  <2> DEFINE f == [t \in 0 .. 0 |-> S]
  <2>1. f = [t \in 0 .. 0 |-> IF t = 0 THEN S ELSE At(f, t)]
    <3> HIDE DEF At, S
    <3>1. QED
      OBVIOUS
  <2>2. WalkRun(f, m, text, 0)
    BY <2>1 DEF WalkRun
  <2>3. QED
    BY <2>2
<1>2. ASSUME NEW i \in 0 .. N - 1, i \in A PROVE i + 1 \in A
  <2>1. PICK f : WalkRun(f, m, text, i)
    BY <1>2
  <2> DEFINE g == [t \in 0 .. i + 1 |-> IF t <= i THEN f[t] ELSE At(f, t)]
  <2>2. f = [t \in 0 .. i |-> IF t = 0 THEN S ELSE At(f, t)]
    BY <2>1 DEF WalkRun
  <2>3. ASSUME NEW t \in 0 .. i + 1 PROVE g[t] = IF t = 0 THEN S ELSE At(g, t)
    <3>1. CASE t = 0
      <4> HIDE DEF At, S
      <4>1. QED
        BY <2>2, <3>1
    <3>2. CASE t # 0
      <4>1. t - 1 \in 0 .. i + 1 /\ t - 1 <= i
        BY <3>2
      <4>2. g[t - 1] = f[t - 1]
        BY <4>1
      <4>3. At(g, t) = At(f, t)
        BY <4>2
      <4>4. g[t] = At(f, t)
        <5>1. t <= i => t \in 0 .. i
          OBVIOUS
        <5>2. t <= i => f[t] = At(f, t)
          <6> HIDE DEF At, S
          <6>1. QED
            BY <2>2, <3>2, <5>1
        <5>3. QED
          BY <5>2
      <4>5. QED
        <5> HIDE DEF At, g, S
        <5>1. QED
          BY <3>2, <4>3, <4>4
    <3>3. QED
      BY <3>1, <3>2
  <2>4. g = [t \in 0 .. i + 1 |-> g[t]]
    OBVIOUS
  <2>5. g = [t \in 0 .. i + 1 |-> IF t = 0 THEN S ELSE At(g, t)]
    <3> HIDE DEF At, g, S
    <3>1. QED
      BY <2>3, <2>4
  <2>6. WalkRun(g, m, text, i + 1)
    <3> HIDE DEF g
    <3>1. QED
      BY <2>5 DEF WalkRun
  <2>7. i + 1 \in 0 .. N
    OBVIOUS
  <2>8. QED
    <3> HIDE DEF g
    <3>1. QED
      BY <2>6, <2>7
<1> HIDE DEF A
<1>3. \A i \in 0 .. N : i \in A
  BY <1>1, <1>2, Climbs
<1>4. N \in A
  BY <1>3
<1>5. QED
  BY <1>4 DEF A

Walked(f, m, text, N) ==
    /\ f[0] = StartOf(m, text)
    /\ \A i \in 0 .. N - 1 : f[i + 1] = StepOf(m, i, f[i])

LEMMA AfterIs ==
    ASSUME NEW m, Depth(m) \in Nat, NEW text
    PROVE  /\ Walked(After(m, text), m, text, Depth(m))
           /\ Model!Through(m, text) = After(m, text)[Depth(m)]
<1> DEFINE N == Depth(m)
           G == After(m, text)
           St == StartOf(m, text)
           At(g, i) == StepOf(m, i - 1, g[i - 1])
<1>1. WalkRun(G, m, text, N)
  BY WalkRuns DEF After
<1>2. G = [i \in 0 .. N |-> IF i = 0 THEN St ELSE At(G, i)]
  BY <1>1 DEF WalkRun
<1>3. Walked(G, m, text, N)
  <2> HIDE DEF G, N, At, St
  <2>1. N \in Nat
    BY DEF N
  <2>2. G[0] = St
    BY <1>2, <2>1
  <2>3. ASSUME NEW i \in 0 .. N - 1 PROVE G[i + 1] = StepOf(m, i, G[i])
    <3>1. i + 1 \in 0 .. N /\ i + 1 # 0 /\ i + 1 - 1 = i
      BY <2>1
    <3>2. G[i + 1] = At(G, i + 1)
      BY <1>2, <3>1
    <3>3. QED
      BY <3>1, <3>2 DEF At
  <2>4. QED
    BY <2>2, <2>3 DEF Walked, St
<1>4. Model!Through(m, text) = G[N]
  <2> DEFINE embed == Weights(m, Model!Top(m)).embed
             start == [x |-> Model!Table([t \in DOMAIN text |-> Kernel("embed", <<embed, text[t]>>)]),
                       blocks |-> [t \in DOMAIN text |-> <<>>],
                       given |-> <<>>]
             after == CHOOSE f : f = [i \in 0 .. N |->
                        IF i = 0 THEN start ELSE Model!LayerStep(m, i - 1, f[i - 1])]
  <2>1. Model!Through(m, text) = after[N]
    BY DEF Model!Through
  <2>2. start = St
    BY DEF StartOf, Model!Table, Model!Top
  <2> HIDE DEF start, St, N
  <2>3. after = G
    BY <2>2, StepIs DEF After, WalkRun, N, St
  <2>4. QED
    BY <2>1, <2>3
<1>5. QED
  BY <1>3, <1>4

(* n positions, k snapshots of each.                                        *)
Blocked(R, n, k) ==
    /\ IsSeq(R.x, n) /\ IsSeq(R.blocks, n)
    /\ \A t \in 1 .. n : IsSeq(R.blocks[t], k)

LEMMA StartBlocked ==
    ASSUME NEW m, NEW text, NEW n, IsSeq(text, n)
    PROVE  Blocked(StartOf(m, text), n, 0)
<1>1. DOMAIN text = 1 .. n /\ n \in Nat
  BY DEF IsSeq
<1>2. IsSeq(<<>>, 0)
  BY SeqNone
<1>3. QED
  BY <1>1, <1>2 DEF Blocked, StartOf, IsSeq

LEMMA StepBlocked ==
    ASSUME NEW m, NEW i, NEW R, NEW n, NEW k, Blocked(R, n, k)
    PROVE  Blocked(StepOf(m, i, R), n, IF Opens(m, i) THEN k + 1 ELSE k)
<1>1. DOMAIN R.x = 1 .. n /\ n \in Nat
  BY DEF Blocked, IsSeq
<1>2. IsSeq(StepOf(m, i, R).x, n)
  BY <1>1 DEF StepOf, IsSeq
<1>3. StepOf(m, i, R).blocks
        = [t \in 1 .. n |-> IF Opens(m, i) THEN Append(R.blocks[t], R.x[t]) ELSE R.blocks[t]]
  BY <1>1 DEF StepOf, BlocksOf
<1>4. IsSeq(StepOf(m, i, R).blocks, n)
  BY <1>1, <1>3 DEF IsSeq
<1>5. ASSUME NEW t \in 1 .. n
      PROVE  IsSeq(StepOf(m, i, R).blocks[t], IF Opens(m, i) THEN k + 1 ELSE k)
  <2>1. IsSeq(R.blocks[t], k)
    BY DEF Blocked
  <2>2. IsSeq(Append(R.blocks[t], R.x[t]), k + 1)
    BY <2>1, SeqAppend DEF Extends
  <2>3. QED
    BY <1>3, <2>1, <2>2
<1>6. QED
  BY <1>2, <1>4, <1>5 DEF Blocked

(* What each of the layers before the i-th has been given, on record.       *)
Recorded(G, m, i) ==
    /\ IsSeq(G[i].given, i)
    /\ \A j \in 0 .. i - 1 : G[i].given[j + 1] = GivenOf(m, j, G[j])
Shaped(G, m, n, N) ==
    /\ \A i \in 0 .. N : \E k : Blocked(G[i], n, k)
    /\ \A i \in 0 .. N : Recorded(G, m, i)

LEMMA AfterShaped ==
    ASSUME NEW m, Depth(m) \in Nat, NEW text, NEW n, IsSeq(text, n)
    PROVE  Shaped(After(m, text), m, n, Depth(m))
<1> DEFINE N == Depth(m)
           G == After(m, text)
           A == {i \in 0 .. N : (\E k : Blocked(G[i], n, k)) /\ Recorded(G, m, i)}
<1>1. Walked(G, m, text, N)
  BY AfterIs
<1> HIDE DEF G
<1>2. 0 \in A
  <2>1. G[0] = StartOf(m, text)
    BY <1>1 DEF Walked
  <2>2. Blocked(G[0], n, 0)
    BY <2>1, StartBlocked
  <2>3. G[0].given = <<>>
    BY <2>1 DEF StartOf
  <2>4. Recorded(G, m, 0)
    BY <2>3, SeqNone DEF Recorded
  <2>5. QED
    BY <2>2, <2>4
<1>3. ASSUME NEW p \in 0 .. N - 1, p \in A PROVE p + 1 \in A
  <2> DEFINE i == p + 1
  <2>1. i \in 0 .. N /\ p \in Nat /\ i - 1 = p
    OBVIOUS
  <2>2. G[i] = StepOf(m, p, G[p])
    BY <1>1 DEF Walked
  <2>3. PICK k : Blocked(G[p], n, k)
    BY <1>3
  <2>4. Recorded(G, m, p)
    BY <1>3
  <2>5. \E kk : Blocked(G[i], n, kk)
    BY <2>2, <2>3, StepBlocked
  <2>6. G[i].given = Append(G[p].given, GivenOf(m, p, G[p]))
    BY <2>2 DEF StepOf
  <2>7. IsSeq(G[p].given, p)
    BY <2>4 DEF Recorded
  <2>8. Extends(G[i].given, G[p].given, p, GivenOf(m, p, G[p]))
    BY <2>6, <2>7, SeqAppend
  <2>9. ASSUME NEW j \in 0 .. i - 1 PROVE G[i].given[j + 1] = GivenOf(m, j, G[j])
    <3>1. CASE j = p
      BY <2>8, <3>1 DEF Extends
    <3>2. CASE j # p
      <4>1. j \in 0 .. p - 1 /\ j + 1 \in 1 .. p
        BY <2>1, <3>2
      <4>2. G[i].given[j + 1] = G[p].given[j + 1]
        BY <2>8, <4>1 DEF Extends
      <4>3. QED
        BY <2>4, <4>1, <4>2 DEF Recorded
    <3>3. QED
      BY <3>1, <3>2
  <2>10. Recorded(G, m, i)
    BY <2>8, <2>9 DEF Recorded, Extends
  <2> HIDE DEF i
  <2>11. i \in A
    BY <2>1, <2>5, <2>10
  <2>12. QED
    BY <2>11 DEF i
<1> HIDE DEF A
<1>4. \A i \in 0 .. N : i \in A
  BY <1>2, <1>3, Climbs
<1>5. QED
  BY <1>4 DEF A, Shaped, G

(* Alike up to a position. *)
Agree(R, S, p) == \A t \in 1 .. p : R.x[t] = S.x[t] /\ R.blocks[t] = S.blocks[t]
Same(f, g, p) == \A t \in 1 .. p : f[t] = g[t]

LEMMA GivenSeq ==
    ASSUME NEW m, NEW i, NEW R, NEW n, NEW k, Blocked(R, n, k)
    PROVE  IsSeq(GivenOf(m, i, R), n)
BY DEF Blocked, IsSeq, GivenOf

LEMMA GivenAgrees ==
    ASSUME NEW m, NEW i, NEW R, NEW n, NEW k, Blocked(R, n, k),
           NEW S, NEW o, NEW l, Blocked(S, o, l), NEW p \in Nat, p <= n, p <= o, Agree(R, S, p)
    PROVE  Same(GivenOf(m, i, R), GivenOf(m, i, S), p)
<1>1. DOMAIN R.x = 1 .. n /\ DOMAIN S.x = 1 .. o /\ n \in Nat /\ o \in Nat
  BY DEF Blocked, IsSeq
<1>2. ASSUME NEW t \in 1 .. p PROVE GivenOf(m, i, R)[t] = GivenOf(m, i, S)[t]
  <2>1. t \in 1 .. n /\ t \in 1 .. o
    BY <1>1
  <2>2. R.x[t] = S.x[t] /\ R.blocks[t] = S.blocks[t]
    BY DEF Agree
  <2>3. QED
    BY <1>1, <2>1, <2>2 DEF GivenOf
<1>3. QED
  BY <1>2 DEF Same

LEMMA MixedAgrees ==
    ASSUME NEW m, Meant(m).conv_k \in Nat \ {0}, NEW i,
           NEW R, NEW n, NEW k, Blocked(R, n, k),
           NEW S, NEW o, NEW l, Blocked(S, o, l), NEW p \in Nat, p <= n, p <= o, Agree(R, S, p)
    PROVE  Same(MixedOf(m, i, R), MixedOf(m, i, S), p)
<1> DEFINE xs == GivenOf(m, i, R)
           zs == GivenOf(m, i, S)
           c1 == Meant(m)
           w == Weights(m, i)
<1>1. IsSeq(xs, n) /\ IsSeq(zs, o)
  BY GivenSeq
<1>2. \A t \in 1 .. p : xs[t] = zs[t]
  BY GivenAgrees DEF Same
<1> HIDE DEF xs, zs, c1, w
<1>3. \A t \in 1 .. p : Model!Mla(c1, w, xs)[t] = Model!Mla(c1, w, zs)[t]
  BY <1>1, <1>2, MlaCausal
<1>4. \A t \in 1 .. p : Model!Kda(c1, w, xs)[t] = Model!Kda(c1, w, zs)[t]
  <2>1. c1.conv_k \in Nat \ {0}
    BY DEF c1
  <2>2. KdaAgrees(c1, w, xs, zs, p)
    BY <1>1, <1>2, <2>1, KdaCausal
  <2>3. QED
    BY <2>2 DEF KdaAgrees
<1>5. QED
  BY <1>3, <1>4 DEF Same, MixedOf, xs, zs, c1, w

LEMMA StepAgrees ==
    ASSUME NEW m, Meant(m).conv_k \in Nat \ {0}, NEW i,
           NEW R, NEW n, NEW k, Blocked(R, n, k),
           NEW S, NEW o, NEW l, Blocked(S, o, l), NEW p \in Nat, p <= n, p <= o, Agree(R, S, p)
    PROVE  Agree(StepOf(m, i, R), StepOf(m, i, S), p)
<1>1. DOMAIN R.x = 1 .. n /\ DOMAIN S.x = 1 .. o /\ n \in Nat /\ o \in Nat
  BY DEF Blocked, IsSeq
<1>2. Same(MixedOf(m, i, R), MixedOf(m, i, S), p)
  BY MixedAgrees
<1>3. ASSUME NEW t \in 1 .. p
      PROVE  /\ StepOf(m, i, R).x[t] = StepOf(m, i, S).x[t]
             /\ StepOf(m, i, R).blocks[t] = StepOf(m, i, S).blocks[t]
  <2>1. t \in 1 .. n /\ t \in 1 .. o
    BY <1>1
  <2>2. R.x[t] = S.x[t] /\ R.blocks[t] = S.blocks[t] /\ MixedOf(m, i, R)[t] = MixedOf(m, i, S)[t]
    BY <1>2 DEF Agree, Same
  <2>3. BlocksOf(m, i, R)[t] = BlocksOf(m, i, S)[t]
    BY <1>1, <2>1, <2>2 DEF BlocksOf
  <2>4. MidOf(m, i, R)[t] = MidOf(m, i, S)[t]
    BY <1>1, <2>1, <2>2 DEF MidOf
  <2>5. FedOf(m, i, R)[t] = FedOf(m, i, S)[t]
    BY <1>1, <2>1, <2>3, <2>4 DEF FedOf
  <2>6. StepOf(m, i, R).x[t] = add(MidOf(m, i, R)[t], OutOf(m, i, FedOf(m, i, R)[t]))
    BY <1>1, <2>1 DEF StepOf
  <2>7. StepOf(m, i, S).x[t] = add(MidOf(m, i, S)[t], OutOf(m, i, FedOf(m, i, S)[t]))
    BY <1>1, <2>1 DEF StepOf
  <2>8. StepOf(m, i, R).blocks = BlocksOf(m, i, R) /\ StepOf(m, i, S).blocks = BlocksOf(m, i, S)
    BY DEF StepOf
  <2>9. QED
    BY <2>3, <2>4, <2>5, <2>6, <2>7, <2>8
<1>4. QED
  BY <1>3 DEF Agree

(* What is made of a position goes by the text up to it.                    *)
LEMMA AfterAgrees ==
    ASSUME NEW m, Meant(m).conv_k \in Nat \ {0}, Depth(m) \in Nat,
           NEW text, NEW n, IsSeq(text, n), NEW other, NEW o, IsSeq(other, o),
           NEW p \in Nat, p <= n, p <= o, Same(text, other, p)
    PROVE  \A i \in 0 .. Depth(m) : Agree(After(m, text)[i], After(m, other)[i], p)
<1> DEFINE N == Depth(m)
           F == After(m, text)
           G == After(m, other)
           A == {i \in 0 .. N : Agree(F[i], G[i], p)}
<1>1. Walked(F, m, text, N) /\ Walked(G, m, other, N)
  BY AfterIs
<1>2. Shaped(F, m, n, N) /\ Shaped(G, m, o, N)
  BY AfterShaped
<1> HIDE DEF F, G
<1>3. 0 \in A
  <2>1. F[0] = StartOf(m, text) /\ G[0] = StartOf(m, other)
    BY <1>1 DEF Walked
  <2>2. ASSUME NEW t \in 1 .. p
        PROVE  /\ StartOf(m, text).x[t] = StartOf(m, other).x[t]
               /\ StartOf(m, text).blocks[t] = StartOf(m, other).blocks[t]
    <3>0. DOMAIN text = 1 .. n /\ DOMAIN other = 1 .. o /\ n \in Nat /\ o \in Nat
      BY DEF IsSeq
    <3>1. t \in DOMAIN text /\ t \in DOMAIN other /\ text[t] = other[t]
      BY <3>0 DEF Same
    <3>2. QED
      BY <3>1 DEF StartOf
  <2>3. QED
    BY <2>1, <2>2 DEF Agree
<1>4. ASSUME NEW q \in 0 .. N - 1, q \in A PROVE q + 1 \in A
  <2> DEFINE i == q + 1
  <2>1. i \in 0 .. N /\ q \in 0 .. N
    OBVIOUS
  <2>2. F[i] = StepOf(m, q, F[q]) /\ G[i] = StepOf(m, q, G[q])
    BY <1>1 DEF Walked
  <2>3. Agree(F[q], G[q], p)
    BY <1>4
  <2>4. PICK k : Blocked(F[q], n, k)
    BY <1>2, <2>1 DEF Shaped
  <2>5. PICK l : Blocked(G[q], o, l)
    BY <1>2, <2>1 DEF Shaped
  <2> HIDE DEF i
  <2>6. Agree(F[i], G[i], p)
    BY <2>2, <2>3, <2>4, <2>5, StepAgrees
  <2>7. i \in A
    BY <2>1, <2>6
  <2>8. QED
    BY <2>7 DEF i
<1> HIDE DEF A
<1>5. \A i \in 0 .. N : i \in A
  BY <1>3, <1>4, Climbs
<1>6. QED
  BY <1>5 DEF A, F, G

-----------------------------------------------------------------------------
(* What the kernels get of the weights that are bound.                      *)

(* A plan asks for a name.                                                  *)
Asks(plan, name) == \E i \in DOMAIN plan : plan[i].name = name

(* The weight of a name, bound as the kernels read it.                      *)
Serving(bound, tensors, name) ==
    /\ name \in DOMAIN tensors /\ name \in DOMAIN bound.dest
    /\ bound.dest[name].from = tensors[name].dt
    /\ ReadRight(bound, name)

LEMMA Named ==
    ASSUME NEW plan, NEW bound, NEW name, Asks(plan, name)
    PROVE  /\ name \in DOMAIN ByName(plan, bound)
           /\ \E i \in DOMAIN plan : plan[i].name = name /\ ByName(plan, bound)[name] = bound[i]
<1> DEFINE i == CHOOSE j \in DOMAIN plan : plan[j].name = name
<1>1. i \in DOMAIN plan /\ plan[i].name = name
  BY DEF Asks
<1>2. name \in {plan[j].name : j \in DOMAIN plan}
  BY <1>1
<1>3. ByName(plan, bound)[name] = bound[i] /\ name \in DOMAIN ByName(plan, bound)
  BY <1>2 DEF ByName
<1> HIDE DEF i
<1>4. QED
  BY <1>1, <1>3

LEMMA WideIs ==
    ASSUME NEW tensors, NEW plan \in Seq(Request)
    PROVE  \/ Resolved(tensors, plan) = plan
           \/ \A i \in 1 .. Len(plan) : ~Resolved(tensors, plan)[i].narrow
<1>1. Len(plan) \in Nat /\ DOMAIN plan = 1 .. Len(plan) /\ \A i \in 1 .. Len(plan) : plan[i] \in Request
  BY LenProperties, ElementOfSeq
<1>2. \A i \in 1 .. Len(plan) : ~[plan[i] EXCEPT !.narrow = FALSE].narrow
  BY <1>1 DEF Request
<1>3. \A i \in 1 .. Len(plan) : ~AllWide(plan)[i].narrow
  BY <1>1, <1>2 DEF AllWide
<1>4. QED
  BY <1>3 DEF Resolved

(* Resident weights are read as they were bound: all of a layer in the      *)
(* format of its matrices, or all as floats.                                *)
LEMMA ResidentServes ==
    ASSUME NEW tensors, NEW plan \in Seq(Planned), bind_resident(tensors, plan).ok,
           NEW name, Asks(plan, name)
    PROVE  Serving(bind_resident(tensors, plan), tensors, name)
<1> DEFINE p == Resolved(tensors, plan)
           size == [i \in DOMAIN p |-> p[i].take * elem(p[i])]
           bound == [i \in DOMAIN p |->
                        [as |-> IF p[i].narrow THEN "BF16" ELSE "F32",
                         from |-> tensors[p[i].name].dt, at |-> "blob",
                         off |-> Ends(size)[i] - size[i], len |-> size[i]]]
           b == bind_resident(tensors, plan)
<1>0. plan \in Seq(Request)
  BY PlannedAre
<1>1. /\ p \in Seq(Request) /\ Len(p) = Len(plan) /\ DOMAIN p = 1 .. Len(p)
      /\ \A i \in 1 .. Len(plan) : p[i].name = plan[i].name
  BY <1>0, ResolvedIsPlan, LenProperties
<1>2. /\ b.dest = ByName(p, bound) /\ b.tag = (IF p = plan THEN "BF16" ELSE "F32")
      /\ \A i \in DOMAIN plan : ~Unresolved(tensors, plan[i])
  BY DEF bind_resident, Refused
<1>3. p = plan \/ \A i \in 1 .. Len(plan) : ~p[i].narrow
  BY <1>0, WideIs
<1>4. DOMAIN plan = 1 .. Len(plan) /\ \A i \in 1 .. Len(plan) : plan[i] \in Planned
  BY LenProperties, ElementOfSeq
<1>5. \A i \in DOMAIN p : bound[i].as = (IF p[i].narrow THEN "BF16" ELSE "F32")
                          /\ bound[i].from = tensors[p[i].name].dt
  OBVIOUS
<1> HIDE DEF p, b, bound
<1>6. Asks(p, name)
  BY <1>1, <1>4 DEF Asks
<1>7. name \in DOMAIN b.dest
  BY <1>2, <1>6, Named
<1>8. PICK i \in DOMAIN p : p[i].name = name /\ b.dest[name] = bound[i]
  <2>1. PICK i \in DOMAIN p : p[i].name = name /\ ByName(p, bound)[name] = bound[i]
    BY <1>6, Named, SMTT(30)
  <2>2. b.dest[name] = bound[i]
    BY <1>2, <2>1
  <2>3. QED
    BY <2>1, <2>2
<1>9. i \in 1 .. Len(plan) /\ plan[i].name = name /\ plan[i] \in Planned
  BY <1>1, <1>4, <1>8
<1>10. name \in DOMAIN tensors
  BY <1>2, <1>4, <1>9 DEF Unresolved
<1>11. b.dest[name].from = tensors[name].dt
  BY <1>5, <1>8
<1>12. b.dest[name].as = IF p[i].narrow THEN "BF16" ELSE "F32"
  BY <1>5, <1>8
<1>13. plan[i].narrow <=> name \in Matrices
  BY <1>9 DEF Planned
<1>14. b.dest[name].as = IF name \in Matrices THEN b.tag ELSE "F32"
  <2>1. CASE p = plan
    BY <1>2, <1>12, <1>13, <2>1
  <2>2. CASE p # plan
    BY <1>2, <1>3, <1>9, <1>12, <2>2
  <2>3. QED
    BY <2>1, <2>2
<1>15. QED
  BY <1>7, <1>10, <1>11, <1>14 DEF Serving, ReadRight, b

(* A pack's layer is even: its matrices are all int8, or none is.           *)
Even(tensors) ==
    (\E name \in Matrices \cap DOMAIN tensors : tensors[name].dt = "I8R")
       => \A name \in Matrices \cap DOMAIN tensors : tensors[name].dt = "I8R"

(* The weights of an even layer of a pack are read as they were packed.     *)
LEMMA PackedServes ==
    ASSUME NEW m, NEW n, NEW tensors, plan_layer(m, n) \in Seq(Planned), Even(tensors),
           bind_layer_mem(m, n, tensors).ok, NEW name, Asks(plan_layer(m, n), name)
    PROVE  Serving(bind_layer_mem(m, n, tensors), tensors, name)
<1> DEFINE p == plan_layer(m, n)
           t(i) == tensors[p[i].name]
           size == [i \in DOMAIN p |-> IF InPlace(t(i), p[i]) THEN Nowhere ELSE p[i].take * 4]
           i8_seen == \E i \in DOMAIN p : p[i].narrow /\ t(i).dt = "I8R"
           narrowed_all == \A i \in DOMAIN p : p[i].narrow => t(i).dt \in {"BF16", "I8R"}
           bound == [i \in DOMAIN p |->
            IF size[i] = Nowhere
            THEN [as |-> t(i).dt, from |-> t(i).dt, at |-> "run", off |-> 0, len |-> 0]
            ELSE [as |-> "F32", from |-> t(i).dt, at |-> "widen",
                  off |-> Ends(size)[i] - size[i], len |-> size[i]]]
           b == bind_layer_mem(m, n, tensors)
<1>1. p \in Seq(Planned) /\ DOMAIN p = 1 .. Len(p) /\ \A i \in 1 .. Len(p) : p[i] \in Planned
  BY LenProperties, ElementOfSeq
<1>2. /\ b.dest = ByName(p, bound) /\ b.tag = (IF i8_seen THEN "I8R" ELSE "BF16")
      /\ \A i \in DOMAIN p : ~Unfit(tensors, p[i])
      /\ narrowed_all \/ i8_seen
  BY DEF bind_layer_mem, Refused
<1> HIDE DEF p, b
<1>3. \A i \in DOMAIN p : size[i] = Nowhere <=> InPlace(t(i), p[i])
  <2>1. ASSUME NEW i \in DOMAIN p PROVE p[i].take * 4 # Nowhere
    <3>1. p[i].take \in Nat
      BY <1>1 DEF Planned, Request
    <3>2. QED
      BY <3>1 DEF Nowhere
  <2>2. QED
    BY <2>1
<1> HIDE DEF size
<1>4. \A i \in DOMAIN p : bound[i].from = t(i).dt
                          /\ bound[i].as = (IF InPlace(t(i), p[i]) THEN t(i).dt ELSE "F32")
  BY <1>3
<1> HIDE DEF bound
<1>5. name \in DOMAIN b.dest
  BY <1>2, Named DEF p
<1>6. PICK i \in DOMAIN p : p[i].name = name /\ b.dest[name] = bound[i]
  BY <1>2, Named DEF p
<1>7. name \in DOMAIN tensors
  BY <1>2, <1>6 DEF Unfit
<1>8. /\ p[i] \in Planned
      /\ p[i].narrow <=> name \in Matrices
  BY <1>1, <1>6 DEF Planned
<1>9. b.dest[name].from = tensors[name].dt
  BY <1>4, <1>6
<1>10. b.dest[name].as = (IF InPlace(tensors[name], p[i]) THEN tensors[name].dt ELSE "F32")
  BY <1>4, <1>6
<1>11. CASE name \notin Matrices
  BY <1>5, <1>7, <1>8, <1>9, <1>10, <1>11 DEF Serving, ReadRight, InPlace, b
<1>12. CASE name \in Matrices
  <2>1. b.dest[name].as = tensors[name].dt
    BY <1>8, <1>10, <1>12 DEF InPlace
  <2>2. tensors[name].dt = b.tag
    <3>1. CASE i8_seen
      <4>1. PICK j \in DOMAIN p : p[j].narrow /\ tensors[p[j].name].dt = "I8R"
        BY <3>1
      <4>2. p[j].name \in Matrices
        BY <1>1, <4>1 DEF Planned
      <4>3. p[j].name \in DOMAIN tensors
        BY <1>2, <4>1 DEF Unfit
      <4>4. tensors[name].dt = "I8R"
        BY <1>7, <1>12, <4>1, <4>2, <4>3 DEF Even
      <4>5. QED
        BY <1>2, <3>1, <4>4
    <3>2. CASE ~i8_seen
      <4>1. tensors[name].dt \in {"BF16", "I8R"} /\ tensors[name].dt # "I8R"
        BY <1>2, <1>6, <1>8, <1>12, <3>2
      <4>2. QED
        BY <1>2, <3>2, <4>1
    <3>3. QED
      BY <3>1, <3>2
  <2>3. QED
    BY <1>5, <1>7, <1>9, <1>12, <2>1, <2>2 DEF Serving, ReadRight, b
<1>13. QED
  BY <1>11, <1>12

(* Every weight that a kernel reads is in the plan of its layer.            *)
NormNames == {"in_norm", "post_norm", "attn_res_norm", "attn_res_proj", "mlp_res_norm", "mlp_res_proj"}
AttnNames(m, n) == IF is_mla(m, n) THEN MlaNames(m) ELSE KdaNames
MlpNames(m, n) == IF is_dense(m, n) THEN DenseNames ELSE MoeNames

LEMMA AsksJoined ==
    ASSUME NEW S, NEW p \in Seq(S), NEW q \in Seq(S), NEW name, Asks(p, name) \/ Asks(q, name)
    PROVE  Asks(p \o q, name)
<1>1. /\ Len(p) \in Nat /\ DOMAIN p = 1 .. Len(p) /\ Len(q) \in Nat /\ DOMAIN q = 1 .. Len(q)
  BY LenProperties
<1>2. /\ p \o q \in Seq(S) /\ Len(p \o q) = Len(p) + Len(q)
      /\ \A i \in 1 .. Len(p) : (p \o q)[i] = p[i]
      /\ \A i \in 1 .. Len(q) : (p \o q)[Len(p) + i] = q[i]
  BY Joined
<1>3. DOMAIN (p \o q) = 1 .. Len(p) + Len(q)
  BY <1>2, LenProperties
<1>4. CASE Asks(p, name)
  <2>1. PICK i \in 1 .. Len(p) : p[i].name = name
    BY <1>1, <1>4 DEF Asks
  <2>2. i \in 1 .. Len(p) + Len(q) /\ (p \o q)[i].name = name
    BY <1>1, <1>2, <2>1
  <2>3. QED
    BY <1>3, <2>2 DEF Asks
<1>5. CASE Asks(q, name)
  <2>1. PICK i \in 1 .. Len(q) : q[i].name = name
    BY <1>1, <1>5 DEF Asks
  <2>2. Len(p) + i \in 1 .. Len(p) + Len(q) /\ (p \o q)[Len(p) + i].name = name
    BY <1>1, <1>2, <2>1
  <2>3. QED
    BY <1>3, <2>2 DEF Asks
<1>6. QED
  BY <1>4, <1>5

LEMMA NormsAsks ==
    ASSUME NEW m
    PROVE  \A name \in NormNames : Asks(Norms(m), name)
<1>1. DOMAIN Norms(m) = 1 .. 6
  BY DEF Norms
<1>2. /\ Norms(m)[1].name = "in_norm"
      /\ Norms(m)[2].name = "post_norm"
      /\ Norms(m)[3].name = "attn_res_norm"
      /\ Norms(m)[4].name = "attn_res_proj"
      /\ Norms(m)[5].name = "mlp_res_norm"
      /\ Norms(m)[6].name = "mlp_res_proj"
  BY DEF Norms, reqw, req
<1>3. QED
  BY <1>1, <1>2 DEF Asks, NormNames

LEMMA KdaAsks ==
    ASSUME NEW m
    PROVE  \A name \in KdaNames : Asks(Kda(m), name)
<1>1. DOMAIN Kda(m) = 1 .. 14
  BY DEF Kda
<1>2. /\ Kda(m)[1].name = "q"
      /\ Kda(m)[2].name = "k"
      /\ Kda(m)[3].name = "v"
      /\ Kda(m)[4].name = "g"
      /\ Kda(m)[5].name = "o"
      /\ Kda(m)[6].name = "q_conv"
      /\ Kda(m)[7].name = "k_conv"
      /\ Kda(m)[8].name = "v_conv"
      /\ Kda(m)[9].name = "f_a"
      /\ Kda(m)[10].name = "f_b"
      /\ Kda(m)[11].name = "b"
      /\ Kda(m)[12].name = "A_log"
      /\ Kda(m)[13].name = "dt_bias"
      /\ Kda(m)[14].name = "o_norm"
  BY DEF Kda, reqw, reqn, req, A_log
<1>3. QED
  BY <1>1, <1>2 DEF Asks, KdaNames

LEMMA DenseAsks ==
    ASSUME NEW m
    PROVE  \A name \in DenseNames : Asks(Dense(m), name)
<1>1. DOMAIN Dense(m) = 1 .. 3
  BY DEF Dense
<1>2. /\ Dense(m)[1].name = "dense_gate"
      /\ Dense(m)[2].name = "dense_up"
      /\ Dense(m)[3].name = "dense_down"
  BY DEF Dense, reqn, req
<1>3. QED
  BY <1>1, <1>2 DEF Asks, DenseNames

LEMMA MoeAsks ==
    ASSUME NEW m
    PROVE  \A name \in MoeNames : Asks(Moe(m), name)
<1>1. DOMAIN Moe(m) = 1 .. 8
  BY DEF Moe
<1>2. /\ Moe(m)[1].name = "gate"
      /\ Moe(m)[2].name = "bias"
      /\ Moe(m)[3].name = "down"
      /\ Moe(m)[4].name = "up"
      /\ Moe(m)[5].name = "latent_norm"
      /\ Moe(m)[6].name = "sh1"
      /\ Moe(m)[7].name = "sh3"
      /\ Moe(m)[8].name = "sh2"
  BY DEF Moe, reqw, reqn, req
<1>3. QED
  BY <1>1, <1>2 DEF Asks, MoeNames

LEMMA MlaAsks ==
    ASSUME NEW m, Sized(m)
    PROVE  \A name \in MlaNames(m) : Asks(Mla(m), name)
<1> DEFINE qh == m.qk_nope + m.qk_rope
           first == << reqn("q_a", m.q_lora * m.hidden), reqw("q_a_norm", m.q_lora),
                       reqn("q_b", m.n_heads * qh * m.q_lora),
                       reqn("kv_a", (m.kv_lora + m.qk_rope) * m.hidden), reqw("kv_a_norm", m.kv_lora),
                       reqn("kv_b", m.n_heads * (m.qk_nope + m.v_head) * m.kv_lora),
                       reqn("mla_o", m.hidden * m.n_heads * m.v_head)>>
           last == IF m.mla_out_gate THEN <<reqn("mla_g", m.n_heads * m.v_head * m.hidden)>> ELSE <<>>
           S == {first[i] : i \in 1 .. 7} \cup {reqn("mla_g", m.n_heads * m.v_head * m.hidden)}
<1>1. Mla(m) = first \o last
  BY DEF Mla
<1>2. /\ first[1].name = "q_a" /\ first[2].name = "q_a_norm" /\ first[3].name = "q_b"
      /\ first[4].name = "kv_a" /\ first[5].name = "kv_a_norm" /\ first[6].name = "kv_b"
      /\ first[7].name = "mla_o"
  BY DEF reqw, reqn, req
<1>3. first \in Seq(S) /\ DOMAIN first = 1 .. 7
  <2>1. DOMAIN first = 1 .. 7 /\ first = [i \in 1 .. 7 |-> first[i]]
    OBVIOUS
  <2> HIDE DEF first
  <2>2. first \in [1 .. 7 -> S]
    BY <2>1
  <2>3. QED
    BY <2>1, <2>2, SeqDef
<1>4. last \in Seq(S)
  <2> HIDE DEF first
  <2>1. <<reqn("mla_g", m.n_heads * m.v_head * m.hidden)>> \in Seq(S) /\ <<>> \in Seq(S)
    OBVIOUS
  <2>2. QED
    BY <2>1
<1>5. m.mla_out_gate => Asks(last, "mla_g")
  <2>1. ASSUME m.mla_out_gate PROVE DOMAIN last = 1 .. 1 /\ last[1].name = "mla_g"
    BY <2>1 DEF reqn, req
  <2> HIDE DEF last
  <2>2. QED
    BY <2>1 DEF Asks
<1> HIDE DEF first, last, S
<1>6. \A name \in {"q_a", "q_a_norm", "q_b", "kv_a", "kv_a_norm", "kv_b", "mla_o"} : Asks(first, name)
  BY <1>2, <1>3 DEF Asks
<1>7. \A name : Asks(first, name) \/ Asks(last, name) => Asks(first \o last, name)
  BY <1>3, <1>4, AsksJoined
<1>8. QED
  BY <1>1, <1>5, <1>6, <1>7 DEF MlaNames

LEMMA LayerAsks ==
    ASSUME NEW m, Sized(m), NEW n
    PROVE  \A name \in NormNames \cup AttnNames(m, n) \cup MlpNames(m, n) : Asks(plan_layer(m, n), name)
<1> DEFINE a == Norms(m)
           b == IF is_mla(m, n) THEN Mla(m) ELSE Kda(m)
           d == IF is_dense(m, n) THEN Dense(m) ELSE Moe(m)
<1>1. a \in Seq(Planned) /\ b \in Seq(Planned) /\ d \in Seq(Planned)
  BY NormsArePlan, MlaIsPlan, KdaIsPlan, DenseIsPlan, MoeIsPlan
<1>2. plan_layer(m, n) = (a \o b) \o d
  BY DEF plan_layer
<1>3. \A name \in NormNames : Asks(a, name)
  BY NormsAsks
<1>4. \A name \in AttnNames(m, n) : Asks(b, name)
  BY MlaAsks, KdaAsks DEF AttnNames
<1>5. \A name \in MlpNames(m, n) : Asks(d, name)
  BY DenseAsks, MoeAsks DEF MlpNames
<1> HIDE DEF a, b, d
<1>6. a \o b \in Seq(Planned)
  BY <1>1, Joined
<1>7. \A name : Asks(a, name) \/ Asks(b, name) => Asks(a \o b, name)
  BY <1>1, AsksJoined
<1>8. \A name : Asks(a \o b, name) \/ Asks(d, name) => Asks((a \o b) \o d, name)
  BY <1>1, <1>6, AsksJoined
<1>9. QED
  BY <1>2, <1>3, <1>4, <1>5, <1>7, <1>8

TopNames == {"norm", "out_res_norm", "out_res_proj"}

LEMMA ModelAsks ==
    ASSUME NEW m, Sized(m), NEW both \in BOOLEAN
    PROVE  \A name \in TopNames \cup (IF both THEN {"embed", "lm_head"} ELSE {}) :
              Asks(plan_model(m, both, both), name)
<1> DEFINE a == IF both THEN <<reqn("embed", m.vocab * m.hidden)>> ELSE <<>>
           b == <<reqw("norm", m.hidden), reqw("out_res_norm", m.hidden), reqw("out_res_proj", m.hidden)>>
           d == IF both THEN <<reqn("lm_head", m.vocab * m.hidden)>> ELSE <<>>
           S == {reqn("embed", m.vocab * m.hidden), reqn("lm_head", m.vocab * m.hidden),
                 reqw("norm", m.hidden), reqw("out_res_norm", m.hidden), reqw("out_res_proj", m.hidden)}
<1>1. plan_model(m, both, both) = (a \o b) \o d
  BY DEF plan_model
<1>2. a \in Seq(S) /\ b \in Seq(S) /\ d \in Seq(S)
  <2>1. /\ <<reqn("embed", m.vocab * m.hidden)>> \in Seq(S)
        /\ <<reqn("lm_head", m.vocab * m.hidden)>> \in Seq(S)
        /\ <<reqw("norm", m.hidden), reqw("out_res_norm", m.hidden), reqw("out_res_proj", m.hidden)>> \in Seq(S)
        /\ <<>> \in Seq(S)
    OBVIOUS
  <2> HIDE DEF S
  <2>2. QED
    BY <2>1
<1>3. \A name \in TopNames : Asks(b, name)
  <2>1. DOMAIN b = 1 .. 3 /\ b[1].name = "norm" /\ b[2].name = "out_res_norm" /\ b[3].name = "out_res_proj"
    BY DEF reqw, req
  <2> HIDE DEF b
  <2>2. QED
    BY <2>1 DEF Asks, TopNames
<1>4. both => Asks(a, "embed") /\ Asks(d, "lm_head")
  <2>1. ASSUME both PROVE /\ DOMAIN a = 1 .. 1 /\ a[1].name = "embed"
                          /\ DOMAIN d = 1 .. 1 /\ d[1].name = "lm_head"
    BY <2>1 DEF reqn, req
  <2> HIDE DEF a, d
  <2>2. QED
    BY <2>1 DEF Asks
<1> HIDE DEF a, b, d, S
<1>5. a \o b \in Seq(S)
  BY <1>2, Joined
<1>6. \A name : Asks(a, name) \/ Asks(b, name) => Asks(a \o b, name)
  BY <1>2, AsksJoined
<1>7. \A name : Asks(a \o b, name) \/ Asks(d, name) => Asks((a \o b) \o d, name)
  BY <1>2, <1>5, AsksJoined
<1>8. QED
  BY <1>1, <1>3, <1>4, <1>6, <1>7

-----------------------------------------------------------------------------
(* What the engine is given: its config is the one its checkpoint was       *)
(* trained with, as far as the start of the process can tell by binding,    *)
(* and its pack is even.                                                    *)

Starts(j, m) ==
    /\ ~j.opts.trunk =>
          \A n \in 0 .. LayersTo(j, m) - 1 : bind_resident(j.store[n], plan_layer(m, n)).ok
    /\ bind_resident(j.store[m.n_layers], plan_model(m, ~j.opts.ultra, ~j.opts.ultra)).ok
Described ==
    \A j \in Jobs : Exact(j) /\ k3_cfg_load(j.doc).ok /\ Starts(j, k3_cfg_load(j.doc).c)
                      => k3_cfg_load(j.doc).c = j.meant
Uniform ==
    \A j \in Jobs : Exact(j) /\ j.opts.trunk =>
        \A n \in 0 .. j.meant.n_layers - 1 : Even(j.store[n])

(* What is known of the model that is meant.                                *)
Fitting(j) ==
    /\ c = Meant(j) /\ NL = Depth(j) /\ Depth(j) \in 1 .. c.n_layers /\ c.n_layers \in Nat
    /\ Sized(c) /\ c.conv_k \in Nat \ {0} /\ Chooses(c)
    /\ c.vocab \in Nat \ {0} /\ c.attn_res_block \in Nat \ {0}

LEMMA MeantIs ==
    ASSUME IInv, Described, pc \in Serves, Exact(job)
    PROVE  Fitting(job)
<1>1. job \in Jobs /\ cfg.ok /\ cfg = k3_cfg_load(job.doc)
  BY DEF IInv, Ranges, Loaded, Serves, InPass
<1>2. /\ Sized(c) /\ c.n_layers \in Nat \ {0} /\ c.attn_res_block \in Nat \ {0}
      /\ NL \in 1 .. c.n_layers /\ c.vocab > 0
  BY <1>1, ConfigIs
<1>3. k3_cfg_load(job.doc).c = c
  BY <1>1 DEF c
<1>4. NL = LayersTo(job, c)
  BY DEF NL, LayersTo, opts
<1>5. Starts(job, c)
  <2>1. /\ \A n \in 0 .. NL - 1 : lay[n] = BoundAs(n) \/ (opts.trunk /\ lay[n] = Refused)
        /\ ~opts.trunk => \A n \in 0 .. NL - 1 : lay[n].ok
        /\ mb = OfModel /\ mb.ok
    BY DEF IInv, Bound, Serves
  <2>2. bind_resident(store[c.n_layers], plan_model(c, ~opts.ultra, ~opts.ultra)).ok
    BY <2>1 DEF OfModel, ModelLevel
  <2>3. ~opts.trunk => \A n \in 0 .. NL - 1 : bind_resident(store[n], plan_layer(c, n)).ok
    BY <2>1 DEF BoundAs
  <2>4. QED
    BY <1>4, <2>2, <2>3 DEF Starts, opts, store
<1>6. c = Meant(job)
  BY <1>1, <1>3, <1>5 DEF Described, Meant
<1>7. NL = Depth(job)
  BY <1>6 DEF NL, Depth, opts
<1>8. Describes(c)
  <2>1. ~(Refused.ok)
    BY DEF Refused
  <2>2. k3_cfg_load(job.doc) = [ok |-> TRUE, c |-> Read(job.doc)] /\ Describes(Read(job.doc))
    BY <1>1, <2>1 DEF k3_cfg_load
  <2>3. QED
    BY <1>1, <2>2 DEF c
<1>9. c.topk \in Nat /\ c.n_experts \in Nat /\ c.conv_k \in Nat /\ c.vocab \in Nat
  BY <1>2, SizesAre
<1>10. c.topk <= c.n_experts /\ c.conv_k >= 1
  BY <1>8 DEF Describes
<1>11. Chooses(c)
  BY <1>9, <1>10 DEF Chooses
<1>12. QED
  BY <1>2, <1>6, <1>7, <1>9, <1>10, <1>11 DEF Fitting

(* The loan that a layer computes with is its own.                          *)
Lends == pc \in {"attention", "mlp"} /\ opts.trunk => src_bytes = L

LEMMA GotIs ==
    ASSUME IInv, Described, Uniform, Lends, pc \in {"attention", "mlp"}, Exact(job)
    PROVE  Alike(Got(L), Weights(job, L), NormNames \cup AttnNames(c, L) \cup MlpNames(c, L))
<1>1. Fitting(job)
  BY MeantIs DEF Serves, InPass
<1>2. Sized(c) /\ NL \in 1 .. c.n_layers /\ c.n_layers \in Nat /\ cfg.ok /\ job \in Jobs /\ c = Meant(job)
  BY <1>1 DEF Fitting, IInv, Ranges, Loaded
<1>3. L \in Nat /\ L < NL
  BY <1>2 DEF IInv, Ranges, Walks, Midway
<1>4. L \in 0 .. NL - 1 /\ L \in 0 .. Meant(job).n_layers - 1
  BY <1>2, <1>3
<1>5. lay[L].ok /\ (lay[L] = BoundAs(L) \/ lay[L] = Refused)
  BY <1>4 DEF IInv, Bound, Serves, InPass
<1>6. lay[L] = BoundAs(L)
  BY <1>5 DEF Refused
<1>7. plan_layer(c, L) \in Seq(Planned)
  BY <1>2, LayerIsPlan
<1> DEFINE names == NormNames \cup AttnNames(c, L) \cup MlpNames(c, L)
<1>8. ASSUME NEW name \in names PROVE Serving(lay[L], store[L], name)
  <2>1. Asks(plan_layer(c, L), name)
    BY <1>2, LayerAsks
  <2>2. CASE opts.trunk
    <3>1. Even(store[L])
      BY <1>2, <1>4, <2>2 DEF Uniform, opts, store, Meant
    <3>2. lay[L] = bind_layer_mem(c, L, store[L])
      BY <1>6, <2>2 DEF BoundAs
    <3>3. QED
      BY <1>5, <1>7, <2>1, <3>1, <3>2, PackedServes
  <2>3. CASE ~opts.trunk
    <3>1. lay[L] = bind_resident(store[L], plan_layer(c, L))
      BY <1>6, <2>3 DEF BoundAs
    <3>2. QED
      BY <1>5, <1>7, <2>1, <3>1, ResidentServes
  <2>4. QED
    BY <2>2, <2>3
<1>9. (IF opts.trunk THEN src_bytes ELSE L) = L
  BY DEF Lends
<1> HIDE DEF names
<1>10. ASSUME NEW name \in names PROVE Got(L)[name] = Weights(job, L)[name]
  <2>1. /\ name \in DOMAIN store[L] /\ name \in DOMAIN lay[L].dest
        /\ lay[L].dest[name].from = store[L][name].dt /\ ReadRight(lay[L], name)
    BY <1>8 DEF Serving
  <2>2. Got(L)[name] = OnDisk(L, name, store[L][name].dt)
    BY <1>9, <2>1 DEF Got
  <2>3. Weights(job, L)[name] = OnDisk(L, name, store[L][name].dt)
    BY <2>1 DEF Weights, store
  <2>4. QED
    BY <2>2, <2>3
<1>11. QED
  BY <1>10 DEF Alike, names

(* The weights of the model level, those that are streamed with them.       *)
EmbedOf == IF opts.ultra THEN Weight(ModelLevel, "embed") ELSE GotOfModel.embed
HeadOf == IF opts.ultra THEN Weight(ModelLevel, "lm_head") ELSE GotOfModel.lm_head

LEMMA TopIs ==
    ASSUME IInv, Described, pc \in Serves, Exact(job)
    PROVE  /\ Alike(GotOfModel, Weights(job, Meant(job).n_layers), TopNames)
           /\ EmbedOf = Weights(job, Meant(job).n_layers).embed
           /\ HeadOf = Weights(job, Meant(job).n_layers).lm_head
<1>1. Fitting(job)
  BY MeantIs
<1>2. Sized(c) /\ c = Meant(job) /\ ModelLevel = Meant(job).n_layers /\ opts.ultra \in BOOLEAN
  <2>1. job \in Jobs
    BY DEF IInv, Ranges
  <2>2. opts \in Options
    BY <2>1, JobsAssumption DEF opts
  <2>3. QED
    BY <1>1, <2>2 DEF Fitting, ModelLevel, Options
<1> DEFINE n == Meant(job).n_layers
           both == ~opts.ultra
           W == Weights(job, n)
<1>3. mb = bind_resident(store[n], plan_model(c, both, both)) /\ mb.ok
      /\ (opts.ultra => stream_init(c, store[n]))
  BY <1>2 DEF IInv, Bound, OfModel
<1>4. plan_model(c, both, both) \in Seq(Planned)
  BY <1>2, ModelIsPlan
<1>5. \A name : Asks(plan_model(c, both, both), name) => Serving(mb, store[n], name)
  BY <1>3, <1>4, ResidentServes
<1>6. \A name : Serving(mb, store[n], name) => GotOfModel[name] = W[name]
  <2>1. ASSUME NEW name, Serving(mb, store[n], name) PROVE GotOfModel[name] = W[name]
    <3>1. /\ name \in DOMAIN store[n] /\ name \in DOMAIN mb.dest
          /\ mb.dest[name].from = store[n][name].dt /\ ReadRight(mb, name)
      BY <2>1 DEF Serving
    <3>2. GotOfModel[name] = OnDisk(n, name, store[n][name].dt)
      BY <1>2, <3>1 DEF GotOfModel
    <3>3. W[name] = OnDisk(n, name, store[n][name].dt)
      BY <3>1 DEF Weights, store
    <3>4. QED
      BY <3>2, <3>3
  <2>2. QED
    BY <2>1
<1>7. \A name \in TopNames \cup (IF both THEN {"embed", "lm_head"} ELSE {}) :
         Asks(plan_model(c, both, both), name)
  BY <1>2, ModelAsks
<1>8. Alike(GotOfModel, W, TopNames)
  BY <1>5, <1>6, <1>7 DEF Alike
<1>9. EmbedOf = W["embed"] /\ HeadOf = W["lm_head"]
  <2>1. CASE ~opts.ultra
    <3>1. GotOfModel["embed"] = W["embed"] /\ GotOfModel["lm_head"] = W["lm_head"]
      BY <1>5, <1>6, <1>7, <2>1
    <3>2. QED
      BY <2>1, <3>1 DEF EmbedOf, HeadOf
  <2>2. CASE opts.ultra
    <3>1. model_matrix(c, store[n], "embed") /\ model_matrix(c, store[n], "lm_head")
      BY <1>3, <2>2 DEF stream_init
    <3>2. ASSUME NEW name \in {"embed", "lm_head"} PROVE W[name] = Weight(n, name)
      <4>1. name \in DOMAIN store[n] /\ store[n][name].dt \in {"BF16", "F32"}
        BY <3>1 DEF model_matrix
      <4>2. W[name] = OnDisk(n, name, store[n][name].dt)
        BY <4>1 DEF Weights, store
      <4>3. QED
        BY <4>1, <4>2 DEF OnDisk
    <3>3. QED
      BY <1>2, <2>2, <3>2 DEF EmbedOf, HeadOf
  <2>3. QED
    BY <2>1, <2>2
<1>10. QED
  BY <1>8, <1>9

-----------------------------------------------------------------------------
(* The positions of a pass in the arrays of the engine: n of them, behind b *)
(* positions of the text, with residuals X and snapshots B.                 *)

Slot(c1, t, k) == (t - 1) * maxb(c1) + k - 1
Shelved(c1, br1, nb1, n, b, B) ==
    \A t \in 1 .. n : \A k \in 1 .. nb1 : br1[Slot(c1, t, k)] = B[b + t][k]
Held(c1, br1, nb1, h1, n, b, X, B) ==
    /\ IsSeq(h1, n) /\ DOMAIN br1 = 0 .. n * maxb(c1) - 1
    /\ \A t \in 1 .. n : h1[t] = X[b + t] /\ IsSeq(B[b + t], nb1)
    /\ Shelved(c1, br1, nb1, n, b, B)

LEMMA SourcesAre ==
    ASSUME NEW c1, NEW br1, NEW nb1, NEW h1, NEW n, NEW b, NEW X, NEW B,
           Held(c1, br1, nb1, h1, n, b, X, B), NEW t \in 1 .. n, NEW x
    PROVE  Sources(c1, br1, nb1, t, x) = Append(B[b + t], x)
<1> DEFINE F == [k \in 1 .. nb1 |-> br1[(t - 1) * maxb(c1) + k - 1]]
           G == B[b + t]
<1>1. IsSeq(G, nb1)
  BY DEF Held
<1>2. \A k \in 1 .. nb1 : br1[Slot(c1, t, k)] = G[k]
  BY DEF Held, Shelved
<1>3. IsSeq(F, nb1)
  BY <1>1 DEF IsSeq
<1>4. \A k \in 1 .. nb1 : F[k] = G[k]
  BY <1>2 DEF Slot
<1>5. Sources(c1, br1, nb1, t, x) = F \o <<x>>
  BY DEF Sources
<1> HIDE DEF F, G
<1>6. F = G
  BY <1>1, <1>3, <1>4, SeqSame
<1>7. IsSeq(<<x>>, 1) /\ <<x>>[1] = x
  BY SeqOne
<1>8. Joins(G \o <<x>>, G, nb1, <<x>>, 1)
  BY <1>1, <1>7, SeqJoin
<1>9. Extends(Append(G, x), G, nb1, x)
  BY <1>1, SeqAppend
<1>10. nb1 \in Nat
  BY <1>1 DEF IsSeq
<1>11. IsSeq(G \o <<x>>, nb1 + 1) /\ (\A k \in 1 .. nb1 : (G \o <<x>>)[k] = G[k]) /\ (G \o <<x>>)[nb1 + 1] = x
  <2>1. IsSeq(G \o <<x>>, nb1 + 1) /\ (\A k \in 1 .. nb1 : (G \o <<x>>)[k] = G[k])
    BY <1>8 DEF Joins
  <2>2. \A k \in 1 .. 1 : (G \o <<x>>)[nb1 + k] = <<x>>[k]
    BY <1>8 DEF Joins
  <2>3. 1 \in 1 .. 1
    OBVIOUS
  <2>4. (G \o <<x>>)[nb1 + 1] = <<x>>[1]
    BY <2>2, <2>3
  <2>5. QED
    BY <1>7, <2>1, <2>4
<1>12. IsSeq(Append(G, x), nb1 + 1) /\ (\A k \in 1 .. nb1 : Append(G, x)[k] = G[k]) /\ Append(G, x)[nb1 + 1] = x
  BY <1>9 DEF Extends
<1>13. \A k \in 1 .. nb1 + 1 : (G \o <<x>>)[k] = Append(G, x)[k]
  <2>1. \A k \in 1 .. nb1 + 1 : k \in 1 .. nb1 \/ k = nb1 + 1
    BY <1>10
  <2>2. QED
    BY <1>11, <1>12, <2>1
<1>14. G \o <<x>> = Append(G, x)
  BY <1>11, <1>12, <1>13, SeqSame
<1>15. QED
  BY <1>5, <1>6, <1>14 DEF G

Sums(a, n, b, X, B, fold, c1) ==
    IsSeq(a, n) /\ \A t \in 1 .. n : a[t] = attn_res(Append(B[b + t], X[b + t]), fold, c1)

LEMMA AggregatedIs ==
    ASSUME NEW c1, NEW br1, NEW nb1, NEW h1, NEW n, NEW b, NEW X, NEW B, NEW fold,
           Held(c1, br1, nb1, h1, n, b, X, B)
    PROVE  Sums(Aggregated(c1, br1, nb1, h1, fold), n, b, X, B, fold, c1)
<1>1. IsSeq(h1, n) /\ \A t \in 1 .. n : h1[t] = X[b + t]
  BY DEF Held
<1>2. DOMAIN h1 = 1 .. n /\ n \in Nat
  BY <1>1 DEF IsSeq
<1>3. Aggregated(c1, br1, nb1, h1, fold)
        = [t \in 1 .. n |-> attn_res(Sources(c1, br1, nb1, t, h1[t]), fold, c1)]
  BY <1>2 DEF Aggregated, Table
<1>4. \A t \in 1 .. n : \A x : Sources(c1, br1, nb1, t, x) = Append(B[b + t], x)
  BY SourcesAre
<1>5. QED
  BY <1>1, <1>2, <1>3, <1>4 DEF IsSeq, Sums

LEMMA SlotsApart ==
    ASSUME NEW M \in Nat \ {0}, NEW t \in Nat \ {0}, NEW s \in Nat \ {0}, NEW k \in 1 .. M, NEW l \in 1 .. M,
           (t - 1) * M + k - 1 = (s - 1) * M + l - 1
    PROVE  t = s /\ k = l
<1> DEFINE a == t - 1
           b == s - 1
           p == k - 1
           q == l - 1
<1>1. a \in Nat /\ b \in Nat /\ p \in 0 .. M - 1 /\ q \in 0 .. M - 1 /\ a * M \in Nat /\ b * M \in Nat
  OBVIOUS
<1>2. a * M + p = b * M + q
  <2> DEFINE x == a * M
             y == b * M
  <2>1. x + k - 1 = y + l - 1 /\ x \in Nat /\ y \in Nat
    BY <1>1
  <2> HIDE DEF x, y
  <2>2. x + p = y + q
    BY <2>1
  <2>3. QED
    BY <2>2 DEF x, y
<1> HIDE DEF a, b, p, q
<1>3. (a * M + p) \div M = a /\ (a * M + p) % M = p
  BY <1>1, Divides
<1>4. (b * M + q) \div M = b /\ (b * M + q) % M = q
  BY <1>1, Divides
<1>5. a = b /\ p = q
  BY <1>2, <1>3, <1>4
<1>6. QED
  BY <1>5 DEF a, b, p, q

(* No two snapshots share a slot. *)
LEMMA OwnSlot ==
    ASSUME NEW c1, maxb(c1) \in Nat \ {0}, NEW t \in Nat \ {0}, NEW s \in Nat \ {0},
           NEW k \in 1 .. maxb(c1), NEW l \in 1 .. maxb(c1), Slot(c1, t, k) = Slot(c1, s, l)
    PROVE  t = s /\ k = l
BY SlotsApart DEF Slot

LEMMA SlotIn ==
    ASSUME NEW M \in Nat \ {0}, NEW n \in Nat, NEW t \in 1 .. n, NEW k \in 1 .. M
    PROVE  (t - 1) * M + k - 1 \in 0 .. n * M - 1
<1> DEFINE a == t - 1
<1>1. a \in Nat /\ a + 1 <= n /\ a + 1 \in Nat
  OBVIOUS
<1> HIDE DEF a
<1>2. a * M \in Nat /\ n * M \in Nat /\ (a + 1) * M = a * M + M
  BY <1>1
<1>3. (a + 1) * M <= n * M
  BY <1>1, Scales
<1> DEFINE x == a * M
           y == n * M
<1>4. x \in Nat /\ y \in Nat /\ x + M <= y
  BY <1>2, <1>3
<1> HIDE DEF x, y
<1>5. x + k - 1 \in 0 .. y - 1
  BY <1>4
<1>6. QED
  BY <1>5 DEF x, y, a

(* At a block boundary the residuals join the snapshots.                    *)
Snapped(h2, n, b, X, B, Y, C) ==
    \A t \in 1 .. n : h2[t] = Y[b + t] /\ C[b + t] = Append(B[b + t], X[b + t])
LEMMA SnapshotsHeld ==
    ASSUME NEW c1, maxb(c1) \in Nat \ {0}, NEW br1, NEW nb1 \in 0 .. maxb(c1) - 1, NEW h1, NEW n, NEW b,
           NEW X, NEW B, Held(c1, br1, nb1, h1, n, b, X, B),
           NEW h2, NEW Y, NEW C, IsSeq(h2, n), Snapped(h2, n, b, X, B, Y, C)
    PROVE  Held(c1, Snapshots(c1, br1, nb1, h1), nb1 + 1, h2, n, b, Y, C)
<1> DEFINE M == maxb(c1)
           at(t) == (t - 1) * M + nb1
           S == Snapshots(c1, br1, nb1, h1)
<1>1. /\ IsSeq(h1, n) /\ DOMAIN br1 = 0 .. n * M - 1
      /\ \A t \in 1 .. n : h1[t] = X[b + t] /\ IsSeq(B[b + t], nb1)
      /\ Shelved(c1, br1, nb1, n, b, B)
  BY DEF Held
<1>2. n \in Nat /\ DOMAIN h1 = 1 .. n
  BY <1>1 DEF IsSeq
<1>3. S = [i \in 0 .. n * M - 1 |->
            IF \E t \in 1 .. n : i = at(t) THEN h1[CHOOSE t \in 1 .. n : i = at(t)] ELSE br1[i]]
  BY <1>1, <1>2 DEF Snapshots
<1>0. \A t \in 1 .. n : h2[t] = Y[b + t] /\ C[b + t] = Append(B[b + t], X[b + t])
  BY DEF Snapped
<1>4. ASSUME NEW t \in 1 .. n
      PROVE  Extends(C[b + t], B[b + t], nb1, X[b + t])
  BY <1>0, <1>1, SeqAppend
<1>5. ASSUME NEW t \in 1 .. n, NEW k \in 1 .. nb1 + 1
      PROVE  S[Slot(c1, t, k)] = C[b + t][k]
  <2> DEFINE i == Slot(c1, t, k)
  <2>0. k \in 1 .. M /\ nb1 + 1 \in 1 .. M /\ nb1 \in Nat
    OBVIOUS
  <2>1. i \in 0 .. n * M - 1
    BY <1>2, <2>0, SlotIn DEF Slot
  <2>2. ASSUME NEW s \in 1 .. n PROVE i = at(s) <=> s = t /\ k = nb1 + 1
    <3>1. t \in Nat \ {0} /\ s \in Nat \ {0}
      BY <1>2
    <3>2. at(s) = (s - 1) * M + (nb1 + 1) - 1
      <4> DEFINE x == (s - 1) * M
      <4>1. x \in Int
        BY <3>1
      <4> HIDE DEF x
      <4>2. x + nb1 = x + (nb1 + 1) - 1
        BY <2>0, <4>1
      <4>3. QED
        BY <4>2 DEF x
    <3>3. i = (t - 1) * M + k - 1
      BY DEF Slot
    <3>0. M \in Nat \ {0}
      OBVIOUS
    <3> DEFINE l == nb1 + 1
    <3>4. l \in 1 .. M /\ k \in 1 .. M
      BY <2>0
    <3> HIDE DEF i, at, M, l
    <3>5. at(s) = Slot(c1, s, l)
      BY <3>2 DEF Slot, l, M
    <3>6. ASSUME i = at(s) PROVE t = s /\ k = l
      BY <3>0, <3>1, <3>4, <3>5, <3>6, OwnSlot DEF M, i
    <3>7. i = at(s) => t = s /\ k = nb1 + 1
      BY <3>6 DEF l
    <3>8. QED
      BY <3>2, <3>3, <3>7
  <2> HIDE DEF i, at, M, S
  <2>3. CASE k = nb1 + 1
    <3>1. (\E s \in 1 .. n : i = at(s)) /\ (CHOOSE s \in 1 .. n : i = at(s)) = t
      BY <2>2, <2>3
    <3>2. S[i] = h1[t]
      BY <1>3, <2>1, <3>1
    <3>3. C[b + t][k] = X[b + t]
      BY <1>4, <2>3 DEF Extends
    <3>4. QED
      BY <1>1, <3>2, <3>3 DEF i
  <2>4. CASE k # nb1 + 1
    <3>1. ~\E s \in 1 .. n : i = at(s)
      BY <2>2, <2>4
    <3>2. S[i] = br1[i]
      BY <1>3, <2>1, <3>1
    <3>3. k \in 1 .. nb1
      BY <2>0, <2>4
    <3>4. br1[i] = B[b + t][k]
      BY <1>1, <3>3 DEF Shelved, i
    <3>5. C[b + t][k] = B[b + t][k]
      BY <1>4, <3>3 DEF Extends
    <3>6. QED
      BY <3>2, <3>4, <3>5 DEF i
  <2>5. QED
    BY <2>3, <2>4
<1> HIDE DEF S
<1>6. Shelved(c1, S, nb1 + 1, n, b, C)
  BY <1>5 DEF Shelved
<1>7. DOMAIN S = 0 .. n * M - 1
  BY <1>3
<1>8. \A t \in 1 .. n : IsSeq(C[b + t], nb1 + 1)
  BY <1>4 DEF Extends
<1>9. QED
  BY <1>0, <1>6, <1>7, <1>8 DEF Held, S

-----------------------------------------------------------------------------
(* The dense numbers of the attention layers.                               *)
LEMMA MlaSlots ==
    ASSUME NEW N \in Nat, NEW n \in 0 .. N - 1, is_mla(c, n)
    PROVE  /\ mla_slot(n) \in 0 .. mla_slot(N) - 1
           /\ \A k \in 0 .. N - 1 : is_mla(c, k) /\ k # n => mla_slot(k) # mla_slot(n)
<1> DEFINE S(k) == {i \in 0 .. k - 1 : is_mla(c, i)}
<1>1. ASSUME NEW k \in 0 .. N PROVE IsFiniteSet(S(k)) /\ Cardinality(S(k)) \in Nat
  <2>1. IsFiniteSet(0 .. k - 1)
    BY FS_Interval
  <2>2. S(k) \subseteq 0 .. k - 1
    OBVIOUS
  <2> HIDE DEF S
  <2>3. QED
    BY <2>1, <2>2, FS_Subset, FS_CardinalityType
<1>2. ASSUME NEW k \in 0 .. N - 1, NEW l \in 0 .. N, k < l, is_mla(c, k)
      PROVE  Cardinality(S(k)) < Cardinality(S(l))
  <2>1. IsFiniteSet(S(k)) /\ Cardinality(S(k)) \in Nat /\ IsFiniteSet(S(l)) /\ Cardinality(S(l)) \in Nat
    <3>1. k \in 0 .. N
      OBVIOUS
    <3>2. QED
      BY <1>1, <3>1
  <2>2. k \notin S(k) /\ S(k) \cup {k} \subseteq S(l)
    BY <1>2
  <2> HIDE DEF S
  <2>3. IsFiniteSet(S(k) \cup {k}) /\ Cardinality(S(k) \cup {k}) = Cardinality(S(k)) + 1
    BY <2>1, <2>2, FS_AddElement
  <2>4. Cardinality(S(k) \cup {k}) <= Cardinality(S(l))
    BY <2>1, <2>2, <2>3, FS_Subset
  <2>5. QED
    BY <2>1, <2>3, <2>4
<1>3. \A k : mla_slot(k) = Cardinality(S(k))
  BY DEF mla_slot
<1>4. \A k \in 0 .. N : Cardinality(S(k)) \in Nat
  BY <1>1
<1> HIDE DEF S
<1>5. mla_slot(n) \in 0 .. mla_slot(N) - 1
  <2>1. n \in 0 .. N /\ N \in 0 .. N /\ n < N
    OBVIOUS
  <2>2. Cardinality(S(n)) < Cardinality(S(N)) /\ Cardinality(S(n)) \in Nat /\ Cardinality(S(N)) \in Nat
    BY <1>2, <1>4, <2>1
  <2>3. QED
    BY <1>3, <2>2
<1>6. ASSUME NEW k \in 0 .. N - 1, is_mla(c, k), k # n PROVE mla_slot(k) # mla_slot(n)
  <2>1. k \in 0 .. N /\ n \in 0 .. N /\ (k < n \/ n < k)
    BY <1>6
  <2>2. Cardinality(S(k)) \in Nat /\ Cardinality(S(n)) \in Nat
    BY <1>4, <2>1
  <2>3. Cardinality(S(k)) # Cardinality(S(n))
    BY <1>2, <1>6, <2>1, <2>2
  <2>4. QED
    BY <1>3, <2>3
<1>7. QED
  BY <1>5, <1>6

-----------------------------------------------------------------------------
(* A layer, over the positions of a pass: what it is given, what it mixes,  *)
(* what it feeds on and what it puts out.  m is the job, i the layer, R     *)
(* what there is before it of the whole text.                               *)
LEMMA FullIs ==
    ASSUME NEW c1, NEW i
    PROVE  Model!IsFull(c1, i) <=> is_mla(c1, i)
BY DEF Model!IsFull, is_mla

(* Positions b + 1 to b + n of a text of b + n. *)
Behind(xs, X, b, n) == IsSeq(xs, n) /\ \A t \in 1 .. n : xs[t] = X[b + t]

Seen(c1, br1, nb1, h1, w) ==
    IF nb1 > 0 THEN Aggregated(c1, br1, nb1, h1, fold_attn(w)) ELSE h1
Normed(h1, seen, gain, c1) == Table([t \in DOMAIN h1 |-> rmsnorm(seen[t], gain, c1)])

LEMMA GivenHeld ==
    ASSUME NEW m, NEW i, NEW R, NEW N, NEW k, Blocked(R, N, k),
           NEW br1, NEW nb1, NEW h1, NEW n, NEW b \in Nat, b + n = N,
           Held(Meant(m), br1, nb1, h1, n, b, R.x, R.blocks),
           NEW u, Alike(u, Weights(m, i), NormNames)
    PROVE  Behind(Normed(h1, Seen(Meant(m), br1, nb1, h1, u), u.in_norm, Meant(m)),
                  GivenOf(m, i, R), b, n)
<1> DEFINE c1 == Meant(m)
           w == Weights(m, i)
           seen == Seen(c1, br1, nb1, h1, u)
<1>1. u.in_norm = w.in_norm /\ fold_attn(u) = fold_attn(w)
  <2>1. u["in_norm"] = w["in_norm"] /\ u["attn_res_norm"] = w["attn_res_norm"]
        /\ u["attn_res_proj"] = w["attn_res_proj"]
    BY DEF Alike, NormNames
  <2>2. QED
    BY <2>1 DEF fold_attn
<1>2. IsSeq(h1, n) /\ \A t \in 1 .. n : h1[t] = R.x[b + t] /\ IsSeq(R.blocks[b + t], nb1)
  BY DEF Held
<1>3. DOMAIN h1 = 1 .. n /\ n \in Nat
  BY <1>2 DEF IsSeq
<1>4. N \in Nat /\ DOMAIN R.x = 1 .. N
  BY DEF Blocked, IsSeq
<1>5. ASSUME NEW t \in 1 .. n
      PROVE  seen[t] = SeesAt(c1, w, R.blocks[b + t], R.x[b + t])
  <2>1. IsSeq(R.blocks[b + t], nb1) /\ h1[t] = R.x[b + t]
    BY <1>2
  <2>2. nb1 \in Nat /\ (R.blocks[b + t] = <<>> <=> nb1 = 0)
    <3>1. nb1 \in Nat
      BY <2>1 DEF IsSeq
    <3>2. nb1 = 0 => R.blocks[b + t] = <<>>
      BY <2>1, SeqNone
    <3>3. R.blocks[b + t] = <<>> => nb1 = 0
      <4>1. ASSUME R.blocks[b + t] = <<>> PROVE nb1 = 0
        <5>1. IsSeq(<<>>, nb1)
          BY <2>1, <4>1
        <5>2. Len(<<>>) = nb1
          BY <5>1, SeqIs
        <5>3. QED
          BY <5>2, EmptySeq
      <4>2. QED
        BY <4>1
    <3>4. QED
      BY <3>1, <3>2, <3>3
  <2>3. CASE nb1 > 0
    <3>1. Sums(Aggregated(c1, br1, nb1, h1, fold_attn(u)), n, b, R.x, R.blocks, fold_attn(u), c1)
      BY AggregatedIs
    <3>2. Aggregated(c1, br1, nb1, h1, fold_attn(u))[t]
            = attn_res(Append(R.blocks[b + t], R.x[b + t]), fold_attn(u), c1)
      BY <3>1 DEF Sums
    <3>3. R.blocks[b + t] # <<>>
      BY <2>2, <2>3
    <3>4. QED
      BY <1>1, <2>3, <3>2, <3>3 DEF SeesAt, Seen
  <2>4. CASE nb1 = 0
    <3>1. R.blocks[b + t] = <<>>
      BY <2>2, <2>4
    <3>2. QED
      BY <2>1, <2>4, <3>1 DEF SeesAt, Seen
  <2>5. QED
    BY <2>2, <2>3, <2>4
<1> HIDE DEF seen
<1> DEFINE hin == Normed(h1, seen, u.in_norm, c1)
<1>6. hin = [t \in 1 .. n |-> rmsnorm(seen[t], w.in_norm, c1)]
  BY <1>1, <1>3 DEF Normed, Table
<1>7. IsSeq(hin, n)
  BY <1>3, <1>6 DEF IsSeq
<1>8. ASSUME NEW t \in 1 .. n PROVE hin[t] = GivenOf(m, i, R)[b + t]
  <2>1. b + t \in DOMAIN R.x
    BY <1>3, <1>4
  <2>2. GivenOf(m, i, R)[b + t] = rmsnorm(SeesAt(c1, w, R.blocks[b + t], R.x[b + t]), w.in_norm, c1)
    BY <2>1 DEF GivenOf
  <2>3. QED
    BY <1>5, <1>6, <2>2
<1>9. QED
  BY <1>7, <1>8 DEF Behind, seen

(* The residuals after attention. *)
LEMMA MidHeld ==
    ASSUME NEW m, maxb(Meant(m)) \in Nat \ {0}, NEW i, NEW R, NEW N, NEW k, Blocked(R, N, k),
           NEW br1, NEW nb1 \in 0 .. maxb(Meant(m)) - 1, NEW h1, NEW n, NEW b \in Nat, b + n = N,
           Held(Meant(m), br1, nb1, h1, n, b, R.x, R.blocks),
           NEW tmp, \A t \in 1 .. n : tmp[t] = MixedOf(m, i, R)[b + t],
           NEW h2, h2 = [t \in DOMAIN h1 |-> IF Opens(m, i) THEN tmp[t] ELSE add(h1[t], tmp[t])]
    PROVE  Held(Meant(m), IF Opens(m, i) THEN Snapshots(Meant(m), br1, nb1, h1) ELSE br1,
                IF Opens(m, i) THEN nb1 + 1 ELSE nb1, h2, n, b, MidOf(m, i, R), BlocksOf(m, i, R))
<1> DEFINE c1 == Meant(m)
           Y == MidOf(m, i, R)
           C == BlocksOf(m, i, R)
<1>1. /\ IsSeq(h1, n) /\ DOMAIN br1 = 0 .. n * maxb(c1) - 1
      /\ \A t \in 1 .. n : h1[t] = R.x[b + t] /\ IsSeq(R.blocks[b + t], nb1)
      /\ Shelved(c1, br1, nb1, n, b, R.blocks)
  BY DEF Held
<1>2. DOMAIN h1 = 1 .. n /\ n \in Nat
  BY <1>1 DEF IsSeq
<1>3. N \in Nat /\ DOMAIN R.x = 1 .. N
  BY DEF Blocked, IsSeq
<1>4. \A t \in 1 .. n : b + t \in DOMAIN R.x
  BY <1>2, <1>3
<1>5. IsSeq(h2, n)
  BY <1>2 DEF IsSeq
<1>6. \A t \in 1 .. n : h2[t] = Y[b + t]
  BY <1>1, <1>2, <1>4 DEF MidOf
<1>7. \A t \in 1 .. n :
        C[b + t] = IF Opens(m, i) THEN Append(R.blocks[b + t], R.x[b + t]) ELSE R.blocks[b + t]
  BY <1>4 DEF BlocksOf
<1> HIDE DEF Y, C
<1>8. CASE Opens(m, i)
  <2>1. Snapped(h2, n, b, R.x, R.blocks, Y, C)
    BY <1>6, <1>7, <1>8 DEF Snapped
  <2>2. Held(c1, Snapshots(c1, br1, nb1, h1), nb1 + 1, h2, n, b, Y, C)
    BY <1>5, <2>1, SnapshotsHeld
  <2>3. QED
    BY <1>8, <2>2 DEF Y, C
<1>9. CASE ~Opens(m, i)
  <2>1. \A t \in 1 .. n : C[b + t] = R.blocks[b + t]
    BY <1>7, <1>9
  <2>2. Shelved(c1, br1, nb1, n, b, C)
    BY <1>1, <2>1 DEF Shelved
  <2>3. Held(c1, br1, nb1, h2, n, b, Y, C)
    BY <1>1, <1>5, <1>6, <2>1, <2>2 DEF Held
  <2>4. QED
    BY <1>9, <2>3 DEF Y, C
<1>10. QED
  BY <1>8, <1>9

(* What the second half of a layer feeds on. *)
LEMMA FedHeld ==
    ASSUME NEW m, NEW i, NEW R, NEW N, NEW k, Blocked(R, N, k),
           NEW br1, NEW nb1, NEW h1, NEW n, NEW b \in Nat, b + n = N,
           Held(Meant(m), br1, nb1, h1, n, b, MidOf(m, i, R), BlocksOf(m, i, R)),
           NEW u, Alike(u, Weights(m, i), NormNames)
    PROVE  Behind(Normed(h1, Aggregated(Meant(m), br1, nb1, h1, fold_mlp(u)), u.post_norm, Meant(m)),
                  FedOf(m, i, R), b, n)
<1> DEFINE c1 == Meant(m)
           w == Weights(m, i)
           X == MidOf(m, i, R)
           B == BlocksOf(m, i, R)
           seen == Aggregated(c1, br1, nb1, h1, fold_mlp(u))
<1>1. u.post_norm = w.post_norm /\ fold_mlp(u) = fold_mlp(w)
  <2>1. u["post_norm"] = w["post_norm"] /\ u["mlp_res_norm"] = w["mlp_res_norm"]
        /\ u["mlp_res_proj"] = w["mlp_res_proj"]
    BY DEF Alike, NormNames
  <2>2. QED
    BY <2>1 DEF fold_mlp
<1>2. IsSeq(h1, n)
  BY DEF Held
<1>3. DOMAIN h1 = 1 .. n /\ n \in Nat
  BY <1>2 DEF IsSeq
<1>4. N \in Nat /\ DOMAIN R.x = 1 .. N
  BY DEF Blocked, IsSeq
<1>5. Sums(seen, n, b, X, B, fold_mlp(u), c1)
  BY AggregatedIs
<1>6. \A t \in 1 .. n : seen[t] = attn_res(Append(B[b + t], X[b + t]), fold_mlp(w), c1)
  BY <1>1, <1>5 DEF Sums
<1> HIDE DEF seen
<1> DEFINE hin == Normed(h1, seen, u.post_norm, c1)
<1>7. hin = [t \in 1 .. n |-> rmsnorm(seen[t], w.post_norm, c1)]
  BY <1>1, <1>3 DEF Normed, Table
<1>8. IsSeq(hin, n)
  BY <1>3, <1>7 DEF IsSeq
<1>9. ASSUME NEW t \in 1 .. n PROVE hin[t] = FedOf(m, i, R)[b + t]
  <2>1. b + t \in DOMAIN R.x
    BY <1>3, <1>4
  <2>2. FedOf(m, i, R)[b + t]
          = rmsnorm(attn_res(Append(B[b + t], X[b + t]), fold_mlp(w), c1), w.post_norm, c1)
    BY <2>1 DEF FedOf
  <2>3. QED
    BY <1>6, <1>7, <2>2
<1>10. QED
  BY <1>8, <1>9 DEF Behind, seen

(* The residuals the layer leaves. *)
LEMMA StepHeld ==
    ASSUME NEW m, NEW i, NEW R, NEW N, NEW k, Blocked(R, N, k),
           NEW br1, NEW nb1, NEW h1, NEW n, NEW b \in Nat, b + n = N,
           Held(Meant(m), br1, nb1, h1, n, b, MidOf(m, i, R), BlocksOf(m, i, R)),
           NEW tmp, \A t \in 1 .. n : tmp[t] = OutOf(m, i, FedOf(m, i, R)[b + t]),
           NEW h2, h2 = [t \in DOMAIN h1 |-> add(h1[t], tmp[t])]
    PROVE  Held(Meant(m), br1, nb1, h2, n, b, StepOf(m, i, R).x, StepOf(m, i, R).blocks)
<1> DEFINE c1 == Meant(m)
           X == MidOf(m, i, R)
           B == BlocksOf(m, i, R)
           Y == StepOf(m, i, R).x
<1>1. /\ IsSeq(h1, n) /\ DOMAIN br1 = 0 .. n * maxb(c1) - 1
      /\ \A t \in 1 .. n : h1[t] = X[b + t] /\ IsSeq(B[b + t], nb1)
      /\ Shelved(c1, br1, nb1, n, b, B)
  BY DEF Held
<1>2. DOMAIN h1 = 1 .. n /\ n \in Nat
  BY <1>1 DEF IsSeq
<1>3. N \in Nat /\ DOMAIN R.x = 1 .. N
  BY DEF Blocked, IsSeq
<1>4. \A t \in 1 .. n : b + t \in DOMAIN R.x
  BY <1>2, <1>3
<1>5. IsSeq(h2, n)
  BY <1>2 DEF IsSeq
<1>6. \A t \in 1 .. n : Y[b + t] = add(X[b + t], OutOf(m, i, FedOf(m, i, R)[b + t]))
  BY <1>4 DEF StepOf
<1>7. StepOf(m, i, R).blocks = B
  BY DEF StepOf
<1> HIDE DEF X, B, Y
<1>8. \A t \in 1 .. n : h2[t] = Y[b + t]
  BY <1>1, <1>2, <1>6
<1>9. Held(c1, br1, nb1, h2, n, b, Y, B)
  BY <1>1, <1>5, <1>8 DEF Held
<1>10. QED
  BY <1>7, <1>9 DEF Y

-----------------------------------------------------------------------------
(* The room for what is carried, and how far back it can be rewound.  A     *)
(* layer computes with a loan of its own.                                   *)
Roomy ==
    /\ DOMAIN ks = 0 .. state_layers - 1
    /\ DOMAIN rows = 0 .. mla_slot(NL) - 1
    /\ \A mi \in 0 .. mla_slot(NL) - 1 : DOMAIN rows[mi] = 0 .. Tmax - 1
    /\ snap.at > 0 => DOMAIN snap.ks = 0 .. state_layers - 1
Quiet ==
    /\ pc \notin Serves \/ ~opts.incremental => cached = 0 /\ snap.at = 0
    /\ snap.at <= cached
    /\ Lends
    /\ pc \in Serves => Roomy

LEMMA RoomStill ==
    ASSUME job' = job, cfg' = cfg
    PROVE  state_layers' = state_layers /\ mla_slot(NL)' = mla_slot(NL)
<1>1. c' = c /\ opts' = opts /\ NL' = NL
  BY Still
<1>2. QED
  BY <1>1 DEF state_layers, OneState, mla_slot

LEMMA QuietKept ==
    ASSUME IInv, Quiet, [Next]_vars
    PROVE  Quiet'
<1> USE DEF process, caller, pass, carried, out, loan, Serves, InPass, Lends
<1>1. cached \in Nat /\ Len(seq) \in Nat /\ cached <= Len(seq) /\ snap.at \in Nat
  <2>1. Len(seq) \in Nat
    BY LenProperties DEF IInv, Ranges
  <2>2. Tmax \in Nat
    BY ForwardAssumption
  <2>3. QED
    BY <2>1, <2>2 DEF IInv, Ranges
<1>2. ASSUME UNCHANGED <<job, cfg>>
      PROVE  opts' = opts /\ state_layers' = state_layers /\ mla_slot(NL)' = mla_slot(NL)
  BY <1>2, RoomStill, Still
<1>3. ASSUME pc \in Serves, UNCHANGED <<job, cfg, snap, rows>>, DOMAIN ks' = DOMAIN ks
      PROVE  Roomy'
  BY <1>2, <1>3 DEF Quiet, Roomy
(* Steps that leave all of it alone.                                        *)
<1>4. ASSUME UNCHANGED <<job, cfg, cached, snap>>, pc \in Serves, pc' \in Serves, Roomy', Lends'
      PROVE  Quiet'
  BY <1>2, <1>4 DEF Quiet
<1>5. ASSUME job' = job, pc \notin Serves, pc' \notin Serves, UNCHANGED <<cached, snap>> PROVE Quiet'
  <2>1. cached = 0 /\ snap.at = 0
    BY <1>5 DEF Quiet
  <2>2. cached' = 0 /\ snap'.at = 0
    BY <1>5, <2>1
  <2>3. Lends'
    BY <1>5
  <2>4. QED
    BY <1>5, <2>2, <2>3 DEF Quiet
<1>6. CASE Loads \/ BindsLayers \/ OpensTrunk
  <2>1. pc \notin Serves /\ pc' \notin Serves /\ UNCHANGED <<job, cached, snap>>
    BY <1>6 DEF Loads, BindsLayers, OpensTrunk
  <2>2. QED
    BY ONLY <1>5, <2>1
<1>7. CASE BindsModel
  <2>1. /\ pc = "model" /\ pc' \in {"ready", "refused"} /\ UNCHANGED <<job, cfg, cached, snap>>
        /\ DOMAIN ks' = 0 .. state_layers - 1 /\ DOMAIN rows' = 0 .. mla_slot(NL) - 1
        /\ \A mi \in 0 .. mla_slot(NL) - 1 : DOMAIN rows'[mi] = 0 .. Tmax - 1
    BY <1>7 DEF BindsModel
  <2>2. cached = 0 /\ snap.at = 0
    BY <2>1 DEF Quiet
  <2>3. Roomy'
    BY <1>2, <2>1, <2>2 DEF Roomy
  <2>4. cached' = 0 /\ snap'.at = 0 /\ Lends'
    BY <2>1, <2>2
  <2>5. QED
    BY <2>3, <2>4 DEF Quiet
<1>8. ASSUME NEW new \in Feeds, NEW all \in BOOLEAN, Feed(new, all)
      PROVE  Quiet'
  <2>1. pc \in Serves /\ pc' \in {"layer", "failed"} /\ UNCHANGED <<job, cfg, cached, snap, rows>>
    BY <1>8 DEF Feed
  <2>2. DOMAIN ks' = DOMAIN ks
    BY <1>8 DEF Feed
  <2>3. QED
    BY <1>3, <1>4, <2>1, <2>2
<1>9. CASE Fetches \/ NotLent
  <2>1. /\ pc \in Serves /\ pc' \in {"fetch", "failed"}
        /\ UNCHANGED <<job, cfg, cached, snap, ks, rows>>
    BY <1>9 DEF Fetches, NotLent
  <2>2. QED
    BY <1>3, <1>4, <2>1
<1>10. CASE Lent
  <2>1. pc = "fetch" /\ pc' \in {"attention", "failed"} /\ UNCHANGED <<job, cfg, cached, snap, ks, rows, L>>
    BY <1>10 DEF Lent
  <2>2. src_bytes' = src_layer
    BY <1>10 DEF Lent, Source!Lend
  <2>3. src_layer = L
    BY <2>1 DEF IInv, Bound
  <2>4. QED
    BY <1>3, <1>4, <2>1, <2>2, <2>3
<1>11. CASE AlreadyBound
  <2>1. pc = "layer" /\ pc' = "attention" /\ ~opts.trunk /\ UNCHANGED <<job, cfg, cached, snap, ks, rows>>
    BY <1>11 DEF AlreadyBound
  <2>2. QED
    BY <1>2, <1>3, <1>4, <2>1
<1>12. CASE Attends
  <2>1. /\ pc = "attention" /\ pc' = "mlp" /\ UNCHANGED <<job, cfg, cached, snap, L, src_bytes>>
        /\ DOMAIN ks' = DOMAIN ks
    BY <1>12 DEF Attends
  <2>2. Lends'
    BY <1>2, <2>1 DEF Quiet
  <2>3. rows' = rows \/ \E w, hin, at : rows' = [rows EXCEPT ![mla_slot(L)]
                                          = mla_cached(c, w, hin, rows[mla_slot(L)], at).rows]
    <3> DEFINE w == Got(L)
               seen == IF nb > 0 THEN Aggregated(c, br, nb, h, fold_attn(w)) ELSE h
               hin == Table([t \in DOMAIN h |-> rmsnorm(seen[t], w.in_norm, c)])
               held == IF opts.incremental THEN rows[mla_slot(L)] ELSE LocalRows(hin)
               mla == mla_cached(c, w, hin, held, IF opts.incremental THEN cached ELSE 0)
    <3>1. rows' = IF is_mla(c, L) /\ opts.incremental
                  THEN [rows EXCEPT ![mla_slot(L)] = mla.rows] ELSE rows
      BY <1>12 DEF Attends
    <3>2. QED
      BY <3>1
  <2>4. \A w, hin, held, at : DOMAIN mla_cached(c, w, hin, held, at).rows = DOMAIN held
    BY DEF mla_cached, RowsWith, Table
  <2>5. /\ DOMAIN rows' = DOMAIN rows
        /\ \A mi \in 0 .. mla_slot(NL) - 1 : DOMAIN rows'[mi] = DOMAIN rows[mi]
    <3>1. CASE rows' = rows
      BY <3>1
    <3>2. ASSUME NEW w, NEW hin, NEW at, rows' = [rows EXCEPT ![mla_slot(L)]
                                          = mla_cached(c, w, hin, rows[mla_slot(L)], at).rows]
          PROVE  /\ DOMAIN rows' = DOMAIN rows
                 /\ \A mi \in 0 .. mla_slot(NL) - 1 : DOMAIN rows'[mi] = DOMAIN rows[mi]
      <4> DEFINE r == mla_cached(c, w, hin, rows[mla_slot(L)], at).rows
      <4>1. DOMAIN r = DOMAIN rows[mla_slot(L)]
        BY <2>4
      <4>2. rows' = [rows EXCEPT ![mla_slot(L)] = r]
        BY <3>2
      <4> HIDE DEF r
      <4>3. QED
        BY <2>1, <4>1, <4>2 DEF Quiet, Roomy
    <3>3. QED
      BY <2>3, <3>1, <3>2
  <2>6. Roomy'
    BY <1>2, <2>1, <2>5 DEF Quiet, Roomy
  <2>7. QED
    BY <1>4, <2>1, <2>2, <2>6
<1>13. CASE Mlp
  <2>1. /\ pc = "mlp" /\ pc' \in {"layer", "failed"} /\ UNCHANGED <<job, cfg, cached, snap, ks, rows>>
    BY <1>13 DEF Mlp
  <2>2. QED
    BY <1>3, <1>4, <2>1
<1>14. CASE Ranks
  <2>1. /\ pc = "layer" /\ pc' \in {"answered", "failed"} /\ UNCHANGED <<job, cfg, snap, ks, rows>>
        /\ cached' = cached \/ (opts.incremental /\ cached' = Len(seq))
    BY <1>14 DEF Ranks
  <2>2. Roomy'
    BY <1>3, <2>1
  <2>3. QED
    BY <1>1, <1>2, <2>1, <2>2 DEF Quiet
<1>15. CASE Draws \/ NotDrawn \/ Spills
  <2>1. /\ pc \in {"answered", "mlp"} /\ pc' \in {"ready", "failed", "astray"}
        /\ UNCHANGED <<job, cfg, cached, snap, ks, rows>>
    BY <1>15 DEF Draws, NotDrawn, Spills
  <2>2. QED
    BY <1>3, <1>4, <2>1
<1>16. CASE Snapshot
  <2>1. /\ pc \in {"ready", "answered"} /\ opts.incremental /\ snap' = [ks |-> ks, at |-> cached]
        /\ UNCHANGED <<pc, job, cfg, cached, ks, rows>>
    BY <1>16 DEF Snapshot
  <2>2. Roomy'
    BY <1>2, <2>1 DEF Quiet, Roomy
  <2>3. QED
    BY <1>1, <1>2, <2>1, <2>2 DEF Quiet
<1>17. CASE Clears
  <2>1. /\ pc \in {"ready", "answered"} /\ pc' = "ready" /\ UNCHANGED <<job, cfg>>
        /\ ks' = [n \in DOMAIN ks |-> ClearState(c)]
        /\ rows' = [mi \in DOMAIN rows |-> [p \in DOMAIN rows[mi] |-> Zero]]
        /\ cached' = 0 /\ snap' = [ks |-> <<>>, at |-> 0]
    BY <1>17 DEF Clears
  <2>2. snap'.at = 0
    BY <2>1
  <2>3. DOMAIN ks' = DOMAIN ks /\ DOMAIN rows' = DOMAIN rows
        /\ \A mi \in DOMAIN rows : DOMAIN rows'[mi] = DOMAIN rows[mi]
    BY <2>1
  <2>4. /\ DOMAIN ks = 0 .. state_layers - 1 /\ DOMAIN rows = 0 .. mla_slot(NL) - 1
        /\ \A mi \in 0 .. mla_slot(NL) - 1 : DOMAIN rows[mi] = 0 .. Tmax - 1
    BY <2>1 DEF Quiet, Roomy
  <2>5. /\ DOMAIN ks' = 0 .. state_layers - 1 /\ DOMAIN rows' = 0 .. mla_slot(NL) - 1
        /\ \A mi \in 0 .. mla_slot(NL) - 1 : DOMAIN rows'[mi] = 0 .. Tmax - 1
    BY <2>3, <2>4
  <2>6. Roomy'
    BY <1>2, <2>1, <2>2, <2>5 DEF Roomy
  <2>7. QED
    BY <2>1, <2>2, <2>6 DEF Quiet
<1>18. ASSUME NEW keep \in 1 .. Tmax, Rewinds(keep)
       PROVE  Quiet'
  <2>1. /\ pc \in {"failed", "answered"} /\ pc' = "ready" /\ opts.incremental /\ snap.at > 0
        /\ UNCHANGED <<job, cfg, snap, rows>> /\ ks' = snap.ks /\ cached' = snap.at
    BY <1>18 DEF Rewinds
  <2>2. Roomy'
    BY <1>2, <2>1 DEF Quiet, Roomy
  <2>3. QED
    BY <1>1, <1>2, <2>1, <2>2 DEF Quiet
<1>19. CASE UNCHANGED vars
  <2>1. UNCHANGED <<pc, job, cfg, cached, snap, ks, rows, L, src_bytes>>
    BY <1>19 DEF vars
  <2>2. CASE pc \in Serves
    <3>1. Lends'
      BY <1>2, <2>1 DEF Quiet
    <3>2. QED
      BY <1>3, <1>4, <2>1, <2>2, <3>1
  <2>3. CASE pc \notin Serves
    BY <1>5, <2>1, <2>3
  <2>4. QED
    BY <2>2, <2>3
<1>20. QED
  BY <1>6, <1>7, <1>8, <1>9, <1>10, <1>11, <1>12, <1>13, <1>14, <1>15, <1>16, <1>17, <1>18, <1>19
     DEF Next

-----------------------------------------------------------------------------
(* What the carried state stands for: of job j, of its layer n, that the    *)
(* first p positions of the text s have been absorbed, in k the recurrent   *)
(* states and in r the rows.                                                *)
SlotOf(j, n) == Cardinality({i \in 0 .. n - 1 : is_mla(Meant(j), i)})
Heard(j, s, n) == GivenOf(j, n, After(j, s)[n])
KdaStands(j, n, k, s, p) == k[n] = Hist(Meant(j), Weights(j, n), Heard(j, s, n), p)
MlaStands(j, n, r, s, p) == HasRows(r[SlotOf(j, n)], Meant(j), Weights(j, n), Heard(j, s, n), p)
Stands(j, n, k, r, s, p) ==
    IF is_mla(Meant(j), n) THEN MlaStands(j, n, r, s, p) ELSE KdaStands(j, n, k, s, p)

LEMMA HeardSeq ==
    ASSUME NEW j, NEW n \in 0 .. Depth(j), Depth(j) \in Nat, NEW s, NEW N, IsSeq(s, N)
    PROVE  IsSeq(Heard(j, s, n), N)
<1>1. \E k : Blocked(After(j, s)[n], N, k)
  BY AfterShaped DEF Shaped
<1>2. QED
  BY <1>1, GivenSeq DEF Heard

LEMMA HeardSame ==
    ASSUME NEW j, Meant(j).conv_k \in Nat \ {0}, Depth(j) \in Nat, NEW n \in 0 .. Depth(j),
           NEW s, NEW N, IsSeq(s, N), NEW z, NEW M, IsSeq(z, M),
           NEW p \in Nat, p <= N, p <= M, Same(s, z, p)
    PROVE  Same(Heard(j, s, n), Heard(j, z, n), p)
<1>1. PICK k : Blocked(After(j, s)[n], N, k)
  BY AfterShaped DEF Shaped
<1>2. PICK l : Blocked(After(j, z)[n], M, l)
  BY AfterShaped DEF Shaped
<1>3. Agree(After(j, s)[n], After(j, z)[n], p)
  BY AfterAgrees
<1>4. QED
  BY <1>1, <1>2, <1>3, GivenAgrees DEF Heard

(* It stands for whatever text begins alike. *)
Moved(j, n, k, r, s, z, p) ==
    /\ KdaStands(j, n, k, s, p) => KdaStands(j, n, k, z, p)
    /\ MlaStands(j, n, r, s, p) => MlaStands(j, n, r, z, p)
    /\ Stands(j, n, k, r, s, p) => Stands(j, n, k, r, z, p)

LEMMA StandsMove ==
    ASSUME NEW j, Meant(j).conv_k \in Nat \ {0}, Depth(j) \in Nat, NEW n \in 0 .. Depth(j),
           NEW s, NEW N, IsSeq(s, N), NEW z, NEW M, IsSeq(z, M),
           NEW p \in Nat, p <= N, p <= M, Same(s, z, p), NEW k, NEW r
    PROVE  Moved(j, n, k, r, s, z, p)
<1> DEFINE c1 == Meant(j)
           w == Weights(j, n)
           X == Heard(j, s, n)
           Z == Heard(j, z, n)
<1>1. IsSeq(X, N) /\ IsSeq(Z, M)
  BY HeardSeq
<1>2. Same(X, Z, p)
  BY HeardSame
<1> HIDE DEF X, Z
<1>3. \A t \in 1 .. p : X[t] = Z[t]
  BY <1>2 DEF Same
<1>4. Hist(c1, w, X, p) = Hist(c1, w, Z, p)
  <2>1. c1.conv_k \in Nat \ {0}
    OBVIOUS
  <2> HIDE DEF c1, w
  <2>2. KdaAgrees(c1, w, X, Z, p)
    BY <1>1, <1>3, <2>1, KdaCausal
  <2>3. QED
    BY <2>2 DEF KdaAgrees
<1>5. KdaStands(j, n, k, s, p) => KdaStands(j, n, k, z, p)
  BY <1>4 DEF KdaStands, X, Z
<1>6. \A held : HasRows(held, c1, w, X, p) => HasRows(held, c1, w, Z, p)
  BY <1>3 DEF HasRows
<1>7. MlaStands(j, n, r, s, p) => MlaStands(j, n, r, z, p)
  BY <1>6 DEF MlaStands, X, Z
<1>8. QED
  BY <1>5, <1>7 DEF Moved, Stands

(* Rows stand for fewer positions too. *)
LEMMA RowsCut ==
    ASSUME NEW j, NEW n, NEW r, NEW s, NEW p \in Nat, NEW q \in 0 .. p, MlaStands(j, n, r, s, p)
    PROVE  MlaStands(j, n, r, s, q)
<1>1. 1 .. q \subseteq 1 .. p
  OBVIOUS
<1>2. QED
  BY <1>1 DEF MlaStands, HasRows

(* Clear, a layer stands for no position of any text.                       *)
LEMMA ClearStands ==
    ASSUME NEW j, Meant(j).conv_k \in Nat \ {0}, Depth(j) \in Nat, NEW n \in 0 .. Depth(j),
           NEW s, NEW N, IsSeq(s, N), NEW k, k[n] = ClearState(Meant(j)), NEW r
    PROVE  Stands(j, n, k, r, s, 0)
<1>1. IsSeq(Heard(j, s, n), N)
  BY HeardSeq
<1>2. Hist(Meant(j), Weights(j, n), Heard(j, s, n), 0) = ClearState(Meant(j))
  BY <1>1, HistBegins
<1>3. KdaStands(j, n, k, s, 0)
  BY <1>2 DEF KdaStands
<1>4. MlaStands(j, n, r, s, 0)
  BY DEF MlaStands, HasRows
<1>5. QED
  BY <1>3, <1>4 DEF Stands

-----------------------------------------------------------------------------
(* The history invariant, of an exact job that serves.  Between passes the  *)
(* carried state stands for what has been absorbed of the text, and the     *)
(* caller's copy for what had been when it was made.                        *)
Reached == IF pc = "mlp" THEN L + 1 ELSE L
Remembers ==
    pc \in {"ready", "answered"} /\ opts.incremental =>
        \A n \in 0 .. Depth(job) - 1 : Stands(job, n, ks, rows, seq, cached)
Saves ==
    snap.at > 0 => \A n \in 0 .. Depth(job) - 1 :
        ~is_mla(Meant(job), n) => KdaStands(job, n, snap.ks, seq, snap.at)

(* In a pass the layers behind the walk have absorbed the whole text, those *)
(* ahead what the pass began with.                                          *)
Absorbs ==
    pc \in InPass =>
        /\ opts.incremental =>
              \A n \in 0 .. Reached - 1 : Stands(job, n, ks, rows, seq, Len(seq))
        /\ ~OneState => \A n \in Reached .. Depth(job) - 1 : Stands(job, n, ks, rows, seq, base)

(* The residuals and snapshots are those of the model.                      *)
Entering(j, s, i, br1, nb1, h1, b) ==
    Held(Meant(j), br1, nb1, h1, Len(s) - b, b, After(j, s)[i].x, After(j, s)[i].blocks)
Halfway(j, s, i, br1, nb1, h1, b) ==
    Held(Meant(j), br1, nb1, h1, Len(s) - b, b,
         MidOf(j, i, After(j, s)[i]), BlocksOf(j, i, After(j, s)[i]))
Computes ==
    /\ pc \in {"layer", "fetch", "attention"} => Entering(job, seq, L, br, nb, h, base)
    /\ pc = "mlp" => Halfway(job, seq, L, br, nb, h, base)

History == Exact(job) /\ pc \in Serves => Remembers /\ Saves /\ Absorbs /\ Computes

LEMMA MeantNext ==
    ASSUME Described
    PROVE  (IInv /\ pc \in Serves /\ Exact(job) => Fitting(job))'
<1>1. IInv /\ pc \in Serves /\ Exact(job) => Fitting(job)
  BY MeantIs
<1>2. QED
  BY <1>1, PTL

(* Attention of either kind, over a feed behind what the state stands for.  *)
Ready(j, i, G, st, held, b, N) ==
    IF is_mla(Meant(j), i)
    THEN 0 .. N - 1 \subseteq DOMAIN held /\ HasRows(held, Meant(j), Weights(j, i), G, b)
    ELSE st = Hist(Meant(j), Weights(j, i), G, b)
MlaOf(j, u, hin, held, b) == mla_cached(Meant(j), u, hin, held, b)
KdaOf(j, u, hin, st) == kda_layer(Meant(j), u, hin, st)
Mixes(tmp, j, i, R, b, n) == \A t \in 1 .. n : tmp[t] = MixedOf(j, i, R)[b + t]
Mixed(j, i, R, u, hin, st, held, b, n) ==
    LET G == GivenOf(j, i, R)
        w == Weights(j, i)
    IN IF is_mla(Meant(j), i)
       THEN /\ Mixes(MlaOf(j, u, hin, held, b).out, j, i, R, b, n)
            /\ HasRows(MlaOf(j, u, hin, held, b).rows, Meant(j), w, G, b + n)
       ELSE /\ Mixes(KdaOf(j, u, hin, st).out, j, i, R, b, n)
            /\ KdaOf(j, u, hin, st).state = Hist(Meant(j), w, G, b + n)

LEMMA MixHeld ==
    ASSUME NEW j, Meant(j).conv_k \in Nat \ {0}, NEW i, NEW R, NEW N, NEW k, Blocked(R, N, k),
           NEW b \in Nat, NEW n \in Nat, b + n = N, NEW hin, Behind(hin, GivenOf(j, i, R), b, n),
           NEW u, Alike(u, Weights(j, i), AttnNames(Meant(j), i)), NEW st, NEW held,
           Ready(j, i, GivenOf(j, i, R), st, held, b, N)
    PROVE  Mixed(j, i, R, u, hin, st, held, b, n)
<1> DEFINE c1 == Meant(j)
           w == Weights(j, i)
           G == GivenOf(j, i, R)
<1>1. IsSeq(G, N)
  BY GivenSeq
<1>2. IsSeq(hin, n) /\ \A t \in 1 .. n : hin[t] = G[b + t]
  BY DEF Behind
<1>3. MixedOf(j, i, R) = IF is_mla(c1, i) THEN Model!Mla(c1, w, G) ELSE Model!Kda(c1, w, G)
  BY FullIs DEF MixedOf
<1>4. b + n <= N
  OBVIOUS
<1>5. CASE is_mla(c1, i)
  <2>1. Alike(u, w, MlaNames(c1))
    BY <1>5 DEF AttnNames
  <2>2. 0 .. b + n - 1 \subseteq DOMAIN held /\ HasRows(held, c1, w, G, b)
    BY <1>5 DEF Ready
  <2> HIDE DEF c1, w, G
  <2>3. MlaFed(mla_cached(c1, u, hin, held, b), c1, w, G, b, n, held)
    BY <1>1, <1>2, <1>4, <2>1, <2>2, MlaChunk
  <2>4. /\ \A t \in 1 .. n : mla_cached(c1, u, hin, held, b).out[t] = Model!Mla(c1, w, G)[b + t]
        /\ HasRows(mla_cached(c1, u, hin, held, b).rows, c1, w, G, b + n)
    BY <2>3 DEF MlaFed
  <2>5. MixedOf(j, i, R) = Model!Mla(c1, w, G)
    BY <1>3, <1>5
  <2>6. Mixes(mla_cached(c1, u, hin, held, b).out, j, i, R, b, n)
    BY <2>4, <2>5 DEF Mixes
  <2>7. QED
    BY <1>5, <2>4, <2>6 DEF Mixed, MlaOf, c1, w, G
<1>6. CASE ~is_mla(c1, i)
  <2>1. Alike(u, w, KdaNames)
    BY <1>6 DEF AttnNames
  <2>2. st = Hist(c1, w, G, b)
    BY <1>6 DEF Ready
  <2>3. c1.conv_k \in Nat \ {0}
    OBVIOUS
  <2> HIDE DEF c1, w, G
  <2>4. KdaFed(kda_layer(c1, u, hin, Hist(c1, w, G, b)), c1, w, G, b, n)
    BY <1>1, <1>2, <1>4, <2>1, <2>3, KdaChunk
  <2>5. /\ \A t \in 1 .. n : kda_layer(c1, u, hin, st).out[t] = Model!Kda(c1, w, G)[b + t]
        /\ kda_layer(c1, u, hin, st).state = Hist(c1, w, G, b + n)
    BY <2>2, <2>4 DEF KdaFed
  <2>6. MixedOf(j, i, R) = Model!Kda(c1, w, G)
    BY <1>3, <1>6
  <2>7. Mixes(kda_layer(c1, u, hin, st).out, j, i, R, b, n)
    BY <2>5, <2>6 DEF Mixes
  <2>8. QED
    BY <1>6, <2>5, <2>7 DEF Mixed, KdaOf, c1, w, G
<1>7. QED
  BY <1>5, <1>6

(* A layer stands as it did where its own state is left alone. *)
LEMMA StandsStill ==
    ASSUME NEW j, NEW n, NEW k, NEW k2, NEW r, NEW r2,
           ~is_mla(Meant(j), n) => k2[n] = k[n],
           is_mla(Meant(j), n) => r2[SlotOf(j, n)] = r[SlotOf(j, n)], NEW s, NEW p
    PROVE  Stands(j, n, k, r, s, p) <=> Stands(j, n, k2, r2, s, p)
BY DEF Stands, KdaStands, MlaStands

(* Where the job serves. *)
Served(N) ==
    /\ Fitting(job) /\ IsSeq(seq, N) /\ Len(seq) = N /\ N <= Tmax /\ Tmax \in Nat /\ cached \in 0 .. N
    /\ Depth(job) \in Nat \ {0} /\ L \in 0 .. Depth(job)
    /\ Meant(job).conv_k \in Nat \ {0} /\ maxb(Meant(job)) \in Nat \ {0}
    /\ \A n : mla_slot(n) = SlotOf(job, n)
    /\ DOMAIN ks = 0 .. (IF OneState THEN 1 ELSE Depth(job)) - 1
    /\ \A n \in 0 .. Depth(job) - 1 : is_mla(Meant(job), n) =>
          SlotOf(job, n) \in DOMAIN rows /\ DOMAIN rows[SlotOf(job, n)] = 0 .. Tmax - 1
    /\ \A n, m \in 0 .. Depth(job) - 1 :
          is_mla(Meant(job), n) /\ is_mla(Meant(job), m) /\ n # m => SlotOf(job, n) # SlotOf(job, m)
    /\ opts.incremental \in BOOLEAN /\ opts.ultra \in BOOLEAN
    /\ ~opts.incremental => cached = 0

LEMMA ServedIs ==
    ASSUME IInv, Quiet, Described, pc \in Serves, Exact(job)
    PROVE  Served(Len(seq))
<1>1. Fitting(job)
  BY MeantIs
<1>2. /\ c = Meant(job) /\ NL = Depth(job) /\ Depth(job) \in 1 .. c.n_layers /\ c.n_layers \in Nat
      /\ c.conv_k \in Nat \ {0} /\ c.attn_res_block \in Nat \ {0}
  BY <1>1 DEF Fitting
<1>3. IsSeq(seq, Len(seq)) /\ Len(seq) \in Nat
  BY SeqOf, LenProperties DEF IInv, Ranges
<1>4. Len(seq) <= Tmax /\ Tmax \in Nat /\ cached \in 0 .. Len(seq) /\ job \in Jobs /\ cfg.ok /\ L \in Nat
  BY ForwardAssumption DEF IInv, Ranges, Loaded, Serves, InPass
<1>5. L \in 0 .. Depth(job) /\ Depth(job) \in Nat \ {0}
  BY <1>2, <1>4 DEF IInv, Walks
<1>6. maxb(Meant(job)) \in Nat \ {0}
  <2> DEFINE q == c.n_layers \div c.attn_res_block
  <2>1. q \in Nat
    BY <1>2
  <2> HIDE DEF q
  <2>2. q + 2 \in Nat \ {0}
    BY <2>1
  <2>3. QED
    BY <1>2, <2>2 DEF maxb, q
<1>7. \A n : mla_slot(n) = SlotOf(job, n)
  BY <1>2 DEF mla_slot, SlotOf
<1>8. /\ DOMAIN ks = 0 .. state_layers - 1
      /\ DOMAIN rows = 0 .. mla_slot(NL) - 1
      /\ \A mi \in 0 .. mla_slot(NL) - 1 : DOMAIN rows[mi] = 0 .. Tmax - 1
  BY DEF Quiet, Roomy
<1>9. DOMAIN ks = 0 .. (IF OneState THEN 1 ELSE Depth(job)) - 1
  BY <1>2, <1>8 DEF state_layers
<1>10. ASSUME NEW n \in 0 .. NL - 1, is_mla(c, n)
       PROVE  /\ mla_slot(n) \in 0 .. mla_slot(NL) - 1
              /\ \A m \in 0 .. NL - 1 : is_mla(c, m) /\ m # n => mla_slot(m) # mla_slot(n)
  <2>1. NL \in Nat
    BY <1>2, <1>5
  <2>2. QED
    BY <1>10, <2>1, MlaSlots
<1>11. opts.incremental \in BOOLEAN /\ opts.ultra \in BOOLEAN
  BY <1>4, JobsAssumption DEF Options, opts
<1>12. ~opts.incremental => cached = 0
  BY DEF Quiet
<1>13. \A n \in 0 .. Depth(job) - 1 : is_mla(Meant(job), n) =>
          SlotOf(job, n) \in DOMAIN rows /\ DOMAIN rows[SlotOf(job, n)] = 0 .. Tmax - 1
  BY <1>2, <1>7, <1>8, <1>10
<1>14. \A n, m \in 0 .. Depth(job) - 1 :
          is_mla(Meant(job), n) /\ is_mla(Meant(job), m) /\ n # m => SlotOf(job, n) # SlotOf(job, m)
  BY <1>2, <1>7, <1>10
<1>15. Meant(job).conv_k \in Nat \ {0}
  BY <1>2
<1>16. QED
  BY <1>1, <1>3, <1>4, <1>5, <1>6, <1>7, <1>9, <1>11, <1>12, <1>13, <1>14, <1>15 DEF Served

(* The inputs of attention, as the layer makes them. *)
AttnIn == Normed(h, Seen(c, br, nb, h, Got(L)), Got(L).in_norm, c)
AttnState == IF OneState THEN ClearState(c) ELSE ks[StateOf(L)]
AttnHeld == IF opts.incremental THEN rows[mla_slot(L)] ELSE LocalRows(AttnIn)
Mixing == Mixed(job, L, After(job, seq)[L], Got(L), AttnIn, AttnState, AttnHeld, base, Len(seq) - base)

LEMMA AttnMixes ==
    ASSUME Described, Uniform, IInv, Quiet, History, Exact(job), pc = "attention"
    PROVE  Mixing
<1> DEFINE N == Len(seq)
           n == N - base
           R == After(job, seq)[L]
           G == GivenOf(job, L, R)
           u == Got(L)
<1>1. Served(N)
  BY ServedIs DEF Serves, InPass
<1>2. Absorbs /\ Computes
  BY DEF History, Serves, InPass
<1>3. c = Meant(job) /\ NL = Depth(job)
  BY <1>1 DEF Served, Fitting
<1>4. L < NL /\ base = (IF opts.incremental THEN cached ELSE 0) /\ base < N
  BY <1>1 DEF IInv, Walks, Loaded, InPass
<1>5. /\ N \in Nat /\ base \in Nat /\ n \in Nat /\ base + n = N /\ L \in 0 .. Depth(job) - 1
      /\ Depth(job) \in Nat /\ L \in 0 .. Depth(job)
  BY <1>1, <1>3, <1>4 DEF Served, IsSeq
<1>6. PICK k : Blocked(R, N, k)
  <2>1. IsSeq(seq, N)
    BY <1>1 DEF Served
  <2>2. \E k : Blocked(After(job, seq)[L], N, k)
    BY <1>5, <2>1, AfterShaped DEF Shaped
  <2>3. QED
    BY <2>2
<1>7. Alike(u, Weights(job, L), NormNames \cup AttnNames(c, L) \cup MlpNames(c, L))
  BY GotIs DEF Quiet
<1>8. Alike(u, Weights(job, L), NormNames) /\ Alike(u, Weights(job, L), AttnNames(Meant(job), L))
  BY <1>3, <1>7 DEF Alike
<1>9. Held(Meant(job), br, nb, h, n, base, R.x, R.blocks)
  BY <1>2 DEF Computes, Entering
<1> HIDE DEF N, n, R, u
<1>10. Behind(AttnIn, G, base, n)
  <2>1. Behind(Normed(h, Seen(Meant(job), br, nb, h, u), u.in_norm, Meant(job)), G, base, n)
    BY <1>5, <1>6, <1>8, <1>9, GivenHeld
  <2>2. QED
    BY <1>3, <2>1 DEF AttnIn, u
<1>11. G = Heard(job, seq, L)
  BY DEF Heard, R
<1>12. ~OneState => Stands(job, L, ks, rows, seq, base)
  <2>1. L \in Reached .. Depth(job) - 1
    BY <1>5 DEF Reached
  <2>2. QED
    BY <1>2, <2>1 DEF Absorbs, InPass
<1>13. opts.incremental => ~OneState
  BY DEF OneState
<1>14. CASE is_mla(Meant(job), L)
  <2>1. Ready(job, L, G, AttnState, AttnHeld, base, N)
    <3>1. CASE opts.incremental
      <4>1. MlaStands(job, L, rows, seq, base)
        BY <1>12, <1>13, <1>14, <3>1 DEF Stands
      <4>2. AttnHeld = rows[SlotOf(job, L)]
        BY <1>1, <3>1 DEF AttnHeld, Served
      <4>3. HasRows(AttnHeld, Meant(job), Weights(job, L), G, base)
        BY <1>11, <4>1, <4>2 DEF MlaStands
      <4>4. DOMAIN AttnHeld = 0 .. Tmax - 1 /\ N <= Tmax /\ Tmax \in Nat
        BY <1>1, <1>5, <1>14, <4>2 DEF Served
      <4>5. 0 .. N - 1 \subseteq DOMAIN AttnHeld
        BY <1>5, <4>4
      <4>6. QED
        BY <1>14, <4>3, <4>5 DEF Ready
    <3>2. CASE ~opts.incremental
      <4>1. AttnHeld = LocalRows(AttnIn) /\ base = 0
        BY <1>4, <3>2 DEF AttnHeld
      <4>2. IsSeq(AttnIn, N)
        BY <1>5, <1>10, <4>1 DEF Behind
      <4>3. Len(AttnIn) = N
        BY <4>2, SeqIs
      <4>4. DOMAIN AttnHeld = 0 .. N - 1
        BY <4>1, <4>3 DEF LocalRows
      <4>5. HasRows(AttnHeld, Meant(job), Weights(job, L), G, base)
        BY <4>1 DEF HasRows
      <4>6. QED
        BY <1>14, <4>4, <4>5 DEF Ready
    <3>3. QED
      BY <3>1, <3>2
  <2>2. Mixed(job, L, R, u, AttnIn, AttnState, AttnHeld, base, n)
    BY <1>1, <1>5, <1>6, <1>8, <1>10, <2>1, MixHeld DEF Served
  <2>3. QED
    BY <2>2 DEF Mixing, N, n, R, u
<1>15. CASE ~is_mla(Meant(job), L)
  <2>1. AttnState = Hist(Meant(job), Weights(job, L), G, base)
    <3>1. CASE OneState
      <4>1. AttnState = ClearState(Meant(job)) /\ base = 0
        BY <1>3, <1>4, <3>1 DEF AttnState, OneState
      <4>2. IsSeq(G, N)
        BY <1>6, GivenSeq
      <4>3. QED
        BY <1>1, <4>1, <4>2, HistBegins DEF Served
    <3>2. CASE ~OneState
      <4>1. KdaStands(job, L, ks, seq, base)
        BY <1>12, <1>15, <3>2 DEF Stands
      <4>2. AttnState = ks[L]
        BY <3>2 DEF AttnState, StateOf
      <4>3. QED
        BY <1>11, <4>1, <4>2 DEF KdaStands
    <3>3. QED
      BY <3>1, <3>2
  <2>2. Ready(job, L, G, AttnState, AttnHeld, base, N)
    BY <1>15, <2>1 DEF Ready
  <2>3. Mixed(job, L, R, u, AttnIn, AttnState, AttnHeld, base, n)
    BY <1>1, <1>5, <1>6, <1>8, <1>10, <2>2, MixHeld DEF Served
  <2>4. QED
    BY <2>3 DEF Mixing, N, n, R, u
<1>16. QED
  BY <1>14, <1>15

(* What the step of attention does to the state, in these terms. *)
AttnMix == IF is_mla(c, L) THEN MlaOf(job, Got(L), AttnIn, AttnHeld, base)
           ELSE KdaOf(job, Got(L), AttnIn, AttnState)
Attended ==
    /\ br' = (IF Opens(job, L) THEN Snapshots(c, br, nb, h) ELSE br)
    /\ nb' = (IF Opens(job, L) THEN nb + 1 ELSE nb)
    /\ ks' = [ks EXCEPT ![StateOf(L)] = IF is_mla(c, L) THEN AttnState ELSE AttnMix.state]
    /\ rows' = IF is_mla(c, L) /\ opts.incremental
               THEN [rows EXCEPT ![mla_slot(L)] = AttnMix.rows] ELSE rows
    /\ h' = [t \in DOMAIN h |-> IF Opens(job, L) THEN AttnMix.out[t] ELSE add(h[t], AttnMix.out[t])]
    /\ pc' = "mlp" /\ UNCHANGED <<job, cfg, seq, cached, snap, base, L>>

LEMMA AttendsAs ==
    ASSUME IInv, c = Meant(job), base = (IF opts.incremental THEN cached ELSE 0), Attends
    PROVE  Attended
<1> USE DEF process, caller
<1> DEFINE w == Got(L)
           boundary == L % c.attn_res_block = 0
           seen == IF nb > 0 THEN Aggregated(c, br, nb, h, fold_attn(w)) ELSE h
           hin == Table([t \in DOMAIN h |-> rmsnorm(seen[t], w.in_norm, c)])
           state == IF OneState THEN ClearState(c) ELSE ks[StateOf(L)]
           kda == kda_layer(c, w, hin, state)
           held == IF opts.incremental THEN rows[mla_slot(L)] ELSE LocalRows(hin)
           mla == mla_cached(c, w, hin, held, IF opts.incremental THEN cached ELSE 0)
           tmp == IF is_mla(c, L) THEN mla.out ELSE kda.out
<1>1. /\ br' = (IF boundary THEN Snapshots(c, br, nb, h) ELSE br)
      /\ nb' = (IF boundary THEN nb + 1 ELSE nb)
      /\ ks' = (IF is_mla(c, L) THEN [ks EXCEPT ![StateOf(L)] = state]
                ELSE [ks EXCEPT ![StateOf(L)] = kda.state])
      /\ rows' = (IF is_mla(c, L) /\ opts.incremental
                  THEN [rows EXCEPT ![mla_slot(L)] = mla.rows] ELSE rows)
      /\ h' = [t \in DOMAIN h |-> IF boundary THEN tmp[t] ELSE add(h[t], tmp[t])]
      /\ pc' = "mlp" /\ UNCHANGED <<job, cfg, seq, cached, snap, base, L>>
  BY DEF Attends
<1>2. boundary <=> Opens(job, L)
  BY DEF Opens
<1>3. hin = AttnIn
  BY DEF AttnIn, Normed, Seen
<1> HIDE DEF hin
<1>4. held = AttnHeld /\ state = AttnState
  BY <1>3 DEF AttnHeld, AttnState
<1> HIDE DEF held, state
<1>5. mla = MlaOf(job, w, AttnIn, AttnHeld, base) /\ kda = KdaOf(job, w, AttnIn, AttnState)
  BY <1>3, <1>4 DEF MlaOf, KdaOf
<1> HIDE DEF mla, kda, w, boundary
<1>6. CASE is_mla(c, L)
  <2>1. AttnMix = mla
    BY <1>5, <1>6 DEF AttnMix, w
  <2>2. QED
    BY <1>1, <1>2, <1>4, <1>6, <2>1 DEF Attended
<1>7. CASE ~is_mla(c, L)
  <2>1. AttnMix = kda
    BY <1>5, <1>7 DEF AttnMix, w
  <2>2. QED
    BY <1>1, <1>2, <1>4, <1>7, <2>1 DEF Attended
<1>8. QED
  BY <1>6, <1>7

LEMMA AttendsKept ==
    ASSUME Described, Uniform, IInv, Quiet, History, Exact(job), Attends
    PROVE  History'
<1> DEFINE N == Len(seq)
           n == N - base
           R == After(job, seq)[L]
           G == GivenOf(job, L, R)
           w == Weights(job, L)
<1>0. pc = "attention"
  BY DEF Attends
<1>1. Served(N)
  BY <1>0, ServedIs DEF Serves, InPass
<1>2. Absorbs /\ Computes /\ Saves
  BY <1>0 DEF History, Serves, InPass
<1>3. c = Meant(job) /\ NL = Depth(job)
  BY <1>1 DEF Served, Fitting
<1>4. L < NL /\ base = (IF opts.incremental THEN cached ELSE 0) /\ base < N
  BY <1>0, <1>1 DEF IInv, Walks, Loaded, InPass
<1>5. /\ N \in Nat /\ base \in Nat /\ n \in Nat /\ base + n = N /\ L \in 0 .. Depth(job) - 1
      /\ Depth(job) \in Nat /\ L \in 0 .. Depth(job)
  BY <1>1, <1>3, <1>4 DEF Served, IsSeq
<1>6. PICK k : Blocked(R, N, k)
  <2>1. IsSeq(seq, N)
    BY <1>1 DEF Served
  <2>2. \E k : Blocked(After(job, seq)[L], N, k)
    BY <1>5, <2>1, AfterShaped DEF Shaped
  <2>3. QED
    BY <2>2
<1>7. Attended
  BY <1>3, <1>4, AttendsAs
<1>8. Mixing
  BY <1>0, AttnMixes
<1>9. Held(Meant(job), br, nb, h, n, base, R.x, R.blocks)
  BY <1>0, <1>2 DEF Computes, Entering
<1>10. nb \in 0 .. maxb(Meant(job)) - 1
  <2>1. cfg.ok
    BY <1>0 DEF IInv, Loaded
  <2>2. QED
    BY <1>3, <2>1, TypesFollow DEF TypeOK
<1>11. Mixed(job, L, R, Got(L), AttnIn, AttnState, AttnHeld, base, n)
  BY <1>8 DEF Mixing
<1> HIDE DEF N, n, R, G, w
<1>12. Mixes(AttnMix.out, job, L, R, base, n)
  BY <1>3, <1>11 DEF Mixed, AttnMix
<1>13. Held(Meant(job), br', nb', h', n, base, MidOf(job, L, R), BlocksOf(job, L, R))
  <2> DEFINE tmp == AttnMix.out
  <2>1. \A t \in 1 .. n : tmp[t] = MixedOf(job, L, R)[base + t]
    BY <1>12 DEF Mixes
  <2>2. h' = [t \in DOMAIN h |-> IF Opens(job, L) THEN tmp[t] ELSE add(h[t], tmp[t])]
    BY <1>7 DEF Attended
  <2>3. br' = (IF Opens(job, L) THEN Snapshots(Meant(job), br, nb, h) ELSE br)
        /\ nb' = (IF Opens(job, L) THEN nb + 1 ELSE nb)
    BY <1>3, <1>7 DEF Attended
  <2> HIDE DEF tmp
  <2>4. maxb(Meant(job)) \in Nat \ {0}
    BY <1>1 DEF Served
  <2>5. Held(Meant(job), IF Opens(job, L) THEN Snapshots(Meant(job), br, nb, h) ELSE br,
             IF Opens(job, L) THEN nb + 1 ELSE nb, h', n, base, MidOf(job, L, R), BlocksOf(job, L, R))
    BY <1>5, <1>6, <1>9, <1>10, <2>1, <2>2, <2>4, MidHeld
  <2>6. QED
    BY <2>3, <2>5
<1>14. job' = job /\ seq' = seq /\ L' = L /\ base' = base /\ pc' = "mlp" /\ cfg' = cfg
       /\ cached' = cached /\ snap' = snap /\ opts' = opts /\ OneState' = OneState
  BY <1>7 DEF Attended, opts, OneState
<1>15. Computes'
  <2>1. Halfway(job, seq, L, br', nb', h', base)
    BY <1>13 DEF Halfway, n, R, N
  <2>2. QED
    BY <1>14, <2>1 DEF Computes
(* The layer's own state has absorbed the text, the others' are as before.  *)
<1>16. opts.incremental => ~OneState
  BY DEF OneState
<1>17. ~OneState => StateOf(L) = L /\ DOMAIN ks = 0 .. Depth(job) - 1
  BY <1>1 DEF StateOf, Served
<1>18. ASSUME NEW i \in 0 .. Depth(job) - 1, i # L, ~OneState, NEW p
       PROVE  Stands(job, i, ks, rows, seq, p) => Stands(job, i, ks', rows', seq, p)
  <2>1. ks'[i] = ks[i]
    BY <1>7, <1>17, <1>18 DEF Attended
  <2>2. is_mla(Meant(job), i) => rows'[SlotOf(job, i)] = rows[SlotOf(job, i)]
    <3>1. ASSUME is_mla(Meant(job), i), is_mla(Meant(job), L)
          PROVE  SlotOf(job, i) # SlotOf(job, L) /\ SlotOf(job, i) \in DOMAIN rows
                 /\ mla_slot(L) = SlotOf(job, L)
      BY <1>1, <1>5, <1>18, <3>1 DEF Served
    <3>2. QED
      BY <1>3, <1>7, <3>1 DEF Attended
  <2>3. QED
    BY <2>1, <2>2, StandsStill
<1>19. opts.incremental => Stands(job, L, ks', rows', seq, N)
  <2> SUFFICES ASSUME opts.incremental PROVE Stands(job, L, ks', rows', seq, N)
    OBVIOUS
  <2>0. G = Heard(job, seq, L)
    BY DEF G, R, Heard
  <2>1. CASE is_mla(Meant(job), L)
    <3>1. HasRows(AttnMix.rows, Meant(job), Weights(job, L), G, N)
      BY <1>3, <1>5, <1>11, <2>1 DEF Mixed, AttnMix, G
    <3>2. mla_slot(L) = SlotOf(job, L) /\ SlotOf(job, L) \in DOMAIN rows
      BY <1>1, <1>5, <2>1 DEF Served
    <3>3. rows'[SlotOf(job, L)] = AttnMix.rows
      BY <1>3, <1>7, <2>1, <3>2 DEF Attended
    <3>4. QED
      BY <2>0, <2>1, <3>1, <3>3 DEF Stands, MlaStands
  <2>2. CASE ~is_mla(Meant(job), L)
    <3>1. AttnMix.state = Hist(Meant(job), Weights(job, L), G, N)
      BY <1>3, <1>5, <1>11, <2>2 DEF Mixed, AttnMix, G
    <3>2. ks'[L] = AttnMix.state
      BY <1>3, <1>5, <1>7, <1>16, <1>17, <2>2 DEF Attended
    <3>3. QED
      BY <2>0, <2>2, <3>1, <3>2 DEF Stands, KdaStands
  <2>3. QED
    BY <2>1, <2>2
<1>20. Absorbs'
  <2>1. Reached = L /\ Reached' = L + 1
    BY <1>0, <1>14 DEF Reached
  <2>2. ASSUME opts.incremental, NEW i \in 0 .. L
        PROVE  Stands(job, i, ks', rows', seq, N)
    <3>1. CASE i = L
      BY <1>19, <2>2, <3>1
    <3>2. CASE i # L
      <4>1. i \in 0 .. Reached - 1 /\ i \in 0 .. Depth(job) - 1
        BY <1>5, <2>1, <3>2
      <4>2. Stands(job, i, ks, rows, seq, N)
        BY <1>0, <1>2, <2>2, <4>1 DEF Absorbs, InPass, N
      <4>3. QED
        BY <1>16, <1>18, <2>2, <3>2, <4>1, <4>2
    <3>3. QED
      BY <3>1, <3>2
  <2>3. ASSUME ~OneState, NEW i \in L + 1 .. Depth(job) - 1
        PROVE  Stands(job, i, ks', rows', seq, base)
    <3>1. i \in Reached .. Depth(job) - 1 /\ i \in 0 .. Depth(job) - 1 /\ i # L
      BY <1>5, <2>1
    <3>2. Stands(job, i, ks, rows, seq, base)
      BY <1>0, <1>2, <2>3, <3>1 DEF Absorbs, InPass
    <3>3. QED
      BY <1>18, <2>3, <3>1, <3>2
  <2>4. 0 .. (L + 1) - 1 = 0 .. L
    BY <1>5
  <2>5. QED
    BY <1>14, <2>1, <2>2, <2>3, <2>4 DEF Absorbs, N
<1>21. Saves'
  BY <1>2, <1>14 DEF Saves
<1>22. Remembers'
  BY <1>14 DEF Remembers
<1>23. QED
  BY <1>15, <1>20, <1>21, <1>22 DEF History

(* The inputs of the second half of a layer, and what it makes of them when *)
(* no expert is lost.                                                       *)
MlpIn == Normed(h, Aggregated(c, br, nb, h, fold_mlp(Got(L))), Got(L).post_norm, c)
MlpMade(tmp) == h' = [t \in DOMAIN h |-> add(h[t], tmp[t])]
MlpSteps ==
    \/ is_dense(c, L) /\ MlpMade(dense(c, Got(L), MlpIn))
    \/ /\ ~is_dense(c, L)
       /\ \/ MlpMade(k3_moe_prefill(c, Got(L), L, MlpIn, {}))
          \/ MlpMade(k3_moe(c, Got(L), L, MlpIn, {}))

LEMMA MlpAs ==
    ASSUME Exact(job), Mlp, pc' # "failed"
    PROVE  MlpSteps
<1> DEFINE w == Got(L)
           seen == Aggregated(c, br, nb, h, fold_mlp(w))
           hin == Table([t \in DOMAIN h |-> rmsnorm(seen[t], w.post_norm, c)])
           Adds(tmp) == h' = [t \in DOMAIN h |-> add(h[t], tmp[t])]
<1>1. ~opts.draft
  BY DEF Exact, opts
<1>2. \/ is_dense(c, L) /\ Adds(dense(c, w, hin))
      \/ /\ ~is_dense(c, L)
         /\ \E lost \in {{}} \cup {{e} : e \in Routed(c, w, hin)} :
               /\ Adds(IF T > 1 /\ opts.batch THEN k3_moe_prefill(c, w, L, hin, lost)
                       ELSE k3_moe(c, w, L, hin, lost))
               /\ pc' = IF lost = {} THEN "layer" ELSE "failed"
  BY <1>1 DEF Mlp
<1>3. hin = MlpIn
  BY DEF MlpIn, Normed
<1> HIDE DEF hin, w
<1>4. CASE is_dense(c, L)
  <2>1. Adds(dense(c, w, hin))
    BY <1>2, <1>4
  <2>2. QED
    BY <1>3, <1>4, <2>1 DEF MlpSteps, MlpMade, w
<1>5. CASE ~is_dense(c, L)
  <2>1. PICK lost \in {{}} \cup {{e} : e \in Routed(c, w, hin)} :
               /\ Adds(IF T > 1 /\ opts.batch THEN k3_moe_prefill(c, w, L, hin, lost)
                       ELSE k3_moe(c, w, L, hin, lost))
               /\ pc' = IF lost = {} THEN "layer" ELSE "failed"
    BY <1>2, <1>5
  <2>2. lost = {}
    BY <2>1
  <2>3. Adds(k3_moe_prefill(c, w, L, hin, {})) \/ Adds(k3_moe(c, w, L, hin, {}))
    BY <2>1, <2>2
  <2>4. QED
    BY <1>3, <1>5, <2>3 DEF MlpSteps, MlpMade, w
<1>6. QED
  BY <1>4, <1>5

(* What the second half puts out, of either kind, is the model's.           *)
Puts(tmp, j, i, R, b, n) == \A t \in 1 .. n : tmp[t] = OutOf(j, i, FedOf(j, i, R)[b + t])

LEMMA DensePuts ==
    ASSUME NEW j, NEW i, is_dense(Meant(j), i), NEW R, NEW b, NEW n, NEW hin,
           Behind(hin, FedOf(j, i, R), b, n), NEW u, Alike(u, Weights(j, i), DenseNames)
    PROVE  Puts(dense(Meant(j), u, hin), j, i, R, b, n)
<1> DEFINE w == Weights(j, i)
           c1 == Meant(j)
<1>1. IsSeq(hin, n) /\ \A t \in 1 .. n : hin[t] = FedOf(j, i, R)[b + t]
  BY DEF Behind
<1>2. \A t \in 1 .. n : dense(c1, u, hin)[t]
                 = Model!mlp(hin[t], w.dense_gate, w.dense_up, w.dense_down, c1)
  <2>1. Alike(u, w, DenseNames)
    OBVIOUS
  <2> HIDE DEF w, c1
  <2>2. /\ IsSeq(dense(c1, u, hin), n)
        /\ \A t \in 1 .. n : dense(c1, u, hin)[t]
                 = Model!mlp(hin[t], w.dense_gate, w.dense_up, w.dense_down, c1)
    BY <1>1, <2>1, DenseIs
  <2>3. QED
    BY <2>2
<1>3. \A x : OutOf(j, i, x) = Model!mlp(x, w.dense_gate, w.dense_up, w.dense_down, c1)
  <2>1. \A x, a, d, e : mlp(x, a, d, e, c1) = Model!mlp(x, a, d, e, c1)
    BY DEF mlp, Model!mlp, mmw, Model!mmw, situ_glu, Model!situ_glu
  <2>2. \A x : OutOf(j, i, x) = mlp(x, w.dense_gate, w.dense_up, w.dense_down, c1)
    BY DEF OutOf
  <2>3. QED
    BY <2>1, <2>2
<1>4. QED
  BY <1>1, <1>2, <1>3 DEF Puts

LEMMA MoePuts ==
    ASSUME Ordered, NEW j, Chooses(Meant(j)), NEW i, ~is_dense(Meant(j), i), NEW R, NEW b, NEW n, NEW hin,
           Behind(hin, FedOf(j, i, R), b, n), NEW u, Alike(u, Weights(j, i), MoeNames)
    PROVE  /\ Puts(k3_moe(Meant(j), u, i, hin, {}), j, i, R, b, n)
           /\ Puts(k3_moe_prefill(Meant(j), u, i, hin, {}), j, i, R, b, n)
<1> DEFINE w == Weights(j, i)
           c1 == Meant(j)
           r == k3_moe(c1, u, i, hin, {})
<1>1. IsSeq(hin, n) /\ \A t \in 1 .. n : hin[t] = FedOf(j, i, R)[b + t]
  BY DEF Behind
<1>2. Chooses(c1) /\ Alike(u, w, MoeNames)
  OBVIOUS
<1>3. \A x : OutOf(j, i, x) = MoeOf(c1, w, i, x)
  BY DEF OutOf
<1> HIDE DEF w, c1
<1>4. k3_moe_prefill(c1, u, i, hin, {}) = r
  BY <1>1, <1>2, PrefillIs
<1>5. Moes(r, c1, u, i, hin, n, {})
  BY <1>1, MoeSeq
<1>6. \A x : moe_token(c1, u, i, x, router(c1, x, u), {}) = MoeOf(c1, u, i, x)
  BY <1>2, TokenIs
<1>7. \A x : MoeOf(c1, u, i, x) = MoeOf(c1, w, i, x)
  BY <1>2, MoeAlike
<1>8. \A t \in 1 .. n : r[t] = MoeOf(c1, w, i, hin[t])
  BY <1>5, <1>6, <1>7 DEF Moes
<1> HIDE DEF r
<1>9. Puts(r, j, i, R, b, n)
  BY <1>1, <1>3, <1>8 DEF Puts
<1>10. QED
  BY <1>4, <1>9 DEF r, c1

LEMMA MlpKept ==
    ASSUME Described, Uniform, Ordered, IInv, Quiet, History, Exact(job), Mlp
    PROVE  History'
<1> USE DEF process, caller, carried
<1> DEFINE N == Len(seq)
           n == N - base
           R == After(job, seq)[L]
           w == Weights(job, L)
           u == Got(L)
<1>0. pc = "mlp" /\ pc' \in {"layer", "failed"} /\ L' = L + 1
      /\ UNCHANGED <<job, cfg, seq, cached, snap, base, nb, br, ks, rows>>
  BY DEF Mlp
<1>1. Served(N)
  BY <1>0, ServedIs DEF Serves, InPass
<1>2. Absorbs /\ Computes /\ Saves
  BY <1>0 DEF History, Serves, InPass
<1>3. c = Meant(job) /\ NL = Depth(job) /\ Chooses(Meant(job))
  BY <1>1 DEF Served, Fitting
<1>4. L < NL /\ base = (IF opts.incremental THEN cached ELSE 0) /\ base < N
  BY <1>0, <1>1 DEF IInv, Walks, Loaded, InPass, Midway
<1>5. /\ N \in Nat /\ base \in Nat /\ n \in Nat /\ base + n = N /\ L \in 0 .. Depth(job) - 1
      /\ Depth(job) \in Nat /\ L \in 0 .. Depth(job)
  BY <1>1, <1>3, <1>4 DEF Served, IsSeq
<1>6. PICK k : Blocked(R, N, k)
  <2>1. IsSeq(seq, N)
    BY <1>1 DEF Served
  <2>2. \E k : Blocked(After(job, seq)[L], N, k)
    BY <1>5, <2>1, AfterShaped DEF Shaped
  <2>3. QED
    BY <2>2
<1>7. Alike(u, w, NormNames \cup AttnNames(c, L) \cup MlpNames(c, L))
  BY <1>0, GotIs DEF Quiet
<1>8. Alike(u, w, NormNames) /\ Alike(u, w, MlpNames(Meant(job), L))
  BY <1>3, <1>7 DEF Alike
<1>9. Held(Meant(job), br, nb, h, n, base, MidOf(job, L, R), BlocksOf(job, L, R))
  BY <1>0, <1>2 DEF Computes, Halfway
<1>10. opts' = opts /\ OneState' = OneState
  BY <1>0 DEF opts, OneState
<1>11. Saves'
  BY <1>0, <1>2 DEF Saves
<1>12. Remembers'
  BY <1>0 DEF Remembers
<1>13. Absorbs'
  <2>1. Reached = L + 1 /\ Reached' = L + 1
    BY <1>0 DEF Reached
  <2>2. QED
    BY <1>0, <1>2, <1>10, <2>1 DEF Absorbs, InPass
<1>14. CASE pc' = "failed"
  <2>1. Computes'
    BY <1>14 DEF Computes
  <2>2. QED
    BY <1>11, <1>12, <1>13, <2>1 DEF History
<1>15. CASE pc' # "failed"
  <2>1. MlpSteps
    BY <1>15, MlpAs
  <2> HIDE DEF N, n, R, w, u
  <2>2. Behind(MlpIn, FedOf(job, L, R), base, n)
    <3>1. Alike(u, Weights(job, L), NormNames)
      BY <1>8 DEF w
    <3>2. Behind(Normed(h, Aggregated(Meant(job), br, nb, h, fold_mlp(u)), u.post_norm, Meant(job)),
                 FedOf(job, L, R), base, n)
      BY <1>5, <1>6, <1>9, <3>1, FedHeld
    <3>3. QED
      BY <1>3, <3>2 DEF MlpIn, u
  <2>3. PICK tmp : Puts(tmp, job, L, R, base, n) /\ MlpMade(tmp)
    <3>1. CASE is_dense(c, L)
      <4>1. is_dense(Meant(job), L) /\ Alike(u, Weights(job, L), DenseNames)
        BY <1>3, <1>8, <3>1 DEF MlpNames, w
      <4>2. Puts(dense(Meant(job), u, MlpIn), job, L, R, base, n)
        BY <2>2, <4>1, DensePuts
      <4>3. MlpMade(dense(Meant(job), u, MlpIn))
        BY <1>3, <2>1, <3>1 DEF MlpSteps, u
      <4>4. QED
        BY <4>2, <4>3
    <3>2. CASE ~is_dense(c, L)
      <4>1. ~is_dense(Meant(job), L) /\ Alike(u, Weights(job, L), MoeNames)
        BY <1>3, <1>8, <3>2 DEF MlpNames, w
      <4>2. /\ Puts(k3_moe(Meant(job), u, L, MlpIn, {}), job, L, R, base, n)
            /\ Puts(k3_moe_prefill(Meant(job), u, L, MlpIn, {}), job, L, R, base, n)
        BY <1>3, <2>2, <4>1, MoePuts
      <4>3. MlpMade(k3_moe(Meant(job), u, L, MlpIn, {}))
            \/ MlpMade(k3_moe_prefill(Meant(job), u, L, MlpIn, {}))
        BY <1>3, <2>1, <3>2 DEF MlpSteps, u
      <4>4. QED
        BY <4>2, <4>3
    <3>3. QED
      BY <3>1, <3>2
  <2>4. Held(Meant(job), br, nb, h', n, base, StepOf(job, L, R).x, StepOf(job, L, R).blocks)
    <3>1. \A t \in 1 .. n : tmp[t] = OutOf(job, L, FedOf(job, L, R)[base + t])
      BY <2>3 DEF Puts
    <3>2. h' = [t \in DOMAIN h |-> add(h[t], tmp[t])]
      BY <2>3 DEF MlpMade
    <3>3. QED
      BY <1>5, <1>6, <1>9, <3>1, <3>2, StepHeld
  <2>5. After(job, seq)[L + 1] = StepOf(job, L, R)
    <3>1. Walked(After(job, seq), job, seq, Depth(job))
      BY <1>5, AfterIs
    <3>2. QED
      BY <1>5, <3>1 DEF Walked, R
  <2>6. Entering(job, seq, L + 1, br, nb, h', base)
    BY <2>4, <2>5 DEF Entering, n, N
  <2>7. Computes'
    BY <1>0, <1>15, <2>6 DEF Computes
  <2>8. QED
    BY <1>11, <1>12, <1>13, <2>7 DEF History
<1>16. QED
  BY <1>14, <1>15

(* The text goes on, or is cut: what stands for a beginning that is kept    *)
(* still does.                                                              *)
MovesTo(z, p) == \A n \in 0 .. Depth(job) - 1 : \A k, r : Moved(job, n, k, r, seq, z, p)

LEMMA TextMoves ==
    ASSUME NEW N, Served(N), NEW z, NEW M, IsSeq(z, M), NEW p \in Nat, p <= N, p <= M, Same(seq, z, p)
    PROVE  MovesTo(z, p)
<1>1. Meant(job).conv_k \in Nat \ {0} /\ Depth(job) \in Nat /\ IsSeq(seq, N)
  BY DEF Served
<1>2. ASSUME NEW n \in 0 .. Depth(job) - 1, NEW k, NEW r PROVE Moved(job, n, k, r, seq, z, p)
  <2>1. n \in 0 .. Depth(job)
    BY <1>1
  <2>2. QED
    BY <1>1, <2>1, StandsMove
<1>3. QED
  BY <1>2 DEF MovesTo

(* Steps within a walk that compute nothing, and those that end it badly.   *)
LEMMA WalkKept ==
    ASSUME History, Exact(job), pc \in {"layer", "fetch", "attention"},
           pc' \in {"layer", "fetch", "attention", "failed"},
           UNCHANGED <<job, cfg, seq, snap, base, L, nb, h, br, ks, rows>>
    PROVE  History'
<1>1. Absorbs /\ Computes /\ Saves
  BY DEF History, Serves, InPass
<1>2. opts' = opts /\ OneState' = OneState
  BY DEF opts, OneState
<1>3. Reached' = Reached
  BY DEF Reached
<1>4. Saves'
  BY <1>1 DEF Saves
<1>5. Remembers'
  BY DEF Remembers
<1>6. Absorbs'
  BY <1>1, <1>2, <1>3 DEF Absorbs, InPass
<1>7. Computes'
  BY <1>1 DEF Computes
<1>8. QED
  BY <1>4, <1>5, <1>6, <1>7 DEF History

(* The start of a pass. *)
LEMMA FeedKept ==
    ASSUME Described, IInv, IInv', Quiet, History, Exact(job),
           NEW new \in Feeds, NEW all \in BOOLEAN, Feed(new, all)
    PROVE  History'
<1> USE DEF process, pass
<1> DEFINE N == Len(seq)
           M == Len(seq')
           n == M - base'
<1>0. /\ pc \in {"ready", "answered"} /\ pc' \in {"layer", "failed"} /\ seq' = seq \o new
      /\ base' = (IF opts.incremental THEN cached ELSE 0) /\ base' < Len(seq')
      /\ L' = 0 /\ nb' = 0 /\ UNCHANGED <<job, cfg, cached, snap, rows>>
  BY DEF Feed
<1>1. Served(N)
  BY <1>0, ServedIs DEF Serves
<1>2. Remembers /\ Saves
  BY <1>0 DEF History, Serves
<1>3. c = Meant(job) /\ NL = Depth(job) /\ opts' = opts /\ OneState' = OneState
  BY <1>0, <1>1 DEF Served, Fitting, opts, OneState
<1>4. IsSeq(seq, N) /\ N \in Nat /\ cached \in 0 .. N /\ Depth(job) \in Nat \ {0}
      /\ DOMAIN ks = 0 .. (IF OneState THEN 1 ELSE Depth(job)) - 1
  BY <1>1 DEF Served, IsSeq
<1>5. PICK m \in Nat : Joins(seq', seq, N, new, m)
  <2>1. IsSeq(new, Len(new)) /\ Len(new) \in Nat
    BY ForwardAssumption, SeqOf, LenProperties
  <2>2. QED
    BY <1>0, <1>4, <2>1, SeqJoin
<1>6. IsSeq(seq', N + m) /\ \A t \in 1 .. N : seq'[t] = seq[t]
  BY <1>5 DEF Joins
<1>7. M = N + m /\ M \in Nat /\ DOMAIN seq' = 1 .. M
  BY <1>4, <1>6, SeqIs
<1>8. base' \in 0 .. M - 1 /\ n \in Nat /\ base' + n = M
  BY <1>0, <1>4, <1>7
<1>9. \A p \in 0 .. N : MovesTo(seq', p)
  <2>1. ASSUME NEW p \in 0 .. N PROVE MovesTo(seq', p)
    <3>1. p \in Nat /\ p <= N /\ p <= N + m
      BY <1>4
    <3>2. Same(seq, seq', p)
      BY <1>4, <1>6 DEF Same
    <3>3. QED
      BY <1>1, <1>6, <3>1, <3>2, TextMoves
  <2>2. QED
    BY <2>1
<1>10. snap.at \in 0 .. N
  <2>1. snap.at \in Nat /\ snap.at <= cached
    BY ForwardAssumption DEF Quiet, IInv, Ranges
  <2>2. QED
    BY <1>4, <2>1
<1> HIDE DEF N, M, n
<1>11. Saves'
  BY <1>0, <1>2, <1>9, <1>10 DEF Saves, MovesTo, Moved
<1>12. Remembers'
  BY <1>0 DEF Remembers
<1>13. CASE pc' = "failed"
  <2>1. Absorbs' /\ Computes'
    BY <1>13 DEF Absorbs, Computes, InPass
  <2>2. QED
    BY <1>11, <1>12, <2>1 DEF History
<1>14. CASE pc' = "layer"
  <2>1. Reached' = 0
    BY <1>0, <1>14 DEF Reached
  <2>2. ASSUME ~OneState, NEW i \in 0 .. Depth(job) - 1
        PROVE  Stands(job, i, ks', rows', seq', base')
    <3>1. CASE opts.incremental
      <4>1. ks' = ks
        BY <1>14, <3>1 DEF Feed
      <4>2. Stands(job, i, ks, rows, seq, cached)
        BY <1>0, <1>2, <3>1 DEF Remembers
      <4>3. Stands(job, i, ks, rows, seq', cached)
        BY <1>4, <1>9, <4>2 DEF MovesTo, Moved
      <4>4. QED
        BY <1>0, <3>1, <4>1, <4>3
    <3>2. CASE ~opts.incremental
      <4>1. ks' = [k \in DOMAIN ks |-> ClearState(c)] /\ base' = 0
        BY <1>0, <1>14, <3>2 DEF Feed
      <4>2. ks'[i] = ClearState(Meant(job))
        BY <1>3, <1>4, <2>2, <4>1
      <4>3. i \in 0 .. Depth(job) /\ Meant(job).conv_k \in Nat \ {0} /\ Depth(job) \in Nat
        BY <1>1, <1>4 DEF Served
      <4>4. Stands(job, i, ks', rows', seq', 0)
        BY <1>6, <4>2, <4>3, ClearStands
      <4>5. QED
        BY <4>1, <4>4
    <3>3. QED
      BY <3>1, <3>2
  <2>3. Absorbs'
    BY <1>0, <1>3, <2>1, <2>2 DEF Absorbs
  <2>4. Computes'
    <3> DEFINE S == StartOf(job, seq')
               E == EmbedOf
    <3>1. /\ h' = [t \in 1 .. n |-> Kernel("embed", <<E, seq'[base' + t]>>)]
          /\ br' = [i \in 0 .. n * maxb(c) - 1 |-> Zero]
      BY DEF Feed, EmbedOf, n, M
    <3>2. E = Weights(job, Meant(job).n_layers).embed
      BY <1>0, TopIs DEF Serves
    <3>3. After(job, seq')[0] = S
      <4>1. Depth(job) \in Nat
        BY <1>4
      <4>2. Walked(After(job, seq'), job, seq', Depth(job))
        BY <4>1, AfterIs
      <4>3. QED
        BY <4>2 DEF Walked
    <3> HIDE DEF E
    <3>4. \A t \in 1 .. n : base' + t \in 1 .. M
      <4> DEFINE b == base'
      <4>1. b \in 0 .. M - 1 /\ n \in Nat /\ b + n = M /\ M \in Nat
        BY <1>7, <1>8
      <4> HIDE DEF b
      <4>2. \A t \in 1 .. n : b + t \in 1 .. M
        BY <4>1
      <4>3. QED
        BY <4>2 DEF b
    <3>5. \A t \in 1 .. n : S.x[base' + t] = Kernel("embed", <<E, seq'[base' + t]>>)
                            /\ S.blocks[base' + t] = <<>>
      BY <1>7, <3>2, <3>4 DEF StartOf
    <3> HIDE DEF S
    <3>6. IsSeq(h', n)
      BY <1>8, <3>1 DEF IsSeq
    <3>7. Shelved(Meant(job), br', 0, n, base', S.blocks)
      BY DEF Shelved
    <3>8. DOMAIN br' = 0 .. n * maxb(Meant(job)) - 1
      BY <1>3, <3>1
    <3>9. Held(Meant(job), br', 0, h', n, base', S.x, S.blocks)
      BY <3>1, <3>5, <3>6, <3>7, <3>8, SeqNone DEF Held
    <3>10. Entering(job, seq', 0, br', 0, h', base')
      BY <3>3, <3>9 DEF Entering, n, M
    <3>11. QED
      BY <1>0, <1>14, <3>10 DEF Computes
  <2>5. QED
    BY <1>11, <1>12, <2>3, <2>4 DEF History
<1>15. QED
  BY <1>0, <1>13, <1>14

(* The clear states a process begins with. *)
LEMMA BindsModelKept ==
    ASSUME Described, IInv, IInv', Quiet, Exact(job), BindsModel
    PROVE  History'
<1> USE DEF process, caller
<1>0. /\ pc = "model" /\ pc' \in {"ready", "refused"} /\ UNCHANGED <<job, cfg, seq, cached, snap, base, L>>
      /\ ks' = [n \in 0 .. state_layers - 1 |-> IF opts.incremental THEN ClearState(c) ELSE NoState]
  BY DEF BindsModel, pass
<1>1. cached = 0 /\ snap.at = 0
  BY <1>0 DEF Quiet, Serves, InPass
<1> SUFFICES ASSUME pc' = "ready" PROVE History'
  BY <1>0 DEF History, Serves, InPass
<1>2. Fitting(job)'
  BY <1>0, MeantNext DEF Serves, Exact
<1>3. c' = c /\ NL' = NL /\ opts' = opts
  BY <1>0, Still
<1>4. c = Meant(job) /\ NL = Depth(job) /\ Depth(job) \in Nat /\ Meant(job).conv_k \in Nat \ {0}
  BY <1>0, <1>2, <1>3 DEF Fitting, Meant, Depth
<1>5. IsSeq(seq, Len(seq))
  BY SeqOf DEF IInv, Ranges
<1>6. ASSUME opts.incremental, NEW n \in 0 .. Depth(job) - 1
      PROVE  Stands(job, n, ks', rows', seq, 0)
  <2>1. state_layers = Depth(job)
    BY <1>4, <1>6 DEF state_layers, OneState
  <2>2. ks'[n] = ClearState(Meant(job)) /\ n \in 0 .. Depth(job)
    BY <1>0, <1>4, <1>6, <2>1
  <2>3. QED
    BY <1>4, <1>5, <2>2, ClearStands
<1>7. Remembers'
  BY <1>0, <1>1, <1>3, <1>6 DEF Remembers
<1>8. Saves' /\ Absorbs' /\ Computes'
  BY <1>0, <1>1 DEF Saves, Absorbs, Computes, InPass
<1>9. QED
  BY <1>7, <1>8 DEF History

LEMMA RanksKept ==
    ASSUME Described, IInv, Quiet, History, Exact(job), Ranks
    PROVE  History'
<1> USE DEF process, carried, pass
<1>0. /\ pc = "layer" /\ L = NL /\ pc' \in {"answered", "failed"}
      /\ UNCHANGED <<job, cfg, seq, snap, ks, rows>>
      /\ pc' = "answered" => cached' = (IF opts.incremental THEN Len(seq) ELSE cached)
  BY DEF Ranks
<1>1. Served(Len(seq))
  BY <1>0, ServedIs DEF Serves, InPass
<1>2. Absorbs /\ Saves
  BY <1>0 DEF History, Serves, InPass
<1>3. opts' = opts /\ NL = Depth(job)
  BY <1>0, <1>1 DEF opts, Served, Fitting
<1>4. Saves'
  BY <1>0, <1>2 DEF Saves
<1>5. Remembers'
  <2>1. Reached - 1 = Depth(job) - 1
    BY <1>0, <1>3 DEF Reached
  <2>2. opts.incremental => \A n \in 0 .. Depth(job) - 1 : Stands(job, n, ks, rows, seq, Len(seq))
    BY <1>0, <1>2, <2>1 DEF Absorbs, InPass
  <2>3. QED
    BY <1>0, <1>3, <2>2 DEF Remembers
<1>6. Absorbs' /\ Computes'
  BY <1>0 DEF Absorbs, Computes, InPass
<1>7. QED
  BY <1>4, <1>5, <1>6 DEF History

LEMMA DrawsKeepHistory ==
    ASSUME Described, IInv, Quiet, History, Exact(job), Draws
    PROVE  History'
<1> USE DEF process, carried
<1> DEFINE N == Len(seq)
<1>0. pc = "answered" /\ pc' = "ready" /\ UNCHANGED <<job, cfg, cached, snap, ks, rows>>
      /\ \E x : seq' = Append(seq, x)
  BY DEF Draws
<1>1. Served(N)
  BY <1>0, ServedIs DEF Serves
<1>2. Remembers /\ Saves
  BY <1>0 DEF History, Serves
<1>3. IsSeq(seq, N) /\ N \in Nat /\ cached \in 0 .. N /\ opts' = opts
  BY <1>0, <1>1 DEF Served, IsSeq, opts
<1>4. IsSeq(seq', N + 1) /\ \A t \in 1 .. N : seq'[t] = seq[t]
  BY <1>0, <1>3, SeqAppend DEF Extends
<1> HIDE DEF N
<1>5. \A p \in 0 .. N : MovesTo(seq', p)
  <2>1. ASSUME NEW p \in 0 .. N PROVE MovesTo(seq', p)
    <3>1. p \in Nat /\ p <= N /\ p <= N + 1
      BY <1>3
    <3>2. Same(seq, seq', p)
      BY <1>3, <1>4 DEF Same
    <3>3. QED
      BY <1>1, <1>4, <3>1, <3>2, TextMoves
  <2>2. QED
    BY <2>1
<1>6. snap.at \in 0 .. N
  <2>1. snap.at \in Nat /\ snap.at <= cached
    BY ForwardAssumption DEF Quiet, IInv, Ranges
  <2>2. QED
    BY <1>3, <2>1
<1>7. Saves'
  BY <1>0, <1>2, <1>5, <1>6 DEF Saves, MovesTo, Moved
<1>8. Remembers'
  BY <1>0, <1>2, <1>3, <1>5 DEF Remembers, MovesTo, Moved
<1>9. Absorbs' /\ Computes'
  BY <1>0 DEF Absorbs, Computes, InPass
<1>10. QED
  BY <1>7, <1>8, <1>9 DEF History

(* A process that stops in the middle keeps what it saved.                  *)
LEMMA StopsKept ==
    ASSUME History, Exact(job), pc \in Serves, pc' \in {"failed", "astray"},
           UNCHANGED <<job, seq, snap>>
    PROVE  History'
<1>1. Saves
  BY DEF History
<1>2. Saves'
  BY <1>1 DEF Saves
<1>3. Remembers' /\ Absorbs' /\ Computes'
  BY DEF Remembers, Absorbs, Computes, InPass
<1>4. QED
  BY <1>2, <1>3 DEF History

LEMMA SnapshotKept ==
    ASSUME History, Exact(job), Snapshot
    PROVE  History'
<1> USE DEF process, carried, pass
<1>0. /\ pc \in {"ready", "answered"} /\ opts.incremental /\ snap' = [ks |-> ks, at |-> cached]
      /\ UNCHANGED <<pc, job, cfg, seq, cached, ks, rows>>
  BY DEF Snapshot
<1>1. Remembers
  BY <1>0 DEF History, Serves
<1>2. snap'.ks = ks /\ snap'.at = cached /\ opts' = opts
  BY <1>0 DEF opts
<1>3. Remembers'
  BY <1>0, <1>1, <1>2 DEF Remembers
<1>4. Saves'
  <2>1. ASSUME NEW n \in 0 .. Depth(job) - 1, ~is_mla(Meant(job), n)
        PROVE  KdaStands(job, n, ks, seq, cached)
    BY <1>0, <1>1, <2>1 DEF Remembers, Stands
  <2>2. QED
    BY <1>0, <1>2, <2>1 DEF Saves
<1>5. Absorbs' /\ Computes'
  BY <1>0 DEF Absorbs, Computes, InPass
<1>6. QED
  BY <1>3, <1>4, <1>5 DEF History

LEMMA ClearsKept ==
    ASSUME Described, IInv, Quiet, History, Exact(job), Clears
    PROVE  History'
<1> USE DEF process
<1>0. /\ pc \in {"ready", "answered"} /\ pc' = "ready" /\ opts.incremental /\ UNCHANGED <<job, cfg>>
      /\ ks' = [n \in DOMAIN ks |-> ClearState(c)]
      /\ seq' = <<>> /\ cached' = 0 /\ snap' = [ks |-> <<>>, at |-> 0]
  BY DEF Clears
<1>1. Served(Len(seq))
  BY <1>0, ServedIs DEF Serves
<1>2. c = Meant(job) /\ Depth(job) \in Nat /\ Meant(job).conv_k \in Nat \ {0}
  BY <1>1 DEF Served, Fitting
<1>3. DOMAIN ks = 0 .. Depth(job) - 1
  BY <1>0, <1>1 DEF Served, OneState
<1>4. ASSUME NEW n \in 0 .. Depth(job) - 1
      PROVE  Stands(job, n, ks', rows', seq', 0)
  <2>1. ks'[n] = ClearState(Meant(job)) /\ n \in 0 .. Depth(job)
    BY <1>0, <1>2, <1>3
  <2>2. IsSeq(seq', 0)
    BY <1>0, SeqNone
  <2>3. QED
    BY <1>2, <2>1, <2>2, ClearStands
<1>5. Remembers'
  BY <1>0, <1>4 DEF Remembers
<1>6. snap'.at = 0
  BY <1>0
<1>7. Saves' /\ Absorbs' /\ Computes'
  BY <1>0, <1>6 DEF Saves, Absorbs, Computes, InPass
<1>8. QED
  BY <1>5, <1>7 DEF History

LEMMA RewindsKept ==
    ASSUME Described, IInv, Quiet, History, Exact(job), NEW keep \in 1 .. Tmax, Rewinds(keep)
    PROVE  History'
<1> USE DEF process
<1> DEFINE N == Len(seq)
           p == snap.at
<1>0. /\ pc = "answered" /\ pc' = "ready" /\ opts.incremental /\ p > 0
      /\ keep \in p + 1 .. N /\ ks' = snap.ks /\ cached' = p /\ seq' = SubSeq(seq, 1, keep)
      /\ UNCHANGED <<job, cfg, snap, rows>>
  BY DEF Rewinds, Exact, opts
<1>1. Served(N)
  BY <1>0, ServedIs DEF Serves
<1>2. Remembers /\ Saves
  BY <1>0 DEF History, Serves
<1>3. IsSeq(seq, N) /\ N \in Nat /\ cached \in 0 .. N /\ opts' = opts /\ p \in Nat /\ p <= cached
  <2>1. IsSeq(seq, N) /\ cached \in 0 .. N /\ N \in Nat
    BY <1>1 DEF Served, IsSeq
  <2>2. p \in Nat /\ p <= cached
    BY ForwardAssumption DEF IInv, Ranges, Quiet
  <2>3. opts' = opts
    BY <1>0 DEF opts
  <2>4. QED
    BY <2>1, <2>2, <2>3
<1> HIDE DEF N, p
<1>4. keep \in 0 .. N /\ p <= keep /\ p <= N
  BY <1>0, <1>3
<1>5. IsSeq(seq', keep) /\ \A t \in 1 .. keep : seq'[t] = seq[t]
  BY <1>0, <1>3, <1>4, SeqCut
<1>6. MovesTo(seq', p)
  <2>1. Same(seq, seq', p)
    BY <1>3, <1>4, <1>5 DEF Same
  <2>2. QED
    BY <1>1, <1>3, <1>4, <1>5, <2>1, TextMoves
<1>7. ASSUME NEW n \in 0 .. Depth(job) - 1, ~is_mla(Meant(job), n)
      PROVE  KdaStands(job, n, snap.ks, seq', p)
  <2>1. KdaStands(job, n, snap.ks, seq, p)
    BY <1>0, <1>2, <1>7 DEF Saves, p
  <2>2. QED
    BY <1>6, <2>1 DEF MovesTo, Moved
<1>8. ASSUME NEW n \in 0 .. Depth(job) - 1, is_mla(Meant(job), n)
      PROVE  MlaStands(job, n, rows, seq', p)
  <2>1. MlaStands(job, n, rows, seq, cached)
    BY <1>0, <1>2, <1>8 DEF Remembers, Stands
  <2>2. cached \in Nat /\ p \in 0 .. cached
    BY <1>3
  <2>3. MlaStands(job, n, rows, seq, p)
    BY <2>1, <2>2, RowsCut
  <2>4. QED
    BY <1>6, <2>3 DEF MovesTo, Moved
<1>9. \A n \in 0 .. Depth(job) - 1 : Stands(job, n, snap.ks, rows, seq', p)
  BY <1>7, <1>8 DEF Stands
<1>10. Remembers'
  BY <1>0, <1>9 DEF Remembers
<1>11. Saves'
  BY <1>0, <1>7 DEF Saves, p
<1>12. Absorbs' /\ Computes'
  BY <1>0 DEF Absorbs, Computes, InPass
<1>13. QED
  BY <1>10, <1>11, <1>12 DEF History

LEMMA HistoryKept ==
    ASSUME Described, Uniform, Ordered, IInv, IInv', Quiet, History, [Next]_vars
    PROVE  History'
<1> USE DEF process, caller, pass, carried
<1>0. job' = job
  <2>1. CASE UNCHANGED vars
    BY <2>1 DEF vars
  <2>2. CASE Loads \/ BindsLayers \/ OpensTrunk \/ BindsModel
    BY <2>2 DEF Loads, BindsLayers, OpensTrunk, BindsModel
  <2>3. CASE \E new \in Feeds, all \in BOOLEAN : Feed(new, all)
    BY <2>3 DEF Feed
  <2>4. CASE Fetches \/ Lent \/ NotLent \/ AlreadyBound
    BY <2>4 DEF Fetches, Lent, NotLent, AlreadyBound
  <2>5. CASE Attends \/ Mlp \/ Spills
    BY <2>5 DEF Attends, Mlp, Spills
  <2>6. CASE Ranks
    BY <2>6 DEF Ranks
  <2>7. CASE Draws \/ NotDrawn \/ Snapshot \/ Clears
    BY <2>7 DEF Draws, NotDrawn, Snapshot, Clears
  <2>8. CASE \E keep \in 1 .. Tmax : Rewinds(keep)
    BY <2>8 DEF Rewinds
  <2>9. QED
    BY <2>1, <2>2, <2>3, <2>4, <2>5, <2>6, <2>7, <2>8 DEF Next
<1> SUFFICES ASSUME Exact(job) PROVE History'
  BY <1>0 DEF History
<1>1. CASE Loads \/ BindsLayers \/ OpensTrunk
  <2>1. pc' \notin Serves
    BY <1>1 DEF Loads, BindsLayers, OpensTrunk, Serves, InPass
  <2>2. QED
    BY <2>1 DEF History
<1>2. CASE BindsModel
  BY <1>2, BindsModelKept
<1>3. ASSUME NEW new \in Feeds, NEW all \in BOOLEAN, Feed(new, all) PROVE History'
  BY <1>3, FeedKept
<1>4. CASE Fetches \/ Lent \/ NotLent \/ AlreadyBound
  <2>1. /\ pc \in {"layer", "fetch", "attention"} /\ pc' \in {"layer", "fetch", "attention", "failed"}
        /\ UNCHANGED <<job, cfg, seq, snap, base, L, nb, h, br, ks, rows>>
    BY <1>4 DEF Fetches, Lent, NotLent, AlreadyBound
  <2>2. QED
    BY <2>1, WalkKept
<1>5. CASE Attends
  BY <1>5, AttendsKept
<1>6. CASE Mlp
  BY <1>6, MlpKept
<1>7. CASE Ranks
  BY <1>7, RanksKept
<1>8. CASE Draws
  BY <1>8, DrawsKeepHistory
<1>9. CASE Snapshot
  BY <1>9, SnapshotKept
<1>10. CASE Clears
  BY <1>10, ClearsKept
<1>11. ASSUME NEW keep \in 1 .. Tmax, Rewinds(keep) PROVE History'
  BY <1>11, RewindsKept
<1>12. CASE UNCHANGED vars
  <2>1. UNCHANGED <<pc, job, cfg, seq, cached, snap, base, L, nb, h, br, ks, rows>>
    BY <1>12 DEF vars
  <2>2. opts' = opts /\ OneState' = OneState /\ Reached' = Reached
    BY <2>1 DEF opts, OneState, Reached
  <2>3. CASE pc \in Serves
    <3>1. Remembers /\ Saves /\ Absorbs /\ Computes
      BY <2>3 DEF History
    <3>2. Remembers' /\ Saves'
      BY <2>1, <2>2, <3>1 DEF Remembers, Saves
    <3>3. Absorbs'
      BY <2>1, <2>2, <3>1 DEF Absorbs
    <3>4. Computes'
      BY <2>1, <3>1 DEF Computes
    <3>5. QED
      BY <3>2, <3>3, <3>4 DEF History
  <2>4. CASE pc \notin Serves
    BY <2>1, <2>4 DEF History
  <2>5. QED
    BY <2>3, <2>4
<1>13. CASE Spills \/ NotDrawn
  <2>1. pc \in Serves /\ pc' \in {"failed", "astray"} /\ UNCHANGED <<seq, snap>>
    BY <1>13 DEF Spills, NotDrawn, Serves, InPass
  <2>2. QED
    BY <1>0, <2>1, StopsKept
<1>14. QED
  BY <1>1, <1>2, <1>3, <1>4, <1>5, <1>6, <1>7, <1>8, <1>9, <1>10, <1>11, <1>12, <1>13 DEF Next

LEMMA HistoryBegins == Init => Quiet /\ History
<1> SUFFICES ASSUME Init PROVE Quiet /\ History
  OBVIOUS
<1>1. pc = "config" /\ cached = 0 /\ snap = [ks |-> <<>>, at |-> 0]
  BY DEF Init
<1>2. snap.at = 0
  BY <1>1
<1>3. QED
  BY <1>1, <1>2 DEF Quiet, Lends, History, Serves, InPass

(* As CarriesHistory says it. *)
LEMMA HistoryFollows ==
    ASSUME Described, IInv, Quiet, History
    PROVE  CarriesHistory
<1> SUFFICES ASSUME pc \in {"ready", "answered"}, opts.incremental, ~opts.draft PROVE CarriesHistory
  BY DEF CarriesHistory
<1>0. Exact(job) /\ pc \in Serves
  BY DEF Exact, opts, Serves
<1>1. Served(Len(seq)) /\ Remembers
  BY <1>0, ServedIs DEF History
<1>2. /\ c = Meant(job) /\ NL = Depth(job) /\ Depth(job) \in Nat /\ IsSeq(seq, Len(seq))
      /\ cached \in 0 .. Len(seq) /\ Len(seq) \in Nat /\ \A n : mla_slot(n) = SlotOf(job, n)
  BY <1>1 DEF Served, Fitting, IsSeq
<1> DEFINE s == SubSeq(seq, 1, cached)
<1>3. IsSeq(s, cached) /\ Same(seq, s, cached) /\ cached \in Nat /\ cached <= Len(seq)
  BY <1>2, SeqCut DEF Same
<1> HIDE DEF s
<1>4. MovesTo(s, cached)
  BY <1>1, <1>3, TextMoves
<1> DEFINE given == Model!Through(job, s).given
<1>5. \A n \in 0 .. Depth(job) - 1 : given[n + 1] = Heard(job, s, n)
  <2>1. Shaped(After(job, s), job, cached, Depth(job))
    BY <1>2, <1>3, AfterShaped
  <2>2. Depth(job) \in 0 .. Depth(job)
    BY <1>2
  <2>3. Recorded(After(job, s), job, Depth(job))
    BY <2>1, <2>2 DEF Shaped
  <2>4. Model!Through(job, s) = After(job, s)[Depth(job)]
    BY <1>2, AfterIs
  <2>5. QED
    BY <2>3, <2>4 DEF Recorded, Heard
<1> HIDE DEF given
<1>6. ASSUME NEW n \in 0 .. NL - 1
      PROVE  Recalls(n, given[n + 1])
  <2> DEFINE w == Weights(job, n)
             xs == given[n + 1]
             m == Meant(job)
  <2>1. xs = Heard(job, s, n)
    BY <1>2, <1>5
  <2>2. Stands(job, n, ks, rows, seq, cached)
    BY <1>1, <1>2 DEF Remembers
  <2>3. Stands(job, n, ks, rows, s, cached)
    BY <1>2, <1>4, <2>2 DEF MovesTo, Moved
  <2> HIDE DEF xs
  <2>4. CASE is_mla(m, n)
    <3>1. HasRows(rows[mla_slot(n)], m, w, xs, cached)
      BY <1>2, <2>1, <2>3, <2>4 DEF Stands, MlaStands
    <3>2. QED
      BY <2>4, <3>1 DEF HasRows, Recalls, xs
  <2>5. CASE ~is_mla(m, n)
    <3>1. ks[n] = Hist(m, w, xs, cached)
      BY <2>1, <2>3, <2>5 DEF Stands, KdaStands
    <3>2. ks[n] = [S |-> Model!KdaStates(m, w, xs)[cached],
                   q |-> Model!Window([t \in DOMAIN xs |-> mmw(xs[t], w["q"])], cached, m.conv_k - 1),
                   k |-> Model!Window([t \in DOMAIN xs |-> mmw(xs[t], w["k"])], cached, m.conv_k - 1),
                   v |-> Model!Window([t \in DOMAIN xs |-> mmw(xs[t], w["v"])], cached, m.conv_k - 1)]
      BY <3>1 DEF Hist, Proj
    <3>3. QED
      BY <2>5, <3>2 DEF Recalls, xs
  <2>6. QED
    BY <2>4, <2>5
<1>7. QED
  BY <1>6 DEF CarriesHistory, given, s

(* Whatever was fed at once, cached, rewound or cleared, between passes the *)
(* engine carries of each layer what the model has after the positions      *)
(* absorbed, for every size of buffers, chunks and models that is not       *)
(* negative: when the config is the checkpoint's, packs are even and biased *)
(* scores are numbers.                                                      *)
THEOREM HistoryHeld ==
    ASSUME NaturalSizes, Described, Uniform, Ordered
    PROVE  Spec => []CarriesHistory
<1>1. Init => Quiet /\ History
  BY HistoryBegins
<1>2. IInv /\ IInv' /\ Quiet /\ History /\ [Next]_vars => Quiet' /\ History'
  BY QuietKept, HistoryKept
<1>3. IInv /\ Quiet /\ History => CarriesHistory
  BY HistoryFollows
<1>4. QED
  BY <1>1, <1>2, <1>3, Invariant, PTL DEF Spec

-----------------------------------------------------------------------------
(* What the model answers, of what has come through: at a position what it  *)
(* answers after the text that ends there.                                  *)
TopOf(j, last, t) ==
    LET W == Weights(j, Meant(j).n_layers)
    IN rmsnorm(attn_res(Append(last.blocks[t], last.x[t]),
                        mul(W.out_res_norm, W.out_res_proj), Meant(j)), W.norm, Meant(j))
RankedAt(j, last, t) ==
    [v \in 0 .. Meant(j).vocab - 1 |->
        Kernel("logit", <<TopOf(j, last, t), Weights(j, Meant(j).n_layers).lm_head, v>>)]

LEMMA RankedIs ==
    ASSUME NEW j, NEW last, NEW t
    PROVE  Model!LogitsAt(j, last, t) = RankedAt(j, last, t)
<1> DEFINE W == Weights(j, Meant(j).n_layers)
           S == Append(last.blocks[t], last.x[t])
           m == Meant(j)
<1>1. Model!mul(W.out_res_norm, W.out_res_proj) = mul(W.out_res_norm, W.out_res_proj)
  BY DEF Model!mul, mul
<1>2. \A s, f : Model!attn_res(s, f, m) = attn_res(s, f, m)
  BY DEF Model!attn_res, attn_res
<1>3. \A x, g : Model!rmsnorm(x, g, m) = rmsnorm(x, g, m)
  BY DEF Model!rmsnorm, rmsnorm
<1> DEFINE top == Model!rmsnorm(Model!attn_res(S, Model!mul(W.out_res_norm, W.out_res_proj), m), W.norm, m)
<1>4. top = TopOf(j, last, t)
  BY <1>1, <1>2, <1>3 DEF TopOf
<1>5. Model!LogitsAt(j, last, t) = [v \in 0 .. m.vocab - 1 |-> Kernel("logit", <<top, W.lm_head, v>>)]
  BY DEF Model!LogitsAt, Model!Table, Model!Top
<1> HIDE DEF top
<1>6. QED
  BY <1>4, <1>5 DEF RankedAt

LEMMA RankedAgrees ==
    ASSUME NEW j, Meant(j).conv_k \in Nat \ {0}, Depth(j) \in Nat,
           NEW s, NEW N, IsSeq(s, N), NEW p \in 1 .. N
    PROVE  RankedAt(j, After(j, s)[Depth(j)], p) = Model!Logits(j, SubSeq(s, 1, p))
<1> DEFINE z == SubSeq(s, 1, p)
           D == Depth(j)
<1>1. N \in Nat
  BY DEF IsSeq
<1>2. p \in 0 .. N /\ p \in Nat /\ p <= N /\ p <= p
  BY <1>1
<1>3. IsSeq(z, p) /\ \A t \in 1 .. p : z[t] = s[t]
  BY <1>2, SeqCut
<1> HIDE DEF z
<1>4. Same(s, z, p)
  BY <1>3 DEF Same
<1>5. \A i \in 0 .. D : Agree(After(j, s)[i], After(j, z)[i], p)
  BY <1>2, <1>3, <1>4, AfterAgrees
<1>6. D \in 0 .. D /\ p \in 1 .. p
  BY <1>2
<1>7. Agree(After(j, s)[D], After(j, z)[D], p)
  BY <1>5, <1>6
<1>8. /\ After(j, s)[D].x[p] = After(j, z)[D].x[p]
      /\ After(j, s)[D].blocks[p] = After(j, z)[D].blocks[p]
  BY <1>6, <1>7 DEF Agree
<1>9. RankedAt(j, After(j, s)[D], p) = RankedAt(j, After(j, z)[D], p)
  BY <1>8 DEF RankedAt, TopOf
<1>10. Len(z) = p
  BY <1>3, SeqIs
<1>11. Model!Logits(j, z) = Model!LogitsAt(j, After(j, z)[D], p)
  BY <1>10, AfterIs DEF Model!Logits
<1>12. QED
  BY <1>9, <1>11, RankedIs DEF z

(* What the engine makes of a position, at the end of its walk.             *)
TopHere(t) ==
    rmsnorm(Aggregated(c, br, nb, h, mul(GotOfModel.out_res_norm, GotOfModel.out_res_proj))[t],
            GotOfModel.norm, c)
RankedHere(t) == [v \in 0 .. c.vocab - 1 |-> Kernel("logit", <<TopHere(t), HeadOf, v>>)]

LEMMA HereIs ==
    ASSUME Described, IInv, Quiet, History, Exact(job), pc = "layer", L = NL
    PROVE  \A t \in 1 .. Len(seq) - base : RankedHere(t) = Model!Logits(job, SubSeq(seq, 1, base + t))
<1> DEFINE N == Len(seq)
           n == N - base
           D == Depth(job)
           R == After(job, seq)[D]
           W == Weights(job, Meant(job).n_layers)
           fold == mul(GotOfModel.out_res_norm, GotOfModel.out_res_proj)
<1>1. Served(N)
  BY ServedIs DEF Serves, InPass
<1>2. c = Meant(job) /\ NL = D /\ IsSeq(seq, N) /\ D \in Nat /\ Meant(job).conv_k \in Nat \ {0}
  BY <1>1 DEF Served, Fitting
<1>3. N \in Nat /\ base \in Nat /\ base < N
  <2>1. cfg.ok /\ base \in Nat
    BY ForwardAssumption DEF IInv, Ranges, Loaded
  <2>2. base < N
    BY <2>1 DEF IInv, Walks, InPass
  <2>3. QED
    BY <1>2, <2>1, <2>2 DEF IsSeq
<1>4. Held(Meant(job), br, nb, h, n, base, R.x, R.blocks)
  <2>1. Computes
    BY DEF History, Serves, InPass
  <2>2. QED
    BY <1>2, <2>1 DEF Computes, Entering
<1>5. /\ Alike(GotOfModel, W, TopNames)
      /\ HeadOf = W.lm_head
  BY TopIs DEF Serves, InPass
<1>6. /\ GotOfModel.norm = W.norm /\ GotOfModel.out_res_norm = W.out_res_norm
      /\ GotOfModel.out_res_proj = W.out_res_proj
  <2>1. /\ GotOfModel["norm"] = W["norm"] /\ GotOfModel["out_res_norm"] = W["out_res_norm"]
        /\ GotOfModel["out_res_proj"] = W["out_res_proj"]
    BY <1>5 DEF Alike, TopNames
  <2>2. QED
    BY <2>1
<1> HIDE DEF N, R, W, fold
<1>7. Sums(Aggregated(Meant(job), br, nb, h, fold), n, base, R.x, R.blocks, fold, Meant(job))
  BY <1>4, AggregatedIs
<1>8. ASSUME NEW t \in 1 .. n
      PROVE  RankedHere(t) = Model!Logits(job, SubSeq(seq, 1, base + t))
  <2>1. Aggregated(c, br, nb, h, fold)[t]
          = attn_res(Append(R.blocks[base + t], R.x[base + t]), fold, Meant(job))
    BY <1>2, <1>7 DEF Sums
  <2>2. fold = mul(W.out_res_norm, W.out_res_proj)
    BY <1>6 DEF fold
  <2>3. TopHere(t) = TopOf(job, R, base + t)
    BY <1>2, <1>6, <2>1, <2>2 DEF TopHere, TopOf, W, fold
  <2>4. RankedHere(t) = RankedAt(job, R, base + t)
    BY <1>2, <1>5, <2>3 DEF RankedHere, RankedAt, W
  <2>5. base + t \in 1 .. N
    BY <1>3
  <2>6. RankedAt(job, R, base + t) = Model!Logits(job, SubSeq(seq, 1, base + t))
    BY <1>2, <2>5, RankedAgrees DEF R
  <2>7. QED
    BY <2>4, <2>6
<1>9. QED
  BY <1>8 DEF N

LEMMA RanksAs ==
    ASSUME Ranks, pc' = "answered"
    PROVE  /\ lg' = RankedHere(T)
           /\ args' = [p \in {base + t : t \in IF full THEN 1 .. T ELSE {}} |-> argmax(RankedHere(p - base))]
BY DEF Ranks, Table, RankedHere, TopHere, HeadOf

(* The caller's tokens are tokens. *)
Tokens == seq \in Seq(Nat)

LEMMA VocabIs ==
    ASSUME IInv, cfg.ok
    PROVE  c.vocab \in Nat \ {0}
<1>1. c.vocab \in Nat
  BY ConfigIs, SizesAre
<1>2. QED
  BY <1>1, ConfigIs

LEMMA DrawsToken ==
    ASSUME Weighable, IInv, Logits, Tokens, Draws
    PROVE  Tokens'
<1> USE DEF caller, process
<1>1. PICK x \in Sampled \ {NoToken} : seq' = Append(seq, x)
  BY DEF Draws
<1>2. pc = "answered" /\ cfg.ok /\ opts \in Options
  BY JobsAssumption DEF Draws, IInv, Ranges, Loaded, opts
<1>3. c.vocab \in Nat \ {0} /\ lg \in [0 .. c.vocab - 1 -> Int]
  BY <1>2, VocabIs DEF Logits
<1>4. /\ opts.top_k \in Int /\ opts.top_p.num \in Nat \ {0} /\ opts.top_p.den \in Nat \ {0}
      /\ opts.top_p.num <= opts.top_p.den
  BY <1>2 DEF Options
<1>5. x \in k3_sampler_next(lg, opts.greedy, opts.top_k, opts.top_p) \ {NoToken}
  BY <1>1 DEF Sampled
<1>6. x \in 0 .. c.vocab - 1
  BY <1>3, <1>4, <1>5, SampledIs
<1>7. x \in Nat
  BY <1>3, <1>6
<1>8. QED
  BY <1>1, <1>7, AppendProperties DEF Tokens

LEMMA TokensKept ==
    ASSUME Weighable, IInv, Logits, Tokens, [Next]_vars
    PROVE  Tokens'
<1> USE DEF process, caller
<1>1. ASSUME UNCHANGED seq PROVE Tokens'
  BY <1>1 DEF Tokens
<1>2. CASE Loads \/ BindsLayers \/ OpensTrunk \/ BindsModel
  BY <1>1, <1>2 DEF Loads, BindsLayers, OpensTrunk, BindsModel
<1>3. ASSUME NEW new \in Feeds, NEW all \in BOOLEAN, Feed(new, all) PROVE Tokens'
  <2>1. seq' = seq \o new /\ new \in Seq(Nat)
    BY <1>3, ForwardAssumption DEF Feed
  <2>2. QED
    BY <2>1, Joined DEF Tokens
<1>4. CASE Fetches \/ Lent \/ NotLent \/ AlreadyBound
  BY <1>1, <1>4 DEF Fetches, Lent, NotLent, AlreadyBound
<1>5. CASE Attends \/ Mlp \/ Spills
  BY <1>1, <1>5 DEF Attends, Mlp, Spills
<1>6. CASE Ranks
  BY <1>1, <1>6 DEF Ranks
<1>7. CASE Draws
  BY <1>7, DrawsToken
<1>8. CASE Snapshot \/ NotDrawn
  BY <1>1, <1>8 DEF Snapshot, NotDrawn
<1>9. CASE Clears
  <2>1. seq' = <<>>
    BY <1>9 DEF Clears
  <2>2. QED
    BY <2>1, EmptySeq DEF Tokens
<1>10. ASSUME NEW keep \in 1 .. Tmax, Rewinds(keep) PROVE Tokens'
  <2>1. keep \in snap.at + 1 .. Len(seq) /\ seq' = SubSeq(seq, 1, keep)
    BY <1>10 DEF Rewinds
  <2>2. snap.at \in Nat /\ Len(seq) \in Nat
    BY ForwardAssumption, LenProperties DEF IInv, Ranges, Tokens
  <2>3. keep \in 0 .. Len(seq)
    BY <2>1, <2>2
  <2>4. QED
    BY <2>1, <2>3, Firsts DEF Tokens
<1>11. CASE UNCHANGED vars
  BY <1>1, <1>11 DEF vars
<1>12. QED
  BY <1>2, <1>3, <1>4, <1>5, <1>6, <1>7, <1>8, <1>9, <1>10, <1>11 DEF Next

(* A pass that ends well answers. *)
LEMMA RanksAnswer ==
    ASSUME Described, IInv, Quiet, History, Ranks, pc' = "answered"
    PROVE  Model!Answer
<1> USE DEF process
<1>0. pc = "layer" /\ L = NL /\ job' = job /\ seq' = seq
  BY DEF Ranks
<1>1. cfg.ok /\ c.vocab \in Nat \ {0}
  BY <1>0, VocabIs DEF IInv, Loaded
<1>2. base \in Nat /\ base < Len(seq) /\ Len(seq) \in Nat
  <2>1. base \in Nat
    BY ForwardAssumption DEF IInv, Ranges
  <2>2. base < Len(seq)
    BY <1>0, <1>1 DEF IInv, Walks, InPass
  <2>3. Len(seq) \in Nat
    BY LenProperties DEF IInv, Ranges
  <2>4. QED
    BY <2>1, <2>2, <2>3
<1>3. seq # <<>>
  BY <1>2, EmptySeq
<1>4. lg' # <<>>
  <2>1. DOMAIN lg' = 0 .. c.vocab - 1
    BY RanksAs DEF RankedHere
  <2>2. 0 \in DOMAIN lg'
    BY <1>1, <2>1
  <2>3. 0 \notin DOMAIN <<>>
    OBVIOUS
  <2>4. QED
    BY <2>2, <2>3
<1> DEFINE reply == [last |-> lg', best |-> args']
<1>5. ASSUME Exact(job)
      PROVE  /\ reply.last = Model!Logits(job, seq)
             /\ \A p \in DOMAIN reply.best : reply.best[p] = argmax(Model!Logits(job, SubSeq(seq, 1, p)))
  <2>1. \A t \in 1 .. Len(seq) - base : RankedHere(t) = Model!Logits(job, SubSeq(seq, 1, base + t))
    BY <1>0, <1>5, HereIs
  <2>2. T \in 1 .. Len(seq) - base /\ base + T = Len(seq) /\ T = Len(seq) - base
    BY <1>2 DEF T
  <2>3. SubSeq(seq, 1, Len(seq)) = seq
    <3>1. PICK S : seq \in Seq(S)
      BY DEF IInv, Ranges
    <3>2. IsSeq(seq, Len(seq))
      BY <3>1, SeqOf
    <3>3. Len(seq) \in 0 .. Len(seq)
      BY <1>2
    <3>4. /\ IsSeq(SubSeq(seq, 1, Len(seq)), Len(seq))
          /\ \A t \in 1 .. Len(seq) : SubSeq(seq, 1, Len(seq))[t] = seq[t]
      BY <3>2, <3>3, SeqCut
    <3>5. QED
      BY <3>2, <3>4, SeqSame
  <2>4. reply.last = Model!Logits(job, seq)
    <3>1. RankedHere(T) = Model!Logits(job, SubSeq(seq, 1, base + T))
      BY <2>1, <2>2
    <3>2. RankedHere(T) = Model!Logits(job, seq)
      BY <2>2, <2>3, <3>1
    <3>3. QED
      BY <3>2, RanksAs
  <2>5. ASSUME NEW p \in DOMAIN args'
        PROVE  args'[p] = argmax(Model!Logits(job, SubSeq(seq, 1, p)))
    <3> DEFINE ts == IF full THEN 1 .. T ELSE {}
    <3>1. args' = [q \in {base + t : t \in ts} |-> argmax(RankedHere(q - base))]
      BY RanksAs
    <3>2. PICK t \in ts : p = base + t
      BY <3>1
    <3>3. t \in 1 .. Len(seq) - base
      BY <2>2
    <3> HIDE DEF ts
    <3>4. p - base = t
      BY <1>2, <3>2, <3>3
    <3>5. args'[p] = argmax(RankedHere(t))
      BY <3>1, <3>2, <3>4
    <3>6. RankedHere(t) = Model!Logits(job, SubSeq(seq, 1, p))
      BY <2>1, <3>2, <3>3
    <3>7. QED
      BY <3>5, <3>6
  <2>6. QED
    BY <2>4, <2>5
<1>6. reply # [last |-> <<>>, best |-> <<>>]
  <2>1. reply.last # <<>>
    BY <1>4
  <2>2. QED
    BY <2>1
<1> HIDE DEF reply
<1>7. (IF pc = "answered" THEN [last |-> lg, best |-> args] ELSE [last |-> <<>>, best |-> <<>>])
        = [last |-> <<>>, best |-> <<>>]
  BY <1>0
<1>8. (IF pc = "answered" THEN [last |-> lg, best |-> args] ELSE [last |-> <<>>, best |-> <<>>])' = reply
  BY DEF reply
<1>9. QED
  BY <1>0, <1>3, <1>5, <1>6, <1>7, <1>8 DEF Model!Answer, Model!NoAnswer

LEMMA Asking ==
    ASSUME job' = job, Tokens', pc' # "answered"
    PROVE  Model!Ask
<1>1. (IF pc = "answered" THEN [last |-> lg, best |-> args] ELSE [last |-> <<>>, best |-> <<>>])'
        = [last |-> <<>>, best |-> <<>>]
  OBVIOUS
<1>2. QED
  BY <1>1 DEF Model!Ask, Model!NoAnswer, Tokens

LEMMA Unanswered ==
    ASSUME UNCHANGED <<job, seq>>, \/ pc # "answered" /\ pc' # "answered"
                                   \/ UNCHANGED <<pc, lg, args>>
    PROVE  UNCHANGED Model!vars
<1>1. (IF pc = "answered" THEN [last |-> lg, best |-> args] ELSE [last |-> <<>>, best |-> <<>>])'
        = IF pc = "answered" THEN [last |-> lg, best |-> args] ELSE [last |-> <<>>, best |-> <<>>]
  OBVIOUS
<1>2. QED
  BY <1>1 DEF Model!vars

LEMMA StepAnswers ==
    ASSUME Described, IInv, Quiet, History, Tokens, Tokens', [Next]_vars
    PROVE  [Model!Next]_(Model!vars)
<1> USE DEF process, caller
<1>1. CASE Loads \/ BindsLayers \/ OpensTrunk \/ BindsModel
  <2>1. UNCHANGED <<job, seq>> /\ pc # "answered" /\ pc' # "answered"
    BY <1>1 DEF Loads, BindsLayers, OpensTrunk, BindsModel
  <2>2. QED
    BY <2>1, Unanswered
<1>2. ASSUME NEW new \in Feeds, NEW all \in BOOLEAN, Feed(new, all) PROVE Model!Ask
  BY <1>2, Asking DEF Feed
<1>3. CASE Fetches \/ Lent \/ NotLent \/ AlreadyBound
  <2>1. UNCHANGED <<job, seq>> /\ pc # "answered" /\ pc' # "answered"
    BY <1>3 DEF Fetches, Lent, NotLent, AlreadyBound
  <2>2. QED
    BY <2>1, Unanswered
<1>4. CASE Attends \/ Mlp \/ Spills
  <2>1. UNCHANGED <<job, seq>> /\ pc # "answered" /\ pc' # "answered"
    BY <1>4 DEF Attends, Mlp, Spills
  <2>2. QED
    BY <2>1, Unanswered
<1>5. CASE Ranks
  <2>1. UNCHANGED <<job, seq>> /\ pc # "answered"
    BY <1>5 DEF Ranks
  <2>2. CASE pc' = "answered"
    BY <1>5, <2>2, RanksAnswer DEF Model!Next
  <2>3. CASE pc' # "answered"
    BY <2>1, <2>3, Unanswered
  <2>4. QED
    BY <2>2, <2>3
<1>6. CASE Draws \/ NotDrawn
  <2>1. job' = job /\ pc' # "answered"
    BY <1>6 DEF Draws, NotDrawn
  <2>2. QED
    BY <2>1, Asking DEF Model!Next
<1>7. CASE Snapshot
  <2>1. UNCHANGED <<job, seq, pc, lg, args>>
    BY <1>7 DEF Snapshot, out
  <2>2. QED
    BY <2>1, Unanswered
<1>8. CASE Clears
  <2>1. job' = job /\ pc' # "answered"
    BY <1>8 DEF Clears
  <2>2. QED
    BY <2>1, Asking DEF Model!Next
<1>9. ASSUME NEW keep \in 1 .. Tmax, Rewinds(keep) PROVE Model!Ask
  BY <1>9, Asking DEF Rewinds
<1>10. CASE UNCHANGED vars
  <2>1. UNCHANGED <<job, seq, pc, lg, args>>
    BY <1>10 DEF vars, out
  <2>2. QED
    BY <2>1, Unanswered
<1>11. QED
  BY <1>1, <1>2, <1>3, <1>4, <1>5, <1>6, <1>7, <1>8, <1>9, <1>10 DEF Next, Model!Next

(* However a text was come by, fed at once or in pieces, drawn, drafted and *)
(* rewound, streamed or resident: a pass that ends well answers with what   *)
(* the model of the checkpoint makes of the text, at every position asked   *)
(* about, for every size of model, buffer and chunk that is not negative.   *)
(* Of a draft model it is said that it answers, not what.                   *)
THEOREM Refinement ==
    ASSUME NaturalSizes, Described, Uniform, Ordered, Comparable, Weighable
    PROVE  Spec => KeepsModel
<1>1. Init => Model!Init /\ Tokens /\ Logits
  BY EmptySeq DEF Init, Model!Init, Model!NoAnswer, Tokens, Logits
<1>2. Init => Quiet /\ History
  BY HistoryBegins
<1>3. IInv /\ IInv' /\ Quiet /\ History /\ [Next]_vars => Quiet' /\ History'
  BY QuietKept, HistoryKept
<1>4. IInv /\ Logits /\ Tokens /\ [Next]_vars => Logits' /\ Tokens'
  BY LogitsKept, TokensKept
<1>5. IInv /\ Quiet /\ History /\ Tokens /\ Tokens' /\ [Next]_vars => [Model!Next]_(Model!vars)
  BY StepAnswers
<1>6. QED
  BY <1>1, <1>2, <1>3, <1>4, <1>5, Invariant, PTL DEF Spec, KeepsModel, Model!Spec
=============================================================================
