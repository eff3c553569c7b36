---------------------------- MODULE StartupProofs ----------------------------
(***************************************************************************)
(* Proofs about the division of the memory, for every trunk, request and   *)
(* machine: the ring that k3_trunk_open settles on holds every layer that  *)
(* streams, whether or not its eight passes reach a fixed point, the plan  *)
(* covers what is allocated, and the automatic split is admitted.          *)
(***************************************************************************)
EXTENDS Startup, Facts

USE DEF MaxPasses

-----------------------------------------------------------------------------
(* The trunk as it is given, and the order its layers are considered in. *)

Given ==
    /\ nbytes \in [Layers -> Sizes] /\ widen \in Widens /\ budget \in Nat
    /\ ring_want \in RingWants /\ pin_prefix \in BOOLEAN

LEMMA LayersFinite ==
    /\ IsFiniteSet(Layers) /\ Cardinality(Layers) = NLayers
    /\ Layers \subseteq Nat /\ NLayers - 1 \in Layers /\ Layers # {}
<1>1. /\ IsFiniteSet(0 .. NLayers - 1)
      /\ Cardinality(0 .. NLayers - 1)
           = IF 0 > NLayers - 1 THEN 0 ELSE NLayers - 1 - 0 + 1
  BY SizingAssumption, FS_Interval
<1>2. NLayers \in Nat /\ NLayers > 0
  BY SizingAssumption
<1>3. Cardinality(0 .. NLayers - 1) = NLayers
  BY <1>1, <1>2
<1>4. QED
  BY <1>1, <1>2, <1>3 DEF Layers

LEMMA GivenTypes ==
    ASSUME Given
    PROVE  /\ widen \in Nat /\ budget \in Nat /\ ring_want \in Nat /\ ring_want >= 1
           /\ \A L \in Layers : /\ nbytes[L] \in Nat /\ nbytes[L] > 0
                                /\ need(L) \in Nat /\ need(L) >= nbytes[L]
<1>1. widen \in Nat /\ budget \in Nat /\ ring_want \in Nat /\ ring_want >= 1
  BY SizingAssumption DEF Given
<1>2. ASSUME NEW L \in Layers PROVE nbytes[L] \in Nat /\ nbytes[L] > 0
  <2>1. nbytes[L] \in Sizes
    BY DEF Given
  <2>2. nbytes[L] \in Nat \ {0}
    BY <2>1, SizingAssumption
  <2>3. QED
    BY ONLY <2>2
<1>3. QED
  BY <1>1, <1>2 DEF need

(* Some layer is considered before all others. *)
LEMMA FirstIs ==
    ASSUME Given, NEW S \in SUBSET Layers, S # {}
    PROVE  First(S) \in S /\ \A b \in S \ {First(S)} : Before(First(S), b)
<1>1. IsFiniteSet(S) /\ \A x \in S : x \in Int
  <2>1. S \subseteq Nat /\ IsFiniteSet(Layers)
    BY LayersFinite
  <2>2. IsFiniteSet(S)
    BY ONLY <2>1, S \in SUBSET Layers, FS_Subset
  <2>3. QED
    BY <2>1, <2>2
<1> SUFFICES \E a \in S : \A b \in S \ {a} : Before(a, b)
  BY DEF First
<1>2. CASE pin_prefix
  <2>1. Min(S) \in S /\ \A y \in S : Min(S) =< y
    BY <1>1, MinExists
  <2>2. \A b \in S \ {Min(S)} : Min(S) < b
    BY <2>1, <1>1
  <2>3. QED
    BY <1>2, <2>1, <2>2 DEF Before
<1>3. CASE ~pin_prefix
  <2> DEFINE sizes == {nbytes[L] : L \in S}
             big == Max(sizes)
             T == {L \in S : nbytes[L] = big}
  <2>1. IsFiniteSet(sizes) /\ sizes # {} /\ \A x \in sizes : x \in Int
    <3> DEFINE f == [L \in S |-> nbytes[L]]
    <3>1. f \in Surjection(S, sizes)
      BY DEF Surjection
    <3>2. IsFiniteSet(sizes)
      <4> HIDE DEF f, sizes
      <4>1. QED
        BY <1>1, <3>1, FS_Surjection
    <3>3. QED
      BY <3>2, GivenTypes
  <2>2. big \in sizes /\ \A x \in sizes : big >= x
    <3> HIDE DEF sizes
    <3>1. QED
      BY <2>1, MaxExists
  <2>3. IsFiniteSet(T) /\ T # {} /\ \A x \in T : x \in Int
    <3>1. T \in SUBSET S /\ T # {}
      BY <2>2
    <3>2. QED
      BY ONLY <1>1, <3>1, FS_Subset
  <2>4. Min(T) \in T /\ \A y \in T : Min(T) =< y
    <3> HIDE DEF T
    <3>1. QED
      BY <2>3, MinExists
  <2> DEFINE a == Min(T)
  <2>5. a \in S /\ nbytes[a] = big
    BY <2>4
  <2>6. ASSUME NEW b \in S \ {a}
        PROVE  nbytes[a] > nbytes[b] \/ (nbytes[a] = nbytes[b] /\ a < b)
    <3>1. nbytes[b] \in sizes /\ nbytes[b] \in Int /\ big \in Int
      BY <2>1, <2>2
    <3>2. big >= nbytes[b]
      BY <2>2, <3>1
    <3>3. CASE nbytes[b] = big
      <4>1. b \in T
        BY <3>3
      <4>2. a =< b /\ a # b /\ a \in Int /\ b \in Int
        BY <2>4, <4>1, <1>1
      <4>3. QED
        <5> HIDE DEF a
        <5>1. QED
          BY <4>2, <2>5, <3>3
    <3>4. CASE nbytes[b] # big
      <4> HIDE DEF a, big
      <4>1. QED
        BY <3>1, <3>2, <3>4, <2>5
    <3>5. QED
      BY <3>3, <3>4
  <2>7. QED
    <3> HIDE DEF a
    <3>1. \A b \in S \ {a} : Before(a, b)
      BY <1>3, <2>6 DEF Before
    <3>2. QED
      BY <2>5, <3>1
<1>4. QED
  BY <1>2, <1>3 DEF Given

-----------------------------------------------------------------------------
(* The selection, layer by layer. *)

Picking == [left : SUBSET Layers, set : SUBSET Layers, sp : Nat, mem : Nat,
            over : BOOLEAN]

Start(sp) == [left |-> Layers, set |-> {}, sp |-> sp, mem |-> sp, over |-> FALSE]

LEMMA Products ==
    ASSUME NEW r \in Nat, NEW a \in Nat, NEW b \in Nat, a <= b
    PROVE  /\ r * a \in Nat /\ r * b \in Nat /\ r * a <= r * b
           /\ a * r \in Nat /\ a * r <= b * r
OBVIOUS

LEMMA Divides ==
    ASSUME NEW n \in Nat, NEW k \in Nat \ {0}
    PROVE  n \div k \in Nat /\ (n \div k) * k <= n /\ n < (n \div k) * k + k
OBVIOUS

LEMMA AlignedIs ==
    ASSUME NEW n \in Nat
    PROVE  /\ aligned(n) \in Nat /\ aligned(n) >= n
           /\ aligned(n) <= n + (ALIGN - 1) /\ ALIGN - 1 \in Nat
<1>1. ALIGN \in Nat \ {0}
  BY SizingAssumption
<1>2. n + ALIGN - 1 \in Nat
  BY <1>1
<1> DEFINE q == (n + ALIGN - 1) \div ALIGN
<1>3. q \in Nat /\ n + ALIGN - 1 < q * ALIGN + ALIGN /\ q * ALIGN <= n + ALIGN - 1
  BY <1>1, <1>2, Divides
<1>4. q * ALIGN \in Nat
  BY <1>1, <1>3
<1>5. aligned(n) = q * ALIGN
  BY DEF aligned
<1> HIDE DEF q
<1>6. QED
  BY <1>1, <1>3, <1>4, <1>5

LEMMA ConsiderIs ==
    ASSUME Given, NEW p \in Picking, p.left # {}
    PROVE  /\ First(p.left) \in p.left /\ Consider(p) \in Picking
           /\ Consider(p).left = p.left \ {First(p.left)}
           /\ \/ /\ ~p.over /\ p.sp + need(First(p.left)) <= budget
                 /\ Consider(p).set = p.set \cup {First(p.left)}
                 /\ Consider(p).sp = p.sp + need(First(p.left))
                 /\ Consider(p).mem = p.mem + aligned(nbytes[First(p.left)]) + widen
                 /\ ~Consider(p).over
              \/ /\ p.over \/ p.sp + need(First(p.left)) > budget
                 /\ Consider(p).set = p.set /\ Consider(p).sp = p.sp
                 /\ Consider(p).mem = p.mem
                 /\ Consider(p).over = (p.over \/ pin_prefix)
<1>1. First(p.left) \in p.left /\ First(p.left) \in Layers
  BY FirstIs DEF Picking
<1>2. /\ p.sp \in Nat /\ p.set \in SUBSET Layers /\ p.left \in SUBSET Layers
      /\ p.over \in BOOLEAN /\ need(First(p.left)) \in Nat /\ budget \in Nat
      /\ pin_prefix \in BOOLEAN /\ p.mem \in Nat
  BY <1>1, GivenTypes DEF Picking, Given
<1>m. p.mem + aligned(nbytes[First(p.left)]) + widen \in Nat
  <2>1. nbytes[First(p.left)] \in Nat /\ widen \in Nat
    BY <1>1, GivenTypes
  <2>2. aligned(nbytes[First(p.left)]) \in Nat
    BY <2>1, AlignedIs
  <2>3. QED
    BY <1>2, <2>1, <2>2
<1> DEFINE fits == ~p.over /\ p.sp + need(First(p.left)) <= budget
<1>3. Consider(p) =
        [left |-> p.left \ {First(p.left)},
         set  |-> IF fits THEN p.set \cup {First(p.left)} ELSE p.set,
         sp   |-> IF fits THEN p.sp + need(First(p.left)) ELSE p.sp,
         mem  |-> IF fits THEN p.mem + aligned(nbytes[First(p.left)]) + widen ELSE p.mem,
         over |-> p.over \/ (~fits /\ ~GoesOnPast)]
  BY DEF Consider
<1>4. CASE fits
  <2>1. Consider(p) =
          [left |-> p.left \ {First(p.left)}, set |-> p.set \cup {First(p.left)},
           sp |-> p.sp + need(First(p.left)),
           mem |-> p.mem + aligned(nbytes[First(p.left)]) + widen, over |-> FALSE]
    BY <1>2, <1>3, <1>4
  <2>2. p.sp + need(First(p.left)) \in Nat /\ p.set \cup {First(p.left)} \in SUBSET Layers
        /\ p.left \ {First(p.left)} \in SUBSET Layers
    BY <1>1, <1>2
  <2>3. Consider(p) \in Picking
    <3> HIDE DEF fits
    <3>1. QED
      BY <1>m, <2>1, <2>2 DEF Picking
  <2>4. /\ Consider(p).left = p.left \ {First(p.left)}
        /\ Consider(p).set = p.set \cup {First(p.left)}
        /\ Consider(p).mem = p.mem + aligned(nbytes[First(p.left)]) + widen
        /\ Consider(p).sp = p.sp + need(First(p.left)) /\ ~Consider(p).over
    BY ONLY <2>1
  <2>5. QED
    BY <1>1, <1>4, <2>3, <2>4
<1>5. CASE ~fits
  <2>1. Consider(p) =
          [left |-> p.left \ {First(p.left)}, set |-> p.set,
           sp |-> p.sp, mem |-> p.mem, over |-> p.over \/ pin_prefix]
    BY <1>2, <1>3, <1>5 DEF GoesOnPast
  <2>2. p.over \/ p.sp + need(First(p.left)) > budget
    BY <1>2, <1>5
  <2>3. QED
    BY <1>1, <1>2, <2>1, <2>2 DEF Picking
<1>6. QED
  BY <1>4, <1>5

(* f considers the layers one after the other, beside a ring of sp bytes.   *)
Selects(f, sp) ==
    /\ f \in [0 .. NLayers -> Picking] /\ f[0] = Start(sp)
    /\ \A n \in 0 .. NLayers - 1 : f[n].left # {} /\ f[n + 1] = Consider(f[n])
    /\ f[NLayers].left = {}

(* The recursion that Picked is defined by is such a function.              *)
LEMMA PickedIs ==
    ASSUME Given, NEW sp \in Nat
    PROVE  \E f : Selects(f, sp) /\ Picked(sp) = f[NLayers]
<1> DEFINE g == [q \in Picking \X (1 .. NLayers) |->
                   IF q[1].left = {} THEN q[1] ELSE Consider(q[1])]
<1>1. g \in [Picking \X (1 .. NLayers) -> Picking]
  <2>1. ASSUME NEW q \in Picking \X (1 .. NLayers)
        PROVE  (IF q[1].left = {} THEN q[1] ELSE Consider(q[1])) \in Picking
    <3>1. q[1] \in Picking
      OBVIOUS
    <3>2. QED
      BY <3>1, ConsiderIs
  <2>2. QED
    BY <2>1
<1>2. Start(sp) \in Picking /\ NLayers \in Nat /\ NLayers > 0
  BY SizingAssumption DEF Start, Picking
<1>3. PICK f \in [0 .. NLayers -> Picking] : Recurs(f, NLayers, Start(sp), g)
  <2> HIDE DEF g
  <2>1. QED
    BY <1>1, <1>2, Recursion
<1>4. \A n \in 0 .. NLayers - 1 :
        f[n + 1] = IF f[n].left = {} THEN f[n] ELSE Consider(f[n])
  <2> SUFFICES ASSUME NEW n \in 0 .. NLayers - 1
               PROVE  f[n + 1] = IF f[n].left = {} THEN f[n] ELSE Consider(f[n])
    OBVIOUS
  <2>1. n + 1 \in 1 .. NLayers /\ n + 1 - 1 = n /\ n \in 0 .. NLayers
    BY <1>2
  <2>2. f[n + 1] = g[<<f[n], n + 1>>]
    <3> HIDE DEF g
    <3>1. f[n + 1] = g[<<f[n + 1 - 1], n + 1>>]
      BY <1>3, <2>1 DEF Recurs
    <3>2. QED
      BY <3>1, <2>1
  <2>3. <<f[n], n + 1>> \in Picking \X (1 .. NLayers)
    BY <2>1
  <2>4. QED
    BY <2>2, <2>3
<1> HIDE DEF g
<1> DEFINE A == {n \in 0 .. NLayers : IsFiniteSet(f[n].left)
                                      /\ Cardinality(f[n].left) = NLayers - n}
<1>5. 0 \in A
  BY <1>2, <1>3, LayersFinite DEF Recurs, Start
<1>6. ASSUME NEW n \in 0 .. NLayers - 1, n \in A
      PROVE  n + 1 \in A /\ f[n].left # {} /\ f[n + 1] = Consider(f[n])
  <2>1. /\ f[n] \in Picking /\ n + 1 \in 0 .. NLayers
        /\ IsFiniteSet(f[n].left) /\ Cardinality(f[n].left) = NLayers - n
    BY <1>2, <1>6
  <2>2. f[n].left # {}
    BY <2>1, <1>2, FS_EmptySet
  <2>3. /\ f[n + 1] = Consider(f[n]) /\ First(f[n].left) \in f[n].left
        /\ f[n + 1].left = f[n].left \ {First(f[n].left)}
    BY <1>4, <2>1, <2>2, ConsiderIs
  <2>4. /\ IsFiniteSet(f[n + 1].left)
        /\ Cardinality(f[n + 1].left) = Cardinality(f[n].left) - 1
    BY <2>1, <2>3, FS_RemoveElement
  <2>5. NLayers - n - 1 = NLayers - (n + 1)
    BY <1>2
  <2>6. QED
    BY <2>1, <2>2, <2>3, <2>4, <2>5
<1>7. \A n \in 0 .. NLayers : n \in A
  <2>1. \A n \in 0 .. NLayers - 1 : n \in A => n + 1 \in A
    BY <1>6
  <2> HIDE DEF A
  <2>2. QED
    BY <1>2, <1>5, <2>1, Climbs
<1>8. \A n \in 0 .. NLayers - 1 : f[n].left # {} /\ f[n + 1] = Consider(f[n])
  <2> SUFFICES ASSUME NEW n \in 0 .. NLayers - 1
               PROVE  f[n].left # {} /\ f[n + 1] = Consider(f[n])
    OBVIOUS
  <2>1. n \in 0 .. NLayers
    BY <1>2
  <2> HIDE DEF A
  <2>2. QED
    BY <1>6, <1>7, <2>1
<1>9. f[NLayers].left = {}
  <2>1. NLayers \in A
    <3> HIDE DEF A
    <3>1. QED
      BY <1>2, <1>7
  <2>2. QED
    BY <1>2, <2>1, FS_EmptySet
<1>10. Selects(f, sp)
  BY <1>3, <1>8, <1>9 DEF Selects, Recurs
<1> DEFINE D(h) == [i \in 0 .. NLayers |->
                     IF i = 0 THEN [left |-> Layers, set |-> {}, sp |-> sp, mem |-> sp, over |-> FALSE]
                     ELSE Consider(h[i - 1])]
<1>11. f = D(f)
  <2>1. ASSUME NEW i \in 0 .. NLayers
        PROVE  f[i] = IF i = 0
                      THEN [left |-> Layers, set |-> {}, sp |-> sp, mem |-> sp, over |-> FALSE]
                      ELSE Consider(f[i - 1])
    <3>1. CASE i = 0
      BY <3>1, <1>10 DEF Selects, Start
    <3>2. CASE i # 0
      <4>1. i - 1 \in 0 .. NLayers - 1 /\ i - 1 + 1 = i
        BY <3>2, <1>2
      <4>2. QED
        BY <3>2, <4>1, <1>8
    <3>3. QED
      BY <3>1, <3>2
  <2>2. QED
    BY <2>1
<1>12. ASSUME NEW h, h = D(h) PROVE h = f
  <2>1. \A i \in 0 .. NLayers :
          h[i] = IF i = 0 THEN [left |-> Layers, set |-> {}, sp |-> sp, mem |-> sp, over |-> FALSE]
                 ELSE Consider(h[i - 1])
    BY <1>12
  <2> DEFINE B == {i \in 0 .. NLayers : h[i] = f[i]}
  <2>2. 0 \in B
    <3>1. 0 \in 0 .. NLayers
      BY <1>2
    <3>2. h[0] = Start(sp)
      BY <2>1, <3>1 DEF Start
    <3>3. f[0] = Start(sp)
      BY <1>10 DEF Selects
    <3>4. QED
      BY <3>1, <3>2, <3>3
  <2>3. ASSUME NEW n \in 0 .. NLayers - 1, n \in B PROVE n + 1 \in B
    <3>1. n + 1 \in 0 .. NLayers /\ n + 1 # 0 /\ n + 1 - 1 = n
      BY <1>2
    <3>2. h[n + 1] = Consider(h[n])
      BY <2>1, <3>1
    <3>3. QED
      BY <3>1, <3>2, <2>3, <1>8
  <2>4. \A n \in 0 .. NLayers : n \in B
    <3>1. \A n \in 0 .. NLayers - 1 : n \in B => n + 1 \in B
      BY <2>3
    <3> HIDE DEF B
    <3>2. QED
      BY <1>2, <2>2, <3>1, Climbs
  <2>5. \A n \in 0 .. NLayers : h[n] = f[n]
    BY <2>4
  <2>6. QED
    BY <2>5, <1>11, <1>12
<1>13. (CHOOSE h : h = D(h)) = f
  <2> HIDE DEF D
  <2>1. QED
    BY <1>11, <1>12
<1>14. Picked(sp) = f[NLayers]
  BY <1>13 DEF Picked
<1>15. QED
  BY <1>10, <1>14

(* What holds of a selection on the way: it is charged to the budget, what *)
(* it has passed over would not fit, and it has taken nothing that does not *)
(* fit beside the ring.                                                     *)
Kept(p, sp) ==
    /\ p.set \subseteq Layers \ p.left /\ p.sp >= sp
    /\ p.set = {} => p.sp = sp
    /\ p.set = {} \/ p.sp <= budget
    /\ pin_prefix \/ ~p.over
    /\ pin_prefix \/ \A L \in Layers \ (p.left \cup p.set) : p.sp + need(L) > budget
    /\ \A L \in p.set : sp + need(L) <= budget

LEMMA ConsiderKeeps ==
    ASSUME Given, NEW sp \in Nat, NEW p \in Picking, p.left # {}, Kept(p, sp)
    PROVE  Kept(Consider(p), sp)
<1> DEFINE K == First(p.left)
           q == Consider(p)
<1>1. /\ K \in p.left /\ K \in Layers /\ p.sp \in Nat /\ budget \in Nat
      /\ need(K) \in Nat /\ p.left \in SUBSET Layers /\ p.set \in SUBSET Layers
      /\ \A L \in Layers : need(L) \in Nat /\ need(L) > 0
  <2>1. K \in p.left /\ p.sp \in Nat /\ p.left \in SUBSET Layers /\ p.set \in SUBSET Layers
    BY ConsiderIs DEF Picking
  <2>2. \A L \in Layers : need(L) \in Nat /\ need(L) > 0
    BY GivenTypes
  <2>3. QED
    BY <2>1, <2>2, GivenTypes
<1>2. q.left = p.left \ {K}
  BY ConsiderIs
<1>3. CASE /\ ~p.over /\ p.sp + need(K) <= budget /\ q.set = p.set \cup {K}
           /\ q.sp = p.sp + need(K) /\ ~q.over
  <2>1. q.set \subseteq Layers \ q.left /\ q.set # {}
    BY <1>1, <1>2, <1>3 DEF Kept
  <2>2. q.sp >= sp /\ q.sp <= budget /\ sp + need(K) <= budget
    <3> HIDE DEF K, q
    <3>1. p.sp >= sp
      BY DEF Kept
    <3>2. QED
      BY <1>1, <1>3, <3>1
  <2>3. ASSUME NEW L \in Layers \ (q.left \cup q.set), ~pin_prefix
        PROVE  q.sp + need(L) > budget
    <3>1. L \in Layers \ (p.left \cup p.set) /\ need(L) \in Nat
      BY <1>1, <1>2, <1>3
    <3>2. p.sp + need(L) > budget
      BY <2>3, <3>1 DEF Kept
    <3>3. QED
      <4> HIDE DEF K, q
      <4>1. QED
        BY <1>1, <1>3, <3>1, <3>2
  <2>4. \A L \in q.set : sp + need(L) <= budget
    BY <1>3, <2>2 DEF Kept
  <2>5. QED
    <3> HIDE DEF q
    <3>1. QED
      BY <1>3, <2>1, <2>2, <2>3, <2>4 DEF Kept, q
<1>4. CASE /\ p.over \/ p.sp + need(K) > budget
           /\ q.set = p.set /\ q.sp = p.sp /\ q.over = (p.over \/ pin_prefix)
  <2>1. q.set \subseteq Layers \ q.left
    BY <1>1, <1>2, <1>4 DEF Kept
  <2>2. ASSUME NEW L \in Layers \ (q.left \cup q.set), ~pin_prefix
        PROVE  q.sp + need(L) > budget
    <3>1. CASE L = K
      BY <1>4, <2>2, <3>1 DEF Kept
    <3>2. CASE L # K
      <4>1. L \in Layers \ (p.left \cup p.set)
        BY <1>2, <1>4, <3>2
      <4>2. QED
        BY <1>4, <2>2, <4>1 DEF Kept
    <3>3. QED
      BY <3>1, <3>2
  <2>3. QED
    <3> HIDE DEF q, K
    <3>1. pin_prefix \/ ~q.over
      BY <1>4 DEF Kept
    <3>2. QED
      BY <1>4, <2>1, <2>2, <3>1 DEF Kept, q
<1>5. QED
  BY <1>3, <1>4, ConsiderIs

LEMMA PickedKeeps ==
    ASSUME Given, NEW sp \in Nat
    PROVE  /\ Picked(sp) \in Picking /\ Picked(sp).left = {} /\ Kept(Picked(sp), sp)
<1>1. PICK f : Selects(f, sp) /\ Picked(sp) = f[NLayers]
  BY PickedIs
<1>2. NLayers \in Nat /\ NLayers > 0
  BY SizingAssumption
<1> DEFINE A == {n \in 0 .. NLayers : Kept(f[n], sp)}
<1>3. 0 \in A
  BY <1>1, <1>2 DEF Selects, Start, Kept
<1>4. ASSUME NEW n \in 0 .. NLayers - 1, n \in A PROVE n + 1 \in A
  <2>1. /\ f[n] \in Picking /\ f[n].left # {} /\ f[n + 1] = Consider(f[n])
        /\ n + 1 \in 0 .. NLayers
    BY <1>1, <1>2 DEF Selects
  <2>2. QED
    BY <1>4, <2>1, ConsiderKeeps
<1>5. NLayers \in A
  <2>1. \A n \in 0 .. NLayers - 1 : n \in A => n + 1 \in A
    BY <1>4
  <2> HIDE DEF A
  <2>2. \A n \in 0 .. NLayers : n \in A
    BY <1>2, <1>3, <2>1, Climbs
  <2>3. QED
    BY <1>2, <2>2
<1>6. QED
  BY <1>1, <1>2, <1>5 DEF Selects

(* The pinned layers are whole pages, as pack_trunk.py and int8_trunk.py    *)
(* write every layer.                                                       *)
WholePages == \A L \in chosen : aligned(nbytes[L]) = nbytes[L]

(* What is allocated for a selection exceeds what is counted by less than a *)
(* page for each layer, and by nothing if the layers are whole pages.       *)
Padded(p) ==
    /\ IsFiniteSet(p.set) /\ p.set \subseteq Layers \ p.left
    /\ p.mem <= p.sp + Cardinality(p.set) * (ALIGN - 1)
    /\ (\A L \in p.set : aligned(nbytes[L]) = nbytes[L]) => p.mem = p.sp

LEMMA ConsiderPads ==
    ASSUME Given, NEW p \in Picking, p.left # {}, Padded(p)
    PROVE  Padded(Consider(p))
<1> DEFINE K == First(p.left)
           q == Consider(p)
           a == aligned(nbytes[K])
           c == Cardinality(p.set)
<1>1. /\ K \in p.left /\ K \in Layers /\ p.sp \in Nat /\ p.mem \in Nat
      /\ p.left \in SUBSET Layers /\ p.set \in SUBSET Layers
  BY ConsiderIs DEF Picking
<1>2. /\ nbytes[K] \in Nat /\ widen \in Nat /\ need(K) = nbytes[K] + widen
      /\ a \in Nat /\ a <= nbytes[K] + (ALIGN - 1) /\ ALIGN - 1 \in Nat
  <2>1. nbytes[K] \in Nat /\ widen \in Nat
    BY <1>1, GivenTypes
  <2>2. QED
    BY <2>1, AlignedIs DEF need
<1>3. q.left = p.left \ {K}
  BY ConsiderIs
<1>4. IsFiniteSet(p.set) /\ c \in Nat /\ K \notin p.set
  BY <1>1, FS_CardinalityType DEF Padded
<1>5. CASE /\ q.set = p.set \cup {K} /\ q.sp = p.sp + need(K)
           /\ q.mem = p.mem + a + widen
  <2>1. IsFiniteSet(q.set) /\ Cardinality(q.set) = c + 1
    <3>1. IsFiniteSet(p.set \cup {K}) /\ Cardinality(p.set \cup {K}) = c + 1
      <4> HIDE DEF K, q
      <4>1. QED
        BY <1>4, FS_AddElement
    <3> HIDE DEF K, q
    <3>2. QED
      BY <1>5, <3>1
  <2>2. q.set \subseteq Layers \ q.left
    BY <1>1, <1>3, <1>5 DEF Padded
  <2>3. p.mem <= p.sp + c * (ALIGN - 1) /\ c * (ALIGN - 1) \in Nat
    BY <1>2, <1>4 DEF Padded
  <2> DEFINE g == ALIGN - 1
             n == nbytes[K]
  <2>4. (c + 1) * g = c * g + g
    BY <1>2, <1>4
  <2>5. q.mem <= q.sp + (c + 1) * g
    <3> DEFINE x == c * g
               y == (c + 1) * g
    <3>1. x \in Nat /\ y = x + g /\ p.mem <= p.sp + x /\ g \in Nat /\ n \in Nat /\ a <= n + g
      BY <1>2, <2>3, <2>4
    <3>2. q.sp = p.sp + n + widen /\ q.mem = p.mem + a + widen
      BY <1>1, <1>2, <1>5
    <3> HIDE DEF x, y, g, n, a, c, q, K
    <3>3. q.mem <= q.sp + y
      BY <1>1, <1>2, <3>1, <3>2
    <3>4. QED
      BY <3>3 DEF y
  <2>6. ASSUME \A L \in q.set : aligned(nbytes[L]) = nbytes[L] PROVE q.mem = q.sp
    <3>1. p.mem = p.sp /\ a = nbytes[K]
      BY <1>5, <2>6 DEF Padded
    <3> HIDE DEF K, q, a
    <3>2. QED
      BY <1>1, <1>2, <1>5, <3>1
  <2> HIDE DEF q
  <2>7. QED
    BY <2>1, <2>2, <2>5, <2>6 DEF Padded, q
<1>6. CASE q.set = p.set /\ q.sp = p.sp /\ q.mem = p.mem
  <2>1. q.set \subseteq Layers \ q.left
    BY <1>3, <1>6 DEF Padded
  <2> HIDE DEF q, K
  <2>2. QED
    BY <1>6, <2>1 DEF Padded, q
<1>7. QED
  BY <1>5, <1>6, ConsiderIs

LEMMA PickedPads ==
    ASSUME Given, NEW sp \in Nat
    PROVE  Padded(Picked(sp))
<1>1. PICK f : Selects(f, sp) /\ Picked(sp) = f[NLayers]
  BY PickedIs
<1>2. NLayers \in Nat /\ NLayers > 0
  BY SizingAssumption
<1> DEFINE A == {n \in 0 .. NLayers : Padded(f[n])}
<1>3. 0 \in A
  <2>1. f[0] = Start(sp) /\ 0 \in 0 .. NLayers
    BY <1>1, <1>2 DEF Selects
  <2>2. ALIGN - 1 \in Nat /\ 0 * (ALIGN - 1) = 0
    BY SizingAssumption
  <2>3. Padded(Start(sp))
    BY <2>2, FS_EmptySet DEF Start, Padded
  <2>4. QED
    BY <2>1, <2>3
<1>4. ASSUME NEW n \in 0 .. NLayers - 1, n \in A PROVE n + 1 \in A
  <2>1. /\ f[n] \in Picking /\ f[n].left # {} /\ f[n + 1] = Consider(f[n])
        /\ n + 1 \in 0 .. NLayers
    BY <1>1, <1>2 DEF Selects
  <2>2. QED
    BY <1>4, <2>1, ConsiderPads
<1>5. NLayers \in A
  <2>1. \A n \in 0 .. NLayers - 1 : n \in A => n + 1 \in A
    BY <1>4
  <2> HIDE DEF A
  <2>2. \A n \in 0 .. NLayers : n \in A
    BY <1>2, <1>3, <2>1, Climbs
  <2>3. QED
    BY <1>2, <2>2
<1>6. QED
  BY <1>1, <1>5

-----------------------------------------------------------------------------
(* A narrower ring never streams a larger layer. *)

(* p has had as much of the budget left as q at every layer.                *)
Ahead(p, q) ==
    /\ p.left = q.left
    /\ \/ /\ p.set = Layers \ p.left /\ q.set = Layers \ q.left
          /\ ~p.over /\ ~q.over /\ p.sp <= q.sp
       \/ pin_prefix /\ q.over /\ q.set \subseteq p.set
       \/ /\ ~pin_prefix
          /\ \E K \in Layers \ (q.left \cup q.set) :
                 \A L \in Layers \ p.set : nbytes[L] <= nbytes[K]

LEMMA ConsiderStaysAhead ==
    ASSUME Given, NEW p \in Picking, NEW q \in Picking, p.left # {}, Ahead(p, q)
    PROVE  Ahead(Consider(p), Consider(q))
<1> DEFINE K == First(p.left)
           p1 == Consider(p)
           q1 == Consider(q)
<1>1. /\ K \in p.left /\ K \in Layers /\ p.sp \in Nat /\ q.sp \in Nat /\ budget \in Nat
      /\ need(K) \in Nat /\ p.left \in SUBSET Layers /\ p.left = q.left /\ q.left # {}
      /\ p.set \in SUBSET Layers /\ q.set \in SUBSET Layers
  <2>1. /\ K \in p.left /\ p.sp \in Nat /\ q.sp \in Nat /\ p.left \in SUBSET Layers
        /\ p.set \in SUBSET Layers /\ q.set \in SUBSET Layers
    BY ConsiderIs DEF Picking
  <2>2. \A L \in Layers : need(L) \in Nat
    BY GivenTypes
  <2>3. QED
    BY <2>1, <2>2, GivenTypes DEF Ahead
<1>2. /\ p1.left = p.left \ {K}
      /\ \/ /\ ~p.over /\ p.sp + need(K) <= budget
            /\ p1.set = p.set \cup {K} /\ p1.sp = p.sp + need(K) /\ ~p1.over
         \/ /\ p.over \/ p.sp + need(K) > budget
            /\ p1.set = p.set /\ p1.sp = p.sp /\ p1.over = (p.over \/ pin_prefix)
  BY ConsiderIs
<1>3. /\ q1.left = p.left \ {K}
      /\ \/ /\ ~q.over /\ q.sp + need(K) <= budget
            /\ q1.set = q.set \cup {K} /\ q1.sp = q.sp + need(K) /\ ~q1.over
         \/ /\ q.over \/ q.sp + need(K) > budget
            /\ q1.set = q.set /\ q1.sp = q.sp /\ q1.over = (q.over \/ pin_prefix)
  BY <1>1, ConsiderIs
<1> HIDE DEF p1, q1
<1>4. CASE /\ p.set = Layers \ p.left /\ q.set = Layers \ q.left
           /\ ~p.over /\ ~q.over /\ p.sp <= q.sp
  <2>1. CASE q.sp + need(K) <= budget
    <3> HIDE DEF K
    <3>1. p.sp + need(K) <= budget
      BY <1>1, <1>4, <2>1
    <3>2. ~ (p.sp + need(K) > budget) /\ ~ (q.sp + need(K) > budget)
      BY <1>1, <2>1, <3>1
    <3>3. /\ p1.set = p.set \cup {K} /\ p1.sp = p.sp + need(K) /\ ~p1.over
          /\ q1.set = q.set \cup {K} /\ q1.sp = q.sp + need(K) /\ ~q1.over
      BY <1>2, <1>3, <1>4, <3>2
    <3>4. p1.set = Layers \ p1.left /\ q1.set = Layers \ q1.left /\ p1.left = q1.left
      BY <1>1, <1>2, <1>3, <1>4, <3>3
    <3>5. p1.sp <= q1.sp
      BY <1>1, <1>4, <3>3
    <3>6. QED
      BY <3>3, <3>4, <3>5 DEF Ahead, p1, q1
  <2>2. CASE ~ (q.sp + need(K) <= budget)
    <3>1. q1.set = q.set /\ q1.over = (q.over \/ pin_prefix)
      BY <1>3, <2>2
    <3>2. p.set \subseteq p1.set
      BY <1>2
    <3>3. CASE pin_prefix
      <4>1. q1.over /\ q1.set \subseteq p1.set
        BY <1>1, <1>4, <3>1, <3>2, <3>3
      <4>2. QED
        BY <1>2, <1>3, <3>3, <4>1 DEF Ahead, p1, q1
    <3>4. CASE ~pin_prefix
      <4>1. K \in Layers \ (q1.left \cup q1.set)
        BY <1>1, <1>3, <1>4, <3>1
      <4>2. ASSUME NEW L \in Layers \ p1.set PROVE nbytes[L] <= nbytes[K]
        <5>1. L \in p.left
          BY <1>1, <1>4, <3>2
        <5>2. nbytes[L] \in Nat /\ nbytes[K] \in Nat
          BY <1>1, GivenTypes
        <5>3. CASE L = K
          BY <5>2, <5>3
        <5>4. CASE L # K
          <6>1. Before(K, L)
            BY <1>1, <5>1, <5>4, FirstIs
          <6>2. nbytes[K] > nbytes[L] \/ (nbytes[K] = nbytes[L] /\ K < L)
            BY <3>4, <6>1 DEF Before
          <6>3. QED
            <7> HIDE DEF K
            <7>1. QED
              BY <5>2, <6>2
        <5>5. QED
          BY <5>3, <5>4
      <4>3. QED
        <5> HIDE DEF K
        <5>1. QED
          BY <1>2, <1>3, <3>4, <4>1, <4>2 DEF Ahead, p1, q1
    <3>5. QED
      BY <3>3, <3>4
  <2>3. QED
    BY <2>1, <2>2
<1>5. CASE pin_prefix /\ q.over /\ q.set \subseteq p.set
  <2>1. q1.set = q.set /\ q1.over /\ p.set \subseteq p1.set
    BY <1>2, <1>3, <1>5
  <2>2. q1.set \subseteq p1.set
    BY <1>5, <2>1
  <2>3. QED
    BY <1>2, <1>3, <1>5, <2>1, <2>2 DEF Ahead, p1, q1
<1>6. CASE /\ ~pin_prefix
           /\ \E J \in Layers \ (q.left \cup q.set) :
                  \A L \in Layers \ p.set : nbytes[L] <= nbytes[J]
  <2>1. PICK J \in Layers \ (q.left \cup q.set) :
               \A L \in Layers \ p.set : nbytes[L] <= nbytes[J]
    BY <1>6
  <2>2. q1.set \subseteq q.set \cup {K} /\ p.set \subseteq p1.set
    BY <1>2, <1>3
  <2>3. J \in Layers \ (q1.left \cup q1.set)
    BY <1>1, <1>3, <2>1, <2>2
  <2>4. \A L \in Layers \ p1.set : nbytes[L] <= nbytes[J]
    BY <2>1, <2>2
  <2>5. QED
    BY <1>2, <1>3, <1>6, <2>3, <2>4 DEF Ahead, p1, q1
<1>7. QED
  BY <1>4, <1>5, <1>6 DEF Ahead

LEMMA NarrowerPinsMore ==
    ASSUME Given, NEW a \in Nat, NEW b \in Nat, a <= b,
           NEW L \in Layers \ Picked(a).set
    PROVE  \E K \in Layers \ Picked(b).set : nbytes[L] <= nbytes[K]
<1>1. PICK f : Selects(f, a) /\ Picked(a) = f[NLayers]
  BY PickedIs
<1>2. PICK g : Selects(g, b) /\ Picked(b) = g[NLayers]
  BY PickedIs
<1>3. NLayers \in Nat /\ NLayers > 0 /\ nbytes[L] \in Nat
  BY SizingAssumption, GivenTypes
<1> DEFINE A == {n \in 0 .. NLayers : Ahead(f[n], g[n])}
<1>4. 0 \in A
  BY <1>1, <1>2, <1>3 DEF Selects, Start, Ahead
<1>5. ASSUME NEW n \in 0 .. NLayers - 1, n \in A PROVE n + 1 \in A
  <2>1. /\ f[n] \in Picking /\ f[n].left # {} /\ f[n + 1] = Consider(f[n])
        /\ g[n] \in Picking /\ g[n + 1] = Consider(g[n]) /\ n + 1 \in 0 .. NLayers
    BY <1>1, <1>2, <1>3 DEF Selects
  <2>2. QED
    BY <1>5, <2>1, ConsiderStaysAhead
<1>6. NLayers \in A
  <2>1. \A n \in 0 .. NLayers - 1 : n \in A => n + 1 \in A
    BY <1>5
  <2> HIDE DEF A
  <2>2. \A n \in 0 .. NLayers : n \in A
    BY <1>3, <1>4, <2>1, Climbs
  <2>3. QED
    BY <1>3, <2>2
<1>7. Ahead(Picked(a), Picked(b)) /\ Picked(a).left = {} /\ Picked(b).left = {}
  BY <1>1, <1>2, <1>6, PickedKeeps
<1>8. L \in Layers /\ L \notin Picked(a).set /\ nbytes[L] <= nbytes[L]
  BY <1>3
<1>9. CASE pin_prefix /\ Picked(b).set \subseteq Picked(a).set
  BY <1>8, <1>9
<1>10. CASE \E K \in Layers \ (Picked(b).left \cup Picked(b).set) :
              \A J \in Layers \ Picked(a).set : nbytes[J] <= nbytes[K]
  BY <1>7, <1>8, <1>10
<1>11. QED
  BY <1>7, <1>8, <1>9, <1>10 DEF Ahead

-----------------------------------------------------------------------------
(* Slots. *)

LEMMA AlignedGrows ==
    ASSUME NEW m \in Nat, NEW n \in Nat, m <= n
    PROVE  aligned(m) <= aligned(n)
<1>1. ALIGN \in Nat \ {0}
  BY SizingAssumption
<1>2. m + ALIGN - 1 \in Nat /\ n + ALIGN - 1 \in Nat /\ m + ALIGN - 1 <= n + ALIGN - 1
  BY <1>1
<1> DEFINE p == (m + ALIGN - 1) \div ALIGN
           q == (n + ALIGN - 1) \div ALIGN
<1>3. p \in Nat /\ p * ALIGN <= m + ALIGN - 1
  BY <1>1, <1>2, Divides
<1>4. q \in Nat /\ n + ALIGN - 1 < q * ALIGN + ALIGN
  BY <1>1, <1>2, Divides
<1>5. aligned(m) = p * ALIGN /\ aligned(n) = q * ALIGN
  BY DEF aligned
<1> HIDE DEF p, q
<1>6. p <= q
  <2> SUFFICES ASSUME q + 1 <= p PROVE FALSE
    BY <1>3, <1>4
  <2>1. (q + 1) * ALIGN <= p * ALIGN
    BY <1>1, <1>3, <1>4, Products
  <2>2. (q + 1) * ALIGN = q * ALIGN + ALIGN /\ q * ALIGN \in Nat /\ p * ALIGN \in Nat
    BY <1>1, <1>3, <1>4
  <2>3. QED
    BY <1>1, <1>2, <1>3, <1>4, <2>1, <2>2
<1>7. QED
  BY <1>1, <1>3, <1>4, <1>5, <1>6, Products

LEMMA SlotBytesIs ==
    ASSUME Given, NEW n \in Nat
    PROVE  /\ SlotBytes(n) \in Nat /\ aligned(n) + widen <= SlotBytes(n)
           /\ n + widen <= SlotBytes(n)
<1>1. aligned(n) \in Nat /\ aligned(n) >= n /\ widen \in Nat
  BY AlignedIs, GivenTypes
<1>2. aligned(n) + widen \in Nat
  BY <1>1
<1>3. SlotBytes(n) \in Nat /\ SlotBytes(n) >= aligned(n) + widen
  BY <1>2, AlignedIs DEF SlotBytes
<1>4. QED
  BY <1>1, <1>3

LEMMA SlotBytesGrows ==
    ASSUME Given, NEW m \in Nat, NEW n \in Nat, m <= n
    PROVE  SlotBytes(m) <= SlotBytes(n)
<1>1. aligned(m) \in Nat /\ aligned(n) \in Nat /\ aligned(m) <= aligned(n) /\ widen \in Nat
  BY AlignedIs, AlignedGrows, GivenTypes
<1>2. /\ aligned(m) + widen \in Nat /\ aligned(n) + widen \in Nat
      /\ aligned(m) + widen <= aligned(n) + widen
  BY <1>1
<1>3. QED
  BY <1>2, AlignedGrows DEF SlotBytes

LEMMA SlotsIs ==
    ASSUME Given, NEW rs \in Nat
    PROVE  /\ Slots(rs) \in 1 .. ring_want
           /\ Slots(rs) = 1 \/ Slots(rs) * rs <= budget
           /\ Slots(rs) < ring_want => (Slots(rs) + 1) * rs > budget
           /\ ring_want * rs <= budget => Slots(rs) = ring_want
<1>1. ring_want \in Nat /\ ring_want >= 1 /\ budget \in Nat
  BY GivenTypes
<1> DEFINE S == {1} \cup {r \in 1 .. ring_want : r * rs <= budget}
           m == Max(S)
<1>2. S \subseteq 1 .. ring_want /\ S # {} /\ S \subseteq Int
  BY <1>1
<1>3. IsFiniteSet(S)
  <2>1. IsFiniteSet(1 .. ring_want)
    BY <1>1, FS_Interval
  <2> HIDE DEF S
  <2>2. QED
    BY <1>2, <2>1, FS_Subset
<1>4. m \in S /\ \A y \in S : m >= y
  <2> HIDE DEF S
  <2>1. QED
    BY <1>2, <1>3, MaxExists
<1>5. Slots(rs) = m
  BY DEF Slots
<1>6. \A r \in 1 .. ring_want : r * rs <= budget => m >= r
  BY <1>4
<1>7. m \in 1 .. ring_want /\ (m = 1 \/ m * rs <= budget)
  BY <1>1, <1>4
<1> HIDE DEF m, S
<1>8. ASSUME m < ring_want PROVE (m + 1) * rs > budget
  <2>1. m + 1 \in 1 .. ring_want /\ ~ (m >= m + 1) /\ (m + 1) * rs \in Nat
    BY <1>1, <1>7, <1>8
  <2>2. ~ ((m + 1) * rs <= budget)
    BY <1>6, <2>1
  <2>3. QED
    BY <1>1, <2>1, <2>2
<1>9. ASSUME ring_want * rs <= budget PROVE m = ring_want
  <2>1. m >= ring_want
    BY <1>1, <1>6, <1>9
  <2>2. QED
    BY <1>1, <1>7, <2>1
<1>10. QED
  BY <1>5, <1>7, <1>8, <1>9

(* The largest layer outside S; of the last layer when there is none.       *)
LEMMA UnpinnedIs ==
    ASSUME Given, NEW S \in SUBSET Layers
    PROVE  /\ \E L \in Layers : Unpinned(S) = nbytes[L] /\ (S # Layers => L \notin S)
           /\ \A L \in Layers \ S : nbytes[L] <= Unpinned(S)
<1>1. CASE S = Layers
  BY <1>1, LayersFinite DEF Unpinned
<1>2. CASE S # Layers
  <2> DEFINE T == {nbytes[L] : L \in Layers \ S}
  <2>1. T # {} /\ \A x \in T : x \in Int
    BY <1>2, GivenTypes
  <2>2. IsFiniteSet(T)
    <3> DEFINE f == [L \in Layers \ S |-> nbytes[L]]
    <3>1. f \in Surjection(Layers \ S, T)
      BY DEF Surjection
    <3>2. IsFiniteSet(Layers \ S)
      BY LayersFinite, FS_Subset
    <3>3. QED
      <4> HIDE DEF f, T
      <4>1. QED
        BY <3>1, <3>2, FS_Surjection
  <2>3. Max(T) \in T /\ \A y \in T : Max(T) >= y
    <3> HIDE DEF T
    <3>1. QED
      BY <2>1, <2>2, MaxExists
  <2>4. Unpinned(S) = Max(T)
    BY <1>2 DEF Unpinned
  <2>5. \A L \in Layers \ S : nbytes[L] <= Max(T)
    <3>1. ASSUME NEW L \in Layers \ S PROVE nbytes[L] <= Max(T)
      <4>1. nbytes[L] \in T /\ Max(T) \in Int /\ nbytes[L] \in Int
        BY <2>1, <2>3
      <4>2. Max(T) >= nbytes[L]
        BY <2>3, <4>1
      <4> HIDE DEF T
      <4>3. QED
        BY <4>1, <4>2
    <3>2. QED
      BY <3>1
  <2>6. QED
    BY <1>2, <2>3, <2>4, <2>5
<1>3. QED
  BY <1>1, <1>2

-----------------------------------------------------------------------------
(* A pass leaves alone what the selection depends on. *)

LEMMA BeforeSteady ==
    ASSUME UNCHANGED given, NEW a, NEW b
    PROVE  Before(a, b)' <=> Before(a, b)
BY DEF given, Before

LEMMA FirstSteady ==
    ASSUME UNCHANGED given, NEW S
    PROVE  First(S)' = First(S)
<1>1. \A a, b : Before(a, b)' <=> Before(a, b)
  BY BeforeSteady
<1>2. (CHOOSE a \in S : \A b \in S \ {a} : Before(a, b)')
        = CHOOSE a \in S : \A b \in S \ {a} : Before(a, b)
  BY <1>1, Zenon
<1>3. QED
  BY <1>2 DEF First

LEMMA ConsiderSteady ==
    ASSUME UNCHANGED given, NEW p
    PROVE  Consider(p)' = Consider(p)
<1>1. First(p.left)' = First(p.left)
  BY FirstSteady
<1>2. QED
  BY <1>1 DEF given, Consider, need, GoesOnPast

LEMMA PickedSteady ==
    ASSUME UNCHANGED given, NEW sp
    PROVE  Picked(sp)' = Picked(sp)
<1>1. \A p : Consider(p)' = Consider(p)
  BY ConsiderSteady
<1> DEFINE Now(pick) == [i \in 0 .. NLayers |->
                           IF i = 0 THEN Start(sp) ELSE Consider(pick[i - 1])']
           Was(pick) == [i \in 0 .. NLayers |->
                           IF i = 0 THEN Start(sp) ELSE Consider(pick[i - 1])]
<1>2. (CHOOSE pick : pick = Now(pick)) = (CHOOSE pick : pick = Was(pick))
  <2>1. \A pick : Now(pick) = Was(pick)
    BY <1>1
  <2>2. QED
    <3> HIDE DEF Now, Was
    <3>1. QED
      BY <2>1, Zenon
<1>3. QED
  BY <1>2 DEF Picked, Start

LEMMA SlotsSteady ==
    ASSUME UNCHANGED given, NEW x
    PROVE  Slots(x)' = Slots(x) /\ SlotBytes(x)' = SlotBytes(x)
<1>1. {r \in 1 .. ring_want : r * x <= budget}' = {r \in 1 .. ring_want : r * x <= budget}
  BY DEF given
<1>2. ({1} \cup {r \in 1 .. ring_want : r * x <= budget})'
         = {1} \cup {r \in 1 .. ring_want : r * x <= budget}
  BY <1>1
<1>3. QED
  BY <1>2 DEF Slots, given, SlotBytes, aligned

-----------------------------------------------------------------------------
(* The invariant of the sizing. *)

Widths == {SlotBytes(nbytes[L]) : L \in Layers}

(* A ring of slots of s bytes holds every layer that is not pinned with it. *)
Holds(s) == \A L \in Layers \ Picked(Slots(s) * s).set : SlotBytes(nbytes[L]) <= s

(* The last pass computed the ring from the slot, and the pinned layers     *)
(* from the ring.                                                           *)
Settled ==
    /\ ring_slot \in Widths /\ ring = Slots(ring_slot)
    /\ chosen = Picked(ring * ring_slot).set /\ spent = Picked(ring * ring_slot).sp
    /\ taken = Picked(ring * ring_slot).mem

(* Not only the slot of the last pass, every wider one a layer could ask    *)
(* for would do: so would any slot the next pass goes back to.              *)
Roomy ==
    /\ \A s \in Widths : s >= ring_slot => Holds(s)
    /\ ring_want * Widest <= budget \/ ring_slot = Widest

SizingIInv ==
    /\ SizingTypeOK
    /\ pass = 0 => Idle
    /\ done => pass > 0
    /\ ~done => pass < MaxPasses
    /\ pass > 0 => Settled
    /\ (pass > 0 /\ ~Critical) => Roomy

LEMMA GivenHere == ASSUME SizingTypeOK PROVE Given
BY DEF SizingTypeOK, Given

LEMMA WidthsAre ==
    ASSUME Given
    PROVE  /\ Widest \in Widths /\ Widest \in Nat /\ Unpinned({}) \in Nat
           /\ Widths \subseteq Nat /\ \A s \in Widths : s <= Widest
           /\ \A L \in Layers : SlotBytes(nbytes[L]) \in Widths
           /\ \A L \in Layers : nbytes[L] <= Unpinned({})
           /\ \E L \in Layers : Unpinned({}) = nbytes[L]
<1>1. PICK M \in Layers : Unpinned({}) = nbytes[M]
  BY UnpinnedIs, LayersFinite
<1>2. \A L \in Layers : nbytes[L] <= Unpinned({})
  BY UnpinnedIs
<1>3. \A L \in Layers : nbytes[L] \in Nat /\ SlotBytes(nbytes[L]) \in Nat
  <2>1. \A L \in Layers : nbytes[L] \in Nat
    BY GivenTypes
  <2>2. QED
    BY <2>1, SlotBytesIs
<1>4. Widest \in Widths /\ Widths \subseteq Nat
  BY <1>1, <1>3 DEF Widths, Widest
<1>5. ASSUME NEW s \in Widths PROVE s <= Widest
  <2>1. PICK L \in Layers : s = SlotBytes(nbytes[L])
    BY DEF Widths
  <2>2. QED
    BY <1>1, <1>2, <1>3, <2>1, SlotBytesGrows DEF Widest
<1>6. QED
  BY <1>1, <1>2, <1>3, <1>4, <1>5 DEF Widths

(* The widest slot holds any layer. *)
LEMMA WidestHolds == ASSUME Given PROVE Holds(Widest)
BY WidthsAre DEF Holds

-----------------------------------------------------------------------------
(* A pass keeps it. *)

(* What the next pass settles on is roomy again: it goes back to no slot    *)
(* that would not do.                                                       *)
LEMMA StaysRoomy ==
    ASSUME Given, ring_slot \in Widths, Roomy, ~Critical,
           chosen = Picked(Slots(ring_slot) * ring_slot).set,
           NEW rs, rs = SlotBytes(Unpinned(chosen))
    PROVE  /\ \A s \in Widths : s >= rs => Holds(s)
           /\ ring_want * Widest <= budget \/ rs = Widest
<1>1. /\ ring_slot \in Nat /\ Widest \in Nat /\ ring_slot <= Widest
      /\ ring_want \in Nat /\ ring_want >= 1 /\ budget \in Nat
  BY WidthsAre, GivenTypes
<1>2. /\ Slots(ring_slot) \in 1 .. ring_want
      /\ Slots(ring_slot) * ring_slot \in Nat
  <2>1. Slots(ring_slot) \in 1 .. ring_want
    BY <1>1, SlotsIs
  <2>2. QED
    BY <1>1, <2>1
<1>3. chosen \in SUBSET Layers
  BY <1>2, PickedKeeps DEF Picking
<1>4. PICK M \in Layers : Unpinned(chosen) = nbytes[M] /\ (chosen # Layers => M \notin chosen)
  BY <1>3, UnpinnedIs
<1>5. /\ rs \in Widths /\ rs \in Nat /\ nbytes[M] \in Nat
      /\ \A L \in Layers \ chosen : nbytes[L] <= nbytes[M]
  <2>1. \A L \in Layers \ chosen : nbytes[L] <= Unpinned(chosen)
    BY <1>3, UnpinnedIs
  <2>2. QED
    BY <1>4, <2>1, WidthsAre, GivenTypes DEF Widths
<1>6. CASE ring_want * Widest <= budget
  <2>1. ASSUME NEW s \in Widths PROVE s \in Nat /\ Slots(s) = ring_want
    <3>1. s \in Nat /\ s <= Widest
      BY WidthsAre
    <3>2. ring_want * s <= ring_want * Widest /\ ring_want * s \in Nat /\ ring_want * Widest \in Nat
      BY <1>1, <3>1, Products
    <3>3. ring_want * s <= budget
      BY <1>1, <1>6, <3>2
    <3>4. QED
      BY <3>1, <3>3, SlotsIs
  <2>2. ASSUME NEW s \in Widths, s >= rs PROVE Holds(s)
    <3>1. CASE s >= ring_slot
      BY <3>1 DEF Roomy
    <3>2. CASE ~ (s >= ring_slot)
      <4>1. s \in Nat /\ s <= ring_slot
        BY <1>1, <2>1, <3>2
      <4>2. /\ ring_want * s \in Nat /\ ring_want * ring_slot \in Nat
            /\ ring_want * s <= ring_want * ring_slot
        BY <1>1, <4>1, Products
      <4>3. chosen = Picked(ring_want * ring_slot).set
        BY <2>1
      <4>4. ASSUME NEW L \in Layers \ Picked(ring_want * s).set
            PROVE  SlotBytes(nbytes[L]) <= s
        <5>1. PICK K \in Layers \ chosen : nbytes[L] <= nbytes[K]
          BY <4>2, <4>3, NarrowerPinsMore
        <5>2. nbytes[K] <= nbytes[M] /\ nbytes[L] \in Nat /\ nbytes[K] \in Nat
          BY <1>5, GivenTypes
        <5>3. nbytes[L] <= nbytes[M]
          BY <1>5, <5>1, <5>2
        <5>4. SlotBytes(nbytes[L]) <= SlotBytes(nbytes[M]) /\ SlotBytes(nbytes[L]) \in Nat
          BY <1>5, <5>2, <5>3, SlotBytesGrows, SlotBytesIs
        <5>5. SlotBytes(nbytes[M]) = rs
          BY <1>4
        <5>6. QED
          BY <1>5, <2>1, <2>2, <5>4, <5>5
      <4>5. QED
        BY <2>1, <4>4 DEF Holds
    <3>3. QED
      BY <3>1, <3>2
  <2>3. QED
    BY <1>6, <2>2
<1>7. CASE ~ (ring_want * Widest <= budget)
  <2>1. ring_slot = Widest
    BY <1>7 DEF Roomy
  <2> DEFINE r == Slots(Widest)
  <2>2. /\ r \in 1 .. ring_want /\ (r = 1 \/ r * Widest <= budget)
        /\ (r < ring_want => (r + 1) * Widest > budget)
    BY <1>1, SlotsIs
  <2> HIDE DEF r
  <2>3. PICK B \in Layers : Unpinned({}) = nbytes[B]
    BY WidthsAre
  <2>4. need(B) = Heaviest /\ Heaviest \in Nat /\ Heaviest > 0 /\ r * Widest \in Nat
    <3>1. need(B) = Heaviest
      BY <2>3 DEF need, Heaviest
    <3>2. need(B) \in Nat /\ need(B) > 0
      BY GivenTypes
    <3>3. QED
      BY <1>1, <2>2, <3>1, <3>2
  <2>5. r * Widest + need(B) > budget
    <3>1. CASE r < ring_want
      <4>1. r \in 1 .. ring_want - 1 /\ (r + 1) * Widest \in Nat
        BY <1>1, <2>2, <3>1
      <4>2. ~ (r * Widest + Heaviest <= budget /\ budget < (r + 1) * Widest)
        BY <4>1 DEF Critical
      <4>3. budget < (r + 1) * Widest
        BY <1>1, <2>2, <3>1, <4>1
      <4>4. ~ (r * Widest + Heaviest <= budget)
        BY <4>2, <4>3
      <4>5. QED
        BY ONLY <1>1, <2>4, <4>4
    <3>2. CASE r = ring_want
      <4>1. r * Widest > budget
        BY <1>1, <1>7, <2>4, <3>2
      <4>2. QED
        BY <1>1, <2>4, <4>1
    <3>3. QED
      BY <1>1, <2>2, <3>1, <3>2
  <2>6. B \notin chosen
    <3>1. chosen = Picked(r * Widest).set
      BY <2>1 DEF r
    <3>2. \A L \in Picked(r * Widest).set : r * Widest + need(L) <= budget
      BY <2>4, PickedKeeps DEF Kept
    <3>3. need(B) \in Nat
      BY <2>4
    <3>4. ~ (r * Widest + need(B) <= budget)
      BY ONLY <1>1, <2>4, <2>5, <3>3
    <3>5. QED
      BY <3>1, <3>2, <3>4
  <2>7. nbytes[B] <= nbytes[M] /\ nbytes[M] <= nbytes[B] /\ nbytes[B] \in Nat
    BY <1>5, <2>3, <2>6, WidthsAre, GivenTypes
  <2>8. rs = Widest
    BY <1>4, <1>5, <2>3, <2>7 DEF Widest
  <2>9. ASSUME NEW s \in Widths, s >= Widest PROVE Holds(s)
    <3>1. s = Widest
      BY <1>1, <2>9, WidthsAre
    <3>2. QED
      BY <3>1, WidestHolds
  <2>10. QED
    BY <2>8, <2>9
<1>8. QED
  BY <1>6, <1>7

LEMMA HoldsSteady ==
    ASSUME UNCHANGED given
    PROVE  /\ \A s : Holds(s)' <=> Holds(s)
           /\ Widths' = Widths /\ Widest' = Widest /\ (Critical' <=> Critical)
<1>1. nbytes' = nbytes /\ widen' = widen /\ budget' = budget /\ ring_want' = ring_want
  BY DEF given
<1>2. \A x : SlotBytes(x)' = SlotBytes(x) /\ Slots(x)' = Slots(x) /\ Picked(x)' = Picked(x)
  BY SlotsSteady, PickedSteady
<1>3. ASSUME NEW s PROVE Holds(s)' <=> Holds(s)
  <2>1. Slots(s)' = Slots(s)
    BY <1>2
  <2>2. Picked(Slots(s) * s)' = Picked(Slots(s) * s)
    BY <1>2, <2>1
  <2>3. \A L : SlotBytes(nbytes[L])' = SlotBytes(nbytes[L])
    BY <1>1 DEF SlotBytes, aligned
  <2>4. QED
    BY <2>2, <2>3 DEF Holds
<1>4. \A L : SlotBytes(nbytes[L])' = SlotBytes(nbytes[L])
  BY <1>1 DEF SlotBytes, aligned
<1>5. Widths' = Widths
  BY <1>4 DEF Widths
<1>6. Unpinned({})' = Unpinned({})
  BY <1>1 DEF Unpinned
<1>7. Widest' = Widest /\ Heaviest' = Heaviest
  BY <1>1, <1>6 DEF Widest, Heaviest, SlotBytes, aligned
<1>8. Critical' <=> Critical
  BY <1>1, <1>7 DEF Critical
<1>9. QED
  BY <1>3, <1>5, <1>7, <1>8

LEMMA PassKeeps ==
    ASSUME SizingIInv, Pass
    PROVE  SizingIInv'
<1> DEFINE rs == SlotBytes(Unpinned(chosen))
           sp == Slots(rs) * rs
<1>1. /\ ~done /\ ring' = Slots(rs) /\ ring_slot' = rs
      /\ chosen' = Picked(sp).set /\ spent' = Picked(sp).sp /\ pass' = pass + 1
      /\ taken' = Picked(sp).mem
      /\ done' \in BOOLEAN /\ (~done' => pass' # MaxPasses) /\ UNCHANGED given
  BY DEF Pass
<1>2. /\ Given /\ chosen \in SUBSET Layers /\ pass \in Nat /\ pass < MaxPasses
      /\ ring_want \in Nat /\ ring_want >= 1
  <2>1. Given /\ chosen \in SUBSET Layers /\ pass \in 0 .. MaxPasses
    BY GivenHere DEF SizingIInv, SizingTypeOK
  <2>2. pass < MaxPasses
    BY <1>1 DEF SizingIInv
  <2>3. QED
    BY <2>1, <2>2, GivenTypes
<1>3. rs \in Widths /\ rs \in Nat
  <2>1. \E L \in Layers : Unpinned(chosen) = nbytes[L]
    BY <1>2, UnpinnedIs
  <2>2. QED
    BY <1>2, <2>1, WidthsAre
<1> HIDE DEF rs
<1>4. Slots(rs) \in 1 .. ring_want /\ sp \in Nat
  <2>1. Slots(rs) \in 1 .. ring_want
    BY <1>2, <1>3, SlotsIs
  <2>2. QED
    BY <1>2, <1>3, <2>1
<1>5. /\ Picked(sp) \in Picking /\ Picked(sp).set \in SUBSET Layers
      /\ Picked(sp).sp \in Nat /\ Picked(sp).mem \in Nat
  BY <1>2, <1>4, PickedKeeps DEF Picking
<1>6. SizingTypeOK'
  <2>1. UNCHANGED <<nbytes, widen, budget, ring_want, pin_prefix>>
    BY <1>1 DEF given
  <2>2. pass' \in 0 .. MaxPasses
    BY <1>1, <1>2
  <2> HIDE DEF sp
  <2>3. QED
    BY <1>1, <1>3, <1>4, <1>5, <2>1, <2>2 DEF SizingIInv, SizingTypeOK
<1>7. pass' > 0 /\ (~done' => pass' < MaxPasses)
  BY <1>1, <1>2
<1>8. Settled'
  <2>1. Widths' = Widths
    BY <1>1, HoldsSteady
  <2>2. Slots(ring_slot)' = Slots(rs)
    <3>1. \A x : Slots(x)' = Slots(x)
      BY <1>1, SlotsSteady
    <3>2. QED
      BY <1>1, <3>1
  <2>3. Picked(ring * ring_slot)' = Picked(sp)
    <3>1. \A x : Picked(x)' = Picked(x)
      BY <1>1, PickedSteady
    <3>2. (ring * ring_slot)' = sp
      BY <1>1
    <3>3. QED
      BY <3>1, <3>2
  <2> HIDE DEF sp
  <2>4. QED
    BY <1>1, <1>3, <2>1, <2>2, <2>3 DEF Settled
<1>9. ASSUME ~Critical' PROVE Roomy'
  <2>1. /\ \A s : Holds(s)' <=> Holds(s)
        /\ Widths' = Widths /\ Widest' = Widest /\ ~Critical
        /\ ring_want' = ring_want /\ budget' = budget
    BY <1>1, <1>9, HoldsSteady DEF given
  <2>2. /\ \A s \in Widths : s >= rs => Holds(s)
        /\ ring_want * Widest <= budget \/ rs = Widest
    <3>1. CASE pass = 0
      <4>1. chosen = {} /\ rs = Widest
        BY <3>1 DEF SizingIInv, Idle, rs, Widest
      <4>2. ASSUME NEW s \in Widths, s >= Widest PROVE s = Widest
        BY <1>2, <4>2, WidthsAre
      <4>3. QED
        BY <1>2, <4>1, <4>2, WidestHolds
    <3>2. CASE pass > 0
      <4>1. ring_slot \in Widths /\ Roomy /\ chosen = Picked(Slots(ring_slot) * ring_slot).set
        BY <2>1, <3>2 DEF SizingIInv, Settled
      <4>2. QED
        BY <1>2, <2>1, <4>1, StaysRoomy DEF rs
    <3>3. QED
      BY <1>2, <3>1, <3>2
  <2>3. QED
    BY <1>1, <2>1, <2>2 DEF Roomy
<1>10. QED
  BY <1>2, <1>6, <1>7, <1>8, <1>9 DEF SizingIInv

LEMMA OpenKeeps ==
    ASSUME SizingIInv, NEW b \in Nat, Open(b)
    PROVE  SizingIInv' /\ pass' = 0 /\ budget' = b
<1>1. pass = 0 /\ pass' = 0 /\ budget' = b /\ Idle' /\ done' = done
  BY DEF Open, Idle
<1>2. ~done
  BY <1>1 DEF SizingIInv
<1>3. SizingTypeOK'
  BY DEF SizingIInv, SizingTypeOK, Open
<1>4. QED
  BY <1>1, <1>2, <1>3 DEF SizingIInv

LEMMA SizingStill ==
    ASSUME SizingIInv, UNCHANGED sizing
    PROVE  SizingIInv'
<1>1. /\ UNCHANGED given /\ pass' = pass /\ chosen' = chosen /\ ring' = ring
      /\ ring_slot' = ring_slot /\ spent' = spent /\ done' = done /\ taken' = taken
      /\ ring_want' = ring_want /\ budget' = budget
  BY DEF sizing, given
<1>2. SizingTypeOK' /\ (Idle' <=> Idle)
  BY <1>1 DEF SizingIInv, SizingTypeOK, given, Idle
<1>3. /\ \A s : Holds(s)' <=> Holds(s)
      /\ Widths' = Widths /\ Widest' = Widest /\ (Critical' <=> Critical)
  BY <1>1, HoldsSteady
<1>4. /\ Slots(ring_slot)' = Slots(ring_slot)
      /\ Picked(ring * ring_slot)' = Picked(ring * ring_slot)
  <2>1. (\A x : Slots(x)' = Slots(x)) /\ \A x : Picked(x)' = Picked(x)
    BY <1>1, SlotsSteady, PickedSteady
  <2>2. QED
    BY <1>1, <2>1
<1>5. Settled => Settled'
  BY <1>1, <1>3, <1>4 DEF Settled
<1>6. Roomy => Roomy'
  BY <1>1, <1>3 DEF Roomy
<1>7. QED
  BY <1>1, <1>2, <1>3, <1>5, <1>6 DEF SizingIInv

LEMMA SizingStarts == SizingInit => SizingIInv
<1> SUFFICES ASSUME SizingInit PROVE SizingIInv
  OBVIOUS
<1>1. /\ pass = 0 /\ Idle /\ ~done /\ done \in BOOLEAN /\ budget = 0
      /\ ring_slot = 0 /\ spent = 0 /\ taken = 0 /\ chosen = {}
  BY DEF SizingInit, Idle
<1>2. ring_want \in RingWants /\ ring_want \in Nat /\ ring_want >= 1 /\ ring = ring_want
  BY SizingAssumption DEF SizingInit, Idle
<1>3. nbytes \in [Layers -> Sizes] /\ widen \in Widens /\ pin_prefix \in BOOLEAN
  BY DEF SizingInit
<1>4. SizingTypeOK
  BY <1>1, <1>2, <1>3 DEF SizingTypeOK
<1>5. QED
  BY <1>1, <1>4 DEF SizingIInv

(* What is spent keeps the budget, but for the slot that is always granted. *)
LEMMA RingKeepsBudget ==
    ASSUME SizingIInv, pass > 0
    PROVE  spent <= budget \/ (ring = 1 /\ chosen = {})
<1>1. Given /\ Settled
  BY GivenHere DEF SizingIInv
<1>2. ring_slot \in Nat /\ ring \in 1 .. ring_want /\ ring_want \in Nat /\ budget \in Nat
  BY <1>1, GivenTypes DEF SizingIInv, SizingTypeOK
<1> DEFINE sp == ring * ring_slot
<1>3. sp \in Nat
  BY <1>2
<1>4. Kept(Picked(sp), sp) /\ chosen = Picked(sp).set /\ spent = Picked(sp).sp
  BY <1>1, <1>3, PickedKeeps DEF Settled
<1>5. CASE chosen # {}
  BY <1>4, <1>5 DEF Kept
<1>6. CASE chosen = {} /\ ring # 1
  <2>1. Slots(ring_slot) = 1 \/ Slots(ring_slot) * ring_slot <= budget
    BY <1>1, <1>2, SlotsIs
  <2>2. ring = Slots(ring_slot) /\ spent = sp
    BY <1>1, <1>4, <1>6 DEF Settled, Kept
  <2>3. QED
    BY <1>6, <2>1, <2>2
<1>7. QED
  BY <1>5, <1>6

(* What RingFits asks for follows.                                          *)
LEMMA RingFitsHere ==
    ASSUME SizingIInv
    PROVE  RingFits
<1> SUFFICES ASSUME done PROVE RingFits
  BY DEF RingFits
<1>1. Given /\ Settled /\ (~Critical => Roomy) /\ pass > 0
  BY GivenHere DEF SizingIInv
<1>2. ring_slot \in Nat /\ ring \in 1 .. ring_want /\ ring_want \in Nat /\ budget \in Nat
  BY <1>1, GivenTypes DEF SizingIInv, SizingTypeOK
<1> DEFINE sp == ring * ring_slot
<1>3. sp \in Nat
  BY <1>2
<1>4. /\ Picked(sp).left = {} /\ Kept(Picked(sp), sp) /\ Picked(sp) \in Picking
      /\ chosen = Picked(sp).set /\ spent = Picked(sp).sp
  BY <1>1, <1>3, PickedKeeps DEF Settled
<1>5. ASSUME ~Critical, NEW L \in Layers \ chosen PROVE aligned(nbytes[L]) + widen <= ring_slot
  <2>1. Holds(ring_slot)
    BY <1>1, <1>2, <1>5 DEF Roomy, Settled
  <2>2. chosen = Picked(Slots(ring_slot) * ring_slot).set
    BY <1>1 DEF Settled
  <2>3. SlotBytes(nbytes[L]) <= ring_slot /\ nbytes[L] \in Nat
    BY <1>1, <2>1, <2>2, GivenTypes DEF Holds
  <2>4. /\ SlotBytes(nbytes[L]) \in Nat /\ aligned(nbytes[L]) + widen <= SlotBytes(nbytes[L])
        /\ aligned(nbytes[L]) \in Nat /\ widen \in Nat
    BY <1>1, <2>3, SlotBytesIs, AlignedIs, GivenTypes
  <2>5. QED
    BY <1>2, <2>3, <2>4
<1>6. spent <= budget \/ (ring = 1 /\ chosen = {})
  BY <1>1, RingKeepsBudget
<1>7. pin_prefix \/ \A L \in Layers \ chosen : spent + need(L) > budget
  BY <1>4 DEF Kept
<1>8. QED
  BY <1>5, <1>6, <1>7 DEF RingFits

-----------------------------------------------------------------------------
(* Amounts of memory. *)

LEMMA Constants ==
    /\ GB \in Nat /\ GB % 20 = 0 /\ StatePer \in Nat /\ KvPer \in Nat /\ PosBuf \in Nat
    /\ Matrices \in Nat /\ Chunk \in Nat /\ TopK \in Nat /\ MAX_GEN \in Nat
    /\ ExpertSlot \in Nat \ {0} /\ MAX_PROMPT \in Nat /\ Chunk <= Matrices
    /\ NLayers \in Nat /\ NLayers > 0
BY StartupAssumption, SizingAssumption

LEMMA RequestIs ==
    ASSUME req \in Requests, machine \in Machines
    PROVE  /\ req.auto \in BOOLEAN /\ req.ultra \in BOOLEAN /\ req.incremental \in BOOLEAN
           /\ req.streamed \in BOOLEAN /\ req.spec \in BOOLEAN
           /\ req.trunk_gb \in Nat /\ req.cache_gb \in Nat /\ req.ids \in Nat
           /\ req.gen \in Nat /\ req.layers \in 1 .. NLayers /\ req.prior \in Nat
           /\ req.draft_gb \in Nat
           /\ machine.avail \in Nat /\ machine.avail % 20 = 0 /\ machine.total \in Nat
BY StartupAssumption

LEMMA MlaCounts ==
    ASSUME NEW n \in Nat
    PROVE  /\ MlaIn(n) \in Nat /\ Cardinality(Mla) \in Nat
           /\ MlaIn(n) <= Cardinality(Mla)
<1>1. IsFiniteSet(Layers) /\ Mla \in SUBSET Layers
  BY LayersFinite, StartupAssumption
<1>2. IsFiniteSet(Mla)
  BY <1>1, FS_Subset
<1> DEFINE T == {L \in Mla : L < n}
<1>3. T \in SUBSET Mla
  OBVIOUS
<1>4. MlaIn(n) = Cardinality(T)
  BY DEF MlaIn
<1> HIDE DEF T
<1>5. IsFiniteSet(T) /\ Cardinality(T) <= Cardinality(Mla)
  BY <1>2, <1>3, FS_Subset
<1>6. QED
  BY <1>2, <1>4, <1>5, FS_CardinalityType

(* The sum over the layers that run is a number.                            *)
LEMMA TotalIs ==
    ASSUME Given, req \in Requests, machine \in Machines
    PROVE  Total \in Nat
<1> DEFINE g == [q \in Nat \X (1 .. NLayers) |-> q[1] + nbytes[q[2] - 1]]
<1>1. NLayers \in Nat /\ NLayers > 0 /\ req.layers \in 0 .. NLayers
  BY Constants, RequestIs
<1>2. \A n \in 1 .. NLayers : nbytes[n - 1] \in Nat
  <2>1. \A n \in 1 .. NLayers : n - 1 \in Layers
    BY <1>1 DEF Layers
  <2>2. QED
    BY <2>1, GivenTypes
<1>3. g \in [Nat \X (1 .. NLayers) -> Nat]
  <2>1. ASSUME NEW q \in Nat \X (1 .. NLayers) PROVE q[1] + nbytes[q[2] - 1] \in Nat
    <3>1. q[1] \in Nat /\ q[2] \in 1 .. NLayers
      OBVIOUS
    <3>2. QED
      BY <1>2, <3>1
  <2>2. QED
    BY <2>1
<1>4. PICK f \in [0 .. NLayers -> Nat] : Recurs(f, NLayers, 0, g)
  <2> HIDE DEF g
  <2>1. QED
    BY <1>1, <1>3, Recursion
<1>5. f[0] = 0 /\ \A n \in 1 .. NLayers : f[n] = f[n - 1] + nbytes[n - 1]
  <2>1. ASSUME NEW n \in 1 .. NLayers PROVE f[n] = f[n - 1] + nbytes[n - 1]
    <3>1. n - 1 \in 0 .. NLayers /\ <<f[n - 1], n>> \in Nat \X (1 .. NLayers)
      BY <1>1
    <3>2. f[n] = g[<<f[n - 1], n>>]
      <4> HIDE DEF g
      <4>1. QED
        BY <1>4 DEF Recurs
    <3>3. QED
      BY <3>1, <3>2
  <2>2. QED
    BY <1>4, <2>1 DEF Recurs
<1> DEFINE D(h) == [n \in 0 .. NLayers |-> IF n = 0 THEN 0 ELSE h[n - 1] + nbytes[n - 1]]
<1>6. f = D(f)
  <2>1. ASSUME NEW n \in 0 .. NLayers
        PROVE  f[n] = IF n = 0 THEN 0 ELSE f[n - 1] + nbytes[n - 1]
    <3>1. n # 0 => n \in 1 .. NLayers
      BY <1>1
    <3>2. QED
      BY <1>5, <3>1
  <2>2. QED
    BY <2>1
<1>7. ASSUME NEW h, h = D(h) PROVE h = f
  <2>1. \A n \in 0 .. NLayers : h[n] = IF n = 0 THEN 0 ELSE h[n - 1] + nbytes[n - 1]
    BY <1>7
  <2> DEFINE B == {n \in 0 .. NLayers : h[n] = f[n]}
  <2>2. 0 \in B
    BY <1>1, <1>5, <2>1
  <2>3. ASSUME NEW n \in 0 .. NLayers - 1, n \in B PROVE n + 1 \in B
    <3>1. n + 1 \in 1 .. NLayers /\ n + 1 \in 0 .. NLayers /\ n + 1 # 0 /\ n + 1 - 1 = n
      BY <1>1
    <3>2. h[n + 1] = h[n] + nbytes[n] /\ f[n + 1] = f[n] + nbytes[n]
      BY <1>5, <2>1, <3>1
    <3>3. QED
      BY <2>3, <3>1, <3>2
  <2>4. \A n \in 0 .. NLayers : n \in B
    <3>1. \A n \in 0 .. NLayers - 1 : n \in B => n + 1 \in B
      BY <2>3
    <3> HIDE DEF B
    <3>2. QED
      BY <1>1, <2>2, <3>1, Climbs
  <2>5. \A n \in 0 .. NLayers : h[n] = f[n]
    BY <2>4
  <2>6. QED
    BY <1>6, <1>7, <2>5
<1>8. (CHOOSE h : h = D(h)) = f
  <2> HIDE DEF D
  <2>1. QED
    BY <1>6, <1>7
<1>9. Total = f[req.layers]
  BY <1>8 DEF Total
<1>10. QED
  BY <1>1, <1>9

TrunkPart  == IF req.streamed THEN taken ELSE Total
CachePart  == nslot * ExpertSlot
BufferPart == Tmax * PosBuf + w_state + (IF req.incremental THEN kv ELSE 0)
DraftPart  == (IF Snaps THEN StatePer * req.layers ELSE 0)
              + (IF Drafts THEN req.draft_gb + 2 * (StatePer * req.layers) + kv ELSE 0)

LEMMA Amounts ==
    ASSUME TypeOK
    PROVE  /\ Total \in Nat /\ w_model \in Nat /\ w_buf \in Nat /\ w_kv \in Nat
           /\ w_state \in Nat /\ Plan \in Nat /\ TrunkPart \in Nat /\ kv_need \in Nat
           /\ CachePart \in Nat /\ CachePart <= cache_gb
           /\ BufferPart \in Nat /\ DraftPart \in Nat /\ Tm \in Nat /\ Tmax \in Nat
           /\ kv \in Nat
<1>1. /\ Given /\ req \in Requests /\ machine \in Machines /\ trunk_gb \in Nat
      /\ cache_gb \in Nat /\ np \in Nat /\ taken \in Nat
  <2>1. np \in 0 .. MAX_PROMPT /\ SizingTypeOK
    BY DEF TypeOK
  <2>2. np \in Nat /\ Given /\ taken \in Nat
    BY <2>1, Constants, GivenHere DEF SizingTypeOK
  <2>3. QED
    BY <2>2 DEF TypeOK
<1>2. /\ req.gen \in Nat /\ req.layers \in Nat /\ req.prior \in Nat /\ req.draft_gb \in Nat
  BY <1>1, RequestIs
<1>3. Total \in Nat /\ TrunkPart \in Nat
  BY <1>1, TotalIs DEF TrunkPart
<1>4. w_model \in Nat
  BY Constants DEF w_model
<1>5. Tm \in Nat /\ Tmax \in Nat
  BY <1>1, <1>2 DEF Tm, Tmax
<1>6. MlaIn(req.layers) \in Nat /\ Cardinality(Mla) \in Nat
  BY <1>2, MlaCounts
<1>7. kv_need \in Nat /\ kv \in Nat /\ w_buf \in Nat
  <2>1. Tm * KvPer \in Nat /\ Tmax * KvPer \in Nat /\ Tm * PosBuf \in Nat
    BY <1>5, Constants
  <2>2. QED
    BY <1>6, <2>1 DEF kv_need, kv, w_buf
<1>8. w_kv \in Nat
  BY <1>7 DEF w_kv
<1>9. w_state \in Nat
  BY <1>2, Constants DEF w_state, state_layers
<1>10. Plan \in Nat
  BY <1>1, <1>3, <1>4, <1>7, <1>8, <1>9 DEF Plan
<1>11. CachePart \in Nat /\ CachePart <= cache_gb
  BY <1>1, Constants, Divides DEF CachePart, nslot
<1>12. BufferPart \in Nat
  <2>1. Tmax * PosBuf \in Nat
    BY <1>5, Constants
  <2>2. QED
    BY <1>7, <1>9, <2>1 DEF BufferPart
<1>13. DraftPart \in Nat
  <2>1. StatePer * req.layers \in Nat
    BY <1>2, Constants
  <2>2. QED
    BY <1>2, <1>7, <2>1 DEF DraftPart
<1>14. QED
  BY <1>3, <1>4, <1>5, <1>7, <1>8, <1>9, <1>10, <1>11, <1>12, <1>13

-----------------------------------------------------------------------------
(* The automatic split. *)

AutoTrunk == IF Whole THEN trunk_full ELSE Min({usable - cache_min, cap})
AutoCache == IF Whole THEN usable - trunk_full ELSE cache_min

LEMMA SmallerOf ==
    ASSUME NEW a \in Int, NEW b \in Int
    PROVE  /\ Min({a, b}) \in {a, b} /\ Min({a, b}) <= a /\ Min({a, b}) <= b
           /\ Max({a, b}) \in {a, b} /\ Max({a, b}) >= a /\ Max({a, b}) >= b
<1> DEFINE S == {a, b}
<1>1. IsFiniteSet(S) /\ S # {} /\ \A x \in S : x \in Int
  <2>1. S = {a} \cup {b}
    OBVIOUS
  <2>2. IsFiniteSet({a}) /\ IsFiniteSet({b})
    BY FS_Singleton
  <2>3. QED
    BY <2>1, <2>2, FS_Union
<1>2. /\ Min(S) \in S /\ \A y \in S : Min(S) <= y
      /\ Max(S) \in S /\ \A y \in S : Max(S) >= y
  <2> HIDE DEF S
  <2>1. QED
    BY <1>1, MinExists, MaxExists
<1>3. QED
  BY <1>2

(* The two budgets leave the reserve, so what it was made for fits.         *)
LEMMA AutoSplits ==
    ASSUME req \in Requests, machine \in Machines, Enough
    PROVE  /\ AutoTrunk \in Nat /\ AutoCache \in Nat
           /\ AutoTrunk + AutoCache <= Admits(machine.avail) - Sized(840)
           /\ Admits(machine.avail) \in Nat /\ Sized(840) \in Nat
<1>1. machine.avail \in Nat /\ GB \in Nat
  BY RequestIs, Constants
<1>2. ASSUME NEW x \in Nat PROVE Sized(x) \in Nat
  <2>1. x * GB \in Nat
    BY <1>1
  <2>2. QED
    BY <2>1, Divides DEF Sized
<1>3. /\ slot_min \in Nat /\ cache_min \in Nat /\ trunk_full \in Nat /\ Sized(840) \in Nat
  BY <1>2 DEF slot_min, cache_min, trunk_full
<1>4. Admits(machine.avail) \in Nat
  BY <1>1 DEF Admits
<1>5. usable = Admits(machine.avail) - Sized(840) /\ usable \in Int
  BY <1>1, <1>3, <1>4 DEF usable, Reserve
<1>6. usable >= slot_min + cache_min
  BY DEF Enough
<1>7. CASE Whole
  <2>1. AutoTrunk = trunk_full /\ AutoCache = usable - trunk_full
    BY <1>7 DEF AutoTrunk, AutoCache
  <2>2. usable - cache_min >= trunk_full
    BY <1>7 DEF Whole
  <2>3. QED
    BY ONLY <1>3, <1>4, <1>5, <2>1, <2>2
<1>8. CASE ~Whole
  <2>1. AutoTrunk = Min({usable - cache_min, cap}) /\ AutoCache = cache_min
    BY <1>8 DEF AutoTrunk, AutoCache
  <2>2. ceiling \in Int /\ Reserve \in Int
    <3>1. machine.total \in Nat
      BY RequestIs
    <3>2. (55 * machine.total) \div 100 \in Int
      BY <3>1
    <3>3. Reserve \in Int
      BY <1>1, <1>3, <1>4 DEF Reserve
    <3>4. QED
      BY <1>5, <3>2, <3>3 DEF ceiling
  <2>3. cap \in Int /\ cap >= slot_min
    <3>1. ceiling - Reserve - cache_min \in Int /\ slot_min \in Int
      BY <1>3, <2>2
    <3>2. QED
      BY <3>1, SmallerOf DEF cap
  <2>4. usable - cache_min \in Int /\ usable - cache_min >= slot_min
    BY ONLY <1>3, <1>5, <1>6
  <2>5. AutoTrunk \in Int /\ AutoTrunk >= slot_min /\ AutoTrunk <= usable - cache_min
    BY <2>1, <2>3, <2>4, SmallerOf
  <2>6. QED
    BY ONLY <1>3, <1>4, <1>5, <2>1, <2>5
<1>9. QED
  BY <1>7, <1>8, <1>3, <1>4

-----------------------------------------------------------------------------
(* The invariant. *)

Closed  == {"flags", "budget", "prompt", "limits", "plan", "trunk", "too big"}
Divided == {"prompt", "limits", "plan", "trunk", "sizing", "model", "cache", "peek",
            "buffers", "draft", "running", "too big"}
Going   == {"trunk", "sizing", "model", "cache", "peek", "buffers", "draft", "running"}
Loaded  == {"model", "cache", "peek", "buffers", "draft", "running"}

(* The trunk is opened once, with the budget planned for it. *)
Opened ==
    /\ pc \in Closed => pass = 0
    /\ pc = "sizing" => req.streamed /\ budget = trunk_gb
    /\ (pc \in Loaded /\ req.streamed) => done /\ budget = trunk_gb

(* What is asked for together can be, and an automatic budget is the split. *)
Split ==
    /\ pc \notin {"flags", "refused"} => ~Clash
    /\ (pc \in Divided /\ req.auto) =>
          Enough /\ trunk_gb = AutoTrunk /\ cache_gb = AutoCache

Planned ==
    /\ pc \in Going => planned = Plan /\ Fits(Plan)
    /\ pc = "too big" => planned = Plan /\ ~Fits(Plan)

(* What has been allocated when.                                            *)
Ledger ==
    /\ pc \in Closed \cup {"sizing"} => used = 0
    /\ pc = "model" => used = TrunkPart
    /\ pc = "cache" => used = TrunkPart + w_model
    /\ pc \in {"peek", "buffers"} => used = TrunkPart + w_model + CachePart
    /\ pc = "draft" => used = TrunkPart + w_model + CachePart + BufferPart
    /\ pc = "running" => used = TrunkPart + w_model + CachePart + BufferPart + DraftPart

IInv == TypeOK /\ SizingIInv /\ Opened /\ Split /\ Planned /\ Ledger

-----------------------------------------------------------------------------
(* The steps. *)

(* The plan and its parts depend on the trunk's layers, the request and the *)
(* budgets only.                                                            *)
LEMMA PlanSteady ==
    ASSUME UNCHANGED <<nbytes, request, trunk_gb, cache_gb, np>>
    PROVE  /\ Plan' = Plan /\ Total' = Total /\ (Fits(Plan)' <=> Fits(Plan))
           /\ w_model' = w_model /\ CachePart' = CachePart /\ BufferPart' = BufferPart
           /\ DraftPart' = DraftPart
<1>1. /\ nbytes' = nbytes /\ req' = req /\ machine' = machine /\ trunk_gb' = trunk_gb
      /\ cache_gb' = cache_gb /\ np' = np
  BY DEF request
<1>2. Total' = Total
  BY <1>1 DEF Total
<1>3. Tm' = Tm /\ Tmax' = Tmax /\ w_model' = w_model /\ w_state' = w_state /\ w_buf' = w_buf
  BY <1>1 DEF Tm, Tmax, w_model, w_state, state_layers, w_buf
<1>4. kv_need' = kv_need /\ w_kv' = w_kv
  BY <1>1, <1>3 DEF kv_need, w_kv
<1>5. MlaIn(req.layers)' = MlaIn(req.layers)
  BY <1>1 DEF MlaIn
<1>6. kv' = kv
  BY <1>1, <1>3, <1>5 DEF kv
<1>7. Plan' = Plan
  BY <1>1, <1>2, <1>3, <1>4 DEF Plan
<1>8. Fits(Plan)' <=> Fits(Plan)
  BY <1>1, <1>7 DEF Fits, Admits
<1>9. CachePart' = CachePart
  BY <1>1 DEF CachePart, nslot
<1>10. BufferPart' = BufferPart
  BY <1>1, <1>3, <1>6 DEF BufferPart
<1>11. DraftPart' = DraftPart
  BY <1>1, <1>6 DEF DraftPart, Snaps, Drafts
<1>12. QED
  BY <1>2, <1>3, <1>7, <1>8, <1>9, <1>10, <1>11

LEMMA AutoSteady ==
    ASSUME UNCHANGED request
    PROVE  /\ Clash' <=> Clash
           /\ Enough' <=> Enough
           /\ AutoTrunk' = AutoTrunk /\ AutoCache' = AutoCache
<1>1. req' = req /\ machine' = machine
  BY DEF request
<1>2. Reserve' = Reserve /\ usable' = usable /\ ceiling' = ceiling
  BY <1>1 DEF Reserve, usable, ceiling, Admits
<1>3. cap' = cap /\ (Whole' <=> Whole) /\ (Enough' <=> Enough) /\ (Clash' <=> Clash)
  <2>1. {ceiling - Reserve - cache_min, slot_min}' = {ceiling - Reserve - cache_min, slot_min}
    BY <1>2 DEF cache_min, slot_min
  <2>2. QED
    BY <1>1, <1>2, <2>1 DEF cap, Whole, Enough, Clash, slot_min, cache_min, trunk_full
<1>4. {usable - cache_min, cap}' = {usable - cache_min, cap}
  BY <1>2, <1>3 DEF cache_min
<1>5. QED
  BY <1>2, <1>3, <1>4 DEF AutoTrunk, AutoCache, cache_min, trunk_full

(* A refusal, at any point, leaves nothing to show but the types.           *)
LEMMA RefusalKeeps ==
    ASSUME IInv, Refuses
    PROVE  IInv'
<1>1. /\ pc' = "refused" /\ UNCHANGED sizing /\ req' = req /\ machine' = machine
      /\ trunk_gb' = trunk_gb /\ cache_gb' = cache_gb /\ np' = np
      /\ planned' = planned /\ used' = used
  BY DEF Refuses, Goes, request
<1>2. SizingIInv' /\ SizingTypeOK'
  BY <1>1, SizingStill DEF IInv, SizingIInv
<1>3. TypeOK'
  BY <1>1, <1>2 DEF IInv, TypeOK
<1>4. Opened' /\ Split' /\ Planned' /\ Ledger'
  BY <1>1 DEF Opened, Split, Planned, Ledger, Closed, Divided, Going, Loaded
<1>5. QED
  BY <1>2, <1>3, <1>4 DEF IInv

(* A step that does not touch the trunk.                                    *)
Quiet == UNCHANGED <<sizing, request>>

LEMMA QuietSteps ==
    ASSUME IInv, Quiet
    PROVE  /\ SizingIInv' /\ SizingTypeOK' /\ req' = req /\ machine' = machine
           /\ nbytes' = nbytes /\ pass' = pass /\ budget' = budget /\ done' = done
           /\ taken' = taken /\ UNCHANGED request
<1>1. UNCHANGED sizing /\ UNCHANGED request
  BY DEF Quiet
<1>2. SizingIInv' /\ SizingTypeOK'
  BY <1>1, SizingStill DEF IInv, SizingIInv
<1>3. QED
  BY <1>1, <1>2 DEF sizing, given, request

LEMMA FlagsKeeps ==
    ASSUME IInv, Flags
    PROVE  IInv'
<1>1. CASE Clash /\ Refuses
  BY <1>1, RefusalKeeps
<1>2. CASE /\ ~Clash /\ Goes("budget")
           /\ UNCHANGED <<trunk_gb, cache_gb, np, planned, used>>
  <2>1. /\ pc = "flags" /\ pc' = "budget" /\ Quiet /\ ~Clash
        /\ UNCHANGED <<trunk_gb, cache_gb, np, planned, used>>
    BY <1>2 DEF Flags, Goes, Quiet
  <2>2. /\ SizingIInv' /\ SizingTypeOK' /\ req' = req /\ machine' = machine
        /\ pass' = pass /\ UNCHANGED request
    BY <2>1, QuietSteps
  <2>3. TypeOK'
    BY <2>1, <2>2 DEF IInv, TypeOK
  <2>4. ~Clash'
    BY <2>1, <2>2, AutoSteady
  <2>5. Opened' /\ Split' /\ Planned' /\ Ledger'
    BY <2>1, <2>2, <2>4 DEF IInv, Opened, Split, Planned, Ledger, Closed, Divided, Going, Loaded
  <2>6. QED
    BY <2>2, <2>3, <2>5 DEF IInv
<1>3. QED
  BY <1>1, <1>2 DEF Flags

LEMMA AutoBudgetKeeps ==
    ASSUME IInv, AutoBudget
    PROVE  IInv'
<1>1. /\ pc = "budget" /\ pc' = "prompt" /\ Quiet /\ req.auto /\ Enough
      /\ trunk_gb' = AutoTrunk /\ cache_gb' = AutoCache
      /\ UNCHANGED <<np, planned, used>>
  BY DEF AutoBudget, Goes, Quiet, AutoTrunk, AutoCache
<1>2. /\ SizingIInv' /\ SizingTypeOK' /\ req' = req /\ machine' = machine
      /\ pass' = pass /\ UNCHANGED request
  BY <1>1, QuietSteps
<1>3. AutoTrunk \in Nat /\ AutoCache \in Nat
  BY <1>1, AutoSplits DEF IInv, TypeOK
<1>4. TypeOK'
  BY <1>1, <1>2, <1>3 DEF IInv, TypeOK
<1>5. (Clash' <=> Clash) /\ (Enough' <=> Enough)
      /\ AutoTrunk' = AutoTrunk /\ AutoCache' = AutoCache
  BY <1>2, AutoSteady
<1>6. Opened' /\ Split' /\ Planned' /\ Ledger'
  BY <1>1, <1>2, <1>5 DEF IInv, Opened, Split, Planned, Ledger, Closed, Divided, Going, Loaded
<1>7. QED
  BY <1>2, <1>4, <1>6 DEF IInv

LEMMA FixedBudgetKeeps ==
    ASSUME IInv, FixedBudget
    PROVE  IInv'
<1>1. /\ pc = "budget" /\ pc' = "prompt" /\ Quiet /\ ~req.auto
      /\ UNCHANGED <<trunk_gb, cache_gb, np, planned, used>>
  BY DEF FixedBudget, Goes, Quiet
<1>2. /\ SizingIInv' /\ SizingTypeOK' /\ req' = req /\ machine' = machine
      /\ pass' = pass /\ UNCHANGED request
  BY <1>1, QuietSteps
<1>3. TypeOK'
  BY <1>1, <1>2 DEF IInv, TypeOK
<1>4. Clash' <=> Clash
  BY <1>2, AutoSteady
<1>5. Opened' /\ Split' /\ Planned' /\ Ledger'
  BY <1>1, <1>2, <1>4 DEF IInv, Opened, Split, Planned, Ledger, Closed, Divided, Going, Loaded
<1>6. QED
  BY <1>2, <1>3, <1>5 DEF IInv

LEMMA PromptKeeps ==
    ASSUME IInv, Prompt
    PROVE  IInv'
<1>1. CASE Refuses
  BY <1>1, RefusalKeeps
<1>2. CASE /\ np' = Min({req.ids, MAX_PROMPT}) /\ Goes("limits")
           /\ UNCHANGED <<trunk_gb, cache_gb, planned, used>>
  <2>1. /\ pc = "prompt" /\ pc' = "limits" /\ Quiet /\ np' = Min({req.ids, MAX_PROMPT})
        /\ UNCHANGED <<trunk_gb, cache_gb, planned, used>>
    BY <1>2 DEF Prompt, Goes, Quiet
  <2>2. /\ SizingIInv' /\ SizingTypeOK' /\ req' = req /\ machine' = machine
        /\ pass' = pass /\ UNCHANGED request
    BY <2>1, QuietSteps
  <2>3. np' \in 0 .. MAX_PROMPT
    <3>1. req.ids \in Nat /\ MAX_PROMPT \in Nat
      BY RequestIs, Constants DEF IInv, TypeOK
    <3>2. Min({req.ids, MAX_PROMPT}) \in {req.ids, MAX_PROMPT} /\ Min({req.ids, MAX_PROMPT}) <= MAX_PROMPT
      <4>1. req.ids \in Int /\ MAX_PROMPT \in Int
        BY <3>1
      <4>2. QED
        BY <4>1, SmallerOf
    <3>3. QED
      BY <2>1, <3>1, <3>2
  <2>4. TypeOK'
    BY <2>1, <2>2, <2>3 DEF IInv, TypeOK
  <2>5. (Clash' <=> Clash) /\ (Enough' <=> Enough)
        /\ AutoTrunk' = AutoTrunk /\ AutoCache' = AutoCache
    BY <2>2, AutoSteady
  <2>6. Opened' /\ Split' /\ Planned' /\ Ledger'
    BY <2>1, <2>2, <2>5 DEF IInv, Opened, Split, Planned, Ledger, Closed, Divided, Going, Loaded
  <2>7. QED
    BY <2>2, <2>4, <2>6 DEF IInv
<1>3. QED
  BY <1>1, <1>2 DEF Prompt

LEMMA LimitsKeeps ==
    ASSUME IInv, Limits
    PROVE  IInv'
<1>1. CASE Refuses
  BY <1>1, RefusalKeeps
<1>2. CASE Goes("plan") /\ UNCHANGED <<trunk_gb, cache_gb, np, planned, used>>
  <2>1. /\ pc = "limits" /\ pc' = "plan" /\ Quiet
        /\ UNCHANGED <<trunk_gb, cache_gb, np, planned, used>>
    BY <1>2 DEF Limits, Goes, Quiet
  <2>2. /\ SizingIInv' /\ SizingTypeOK' /\ req' = req /\ machine' = machine
        /\ pass' = pass /\ UNCHANGED request
    BY <2>1, QuietSteps
  <2>3. TypeOK'
    BY <2>1, <2>2 DEF IInv, TypeOK
  <2>4. (Clash' <=> Clash) /\ (Enough' <=> Enough)
        /\ AutoTrunk' = AutoTrunk /\ AutoCache' = AutoCache
    BY <2>2, AutoSteady
  <2>5. Opened' /\ Split' /\ Planned' /\ Ledger'
    BY <2>1, <2>2, <2>4 DEF IInv, Opened, Split, Planned, Ledger, Closed, Divided, Going, Loaded
  <2>6. QED
    BY <2>2, <2>3, <2>5 DEF IInv
<1>3. QED
  BY <1>1, <1>2 DEF Limits

LEMMA AdmitKeeps ==
    ASSUME IInv, Admit
    PROVE  IInv'
<1>1. /\ pc = "plan" /\ Quiet /\ planned' = Plan
      /\ pc' = (IF Fits(Plan) THEN "trunk" ELSE "too big")
      /\ UNCHANGED <<trunk_gb, cache_gb, np, used>>
  BY DEF Admit, Goes, Quiet
<1>2. /\ SizingIInv' /\ SizingTypeOK' /\ req' = req /\ machine' = machine
      /\ pass' = pass /\ UNCHANGED request /\ nbytes' = nbytes
  BY <1>1, QuietSteps
<1>3. Plan \in Nat /\ Plan' = Plan /\ (Fits(Plan)' <=> Fits(Plan))
  BY <1>1, <1>2, Amounts, PlanSteady DEF IInv
<1>4. TypeOK'
  BY <1>1, <1>2, <1>3 DEF IInv, TypeOK
<1>5. (Clash' <=> Clash) /\ (Enough' <=> Enough)
      /\ AutoTrunk' = AutoTrunk /\ AutoCache' = AutoCache
  BY <1>2, AutoSteady
<1>6. Opened' /\ Split' /\ Planned' /\ Ledger'
  BY <1>1, <1>2, <1>3, <1>5 DEF IInv, Opened, Split, Planned, Ledger, Closed, Divided, Going, Loaded
<1>7. QED
  BY <1>2, <1>4, <1>6 DEF IInv

(* What an allocation leaves as it is. *)
LEMMA TakesSteps ==
    ASSUME IInv, NEW n \in Nat, NEW there, Takes(n, there), UNCHANGED sizing, there \in Loaded
    PROVE  /\ SizingIInv' /\ TypeOK' /\ used' = used + n /\ pc' = there
           /\ pass' = pass /\ budget' = budget /\ done' = done /\ taken' = taken
           /\ req' = req /\ trunk_gb' = trunk_gb /\ cache_gb' = cache_gb
           /\ planned' = planned
           /\ Plan' = Plan /\ (Fits(Plan)' <=> Fits(Plan))
           /\ TrunkPart' = TrunkPart /\ w_model' = w_model
           /\ CachePart' = CachePart /\ BufferPart' = BufferPart /\ DraftPart' = DraftPart
           /\ (Clash' <=> Clash) /\ (Enough' <=> Enough)
           /\ AutoTrunk' = AutoTrunk /\ AutoCache' = AutoCache
<1>1. /\ used' = used + n /\ pc' = there /\ Quiet
      /\ UNCHANGED <<request, trunk_gb, cache_gb, np, planned>>
  BY DEF Takes, Quiet
<1>2. /\ SizingIInv' /\ SizingTypeOK' /\ req' = req /\ machine' = machine /\ taken' = taken
      /\ pass' = pass /\ budget' = budget /\ done' = done /\ nbytes' = nbytes
  BY <1>1, QuietSteps
<1>3. TypeOK'
  <2>1. used \in Nat
    BY DEF IInv, TypeOK
  <2>2. used' \in Nat
    BY <1>1, <2>1
  <2>3. QED
    BY <1>1, <1>2, <2>2 DEF IInv, TypeOK, Loaded
<1>4. /\ Plan' = Plan /\ (Fits(Plan)' <=> Fits(Plan))
      /\ Total' = Total /\ w_model' = w_model /\ CachePart' = CachePart
      /\ BufferPart' = BufferPart /\ DraftPart' = DraftPart
  BY <1>1, <1>2, PlanSteady
<1>5. TrunkPart' = TrunkPart
  BY <1>2, <1>4 DEF TrunkPart
<1>6. /\ (Clash' <=> Clash) /\ (Enough' <=> Enough)
      /\ AutoTrunk' = AutoTrunk /\ AutoCache' = AutoCache
  BY <1>1, AutoSteady
<1>7. QED
  BY <1>1, <1>2, <1>3, <1>4, <1>5, <1>6

LEMMA BindAllKeeps ==
    ASSUME IInv, BindAll
    PROVE  IInv'
<1>1. pc = "trunk" /\ ~req.streamed /\ Takes(Total, "model") /\ UNCHANGED sizing
  BY DEF BindAll
<1>2. Total \in Nat /\ TrunkPart = Total /\ used = 0
  BY <1>1, Amounts DEF IInv, TrunkPart, Ledger, Closed
<1>3. "model" \in Loaded
  BY DEF Loaded
<1>4. /\ SizingIInv' /\ TypeOK' /\ used' = Total /\ pc' = "model"
      /\ req' = req /\ trunk_gb' = trunk_gb /\ cache_gb' = cache_gb /\ planned' = planned
      /\ Plan' = Plan /\ (Fits(Plan)' <=> Fits(Plan)) /\ TrunkPart' = TrunkPart
      /\ (Clash' <=> Clash) /\ (Enough' <=> Enough)
      /\ AutoTrunk' = AutoTrunk /\ AutoCache' = AutoCache
  BY <1>1, <1>2, <1>3, TakesSteps
<1>5. Opened' /\ Split' /\ Planned' /\ Ledger'
  BY <1>1, <1>2, <1>4 DEF IInv, Opened, Split, Planned, Ledger, Closed, Divided, Going, Loaded
<1>6. QED
  BY <1>4, <1>5 DEF IInv

LEMMA OpenTrunkKeeps ==
    ASSUME IInv, OpenTrunk
    PROVE  IInv'
<1>1. /\ pc = "trunk" /\ req.streamed /\ Open(trunk_gb) /\ pc' = "sizing"
      /\ UNCHANGED <<request, trunk_gb, cache_gb, np, planned, used>>
  BY DEF OpenTrunk
<1>2. trunk_gb \in Nat
  BY DEF IInv, TypeOK
<1>3. SizingIInv' /\ budget' = trunk_gb /\ nbytes' = nbytes
  BY <1>1, <1>2, OpenKeeps DEF IInv, Open
<1>4. req' = req /\ machine' = machine
  BY <1>1 DEF request
<1>5. TypeOK'
  BY <1>1, <1>3, <1>4 DEF IInv, TypeOK, SizingIInv
<1>6. Plan' = Plan /\ (Fits(Plan)' <=> Fits(Plan))
  BY <1>1, <1>3, PlanSteady
<1>7. /\ (Clash' <=> Clash) /\ (Enough' <=> Enough)
      /\ AutoTrunk' = AutoTrunk /\ AutoCache' = AutoCache
  BY <1>1, AutoSteady
<1>8. Opened' /\ Split' /\ Planned' /\ Ledger'
  BY <1>1, <1>3, <1>4, <1>6, <1>7
     DEF IInv, Opened, Split, Planned, Ledger, Closed, Divided, Going, Loaded
<1>9. QED
  BY <1>3, <1>5, <1>8 DEF IInv

LEMMA SizesRingKeeps ==
    ASSUME IInv, SizesRing
    PROVE  IInv'
<1>1. /\ pc = "sizing" /\ Pass /\ pc' = pc
      /\ UNCHANGED <<request, trunk_gb, cache_gb, np, planned, used>>
  BY DEF SizesRing
<1>2. SizingIInv' /\ nbytes' = nbytes /\ budget' = budget
  BY <1>1, PassKeeps DEF IInv, Pass, given
<1>3. req' = req /\ machine' = machine
  BY <1>1 DEF request
<1>4. TypeOK'
  BY <1>1, <1>2, <1>3 DEF IInv, TypeOK, SizingIInv
<1>5. Plan' = Plan /\ (Fits(Plan)' <=> Fits(Plan))
  BY <1>1, <1>2, PlanSteady
<1>6. /\ (Clash' <=> Clash) /\ (Enough' <=> Enough)
      /\ AutoTrunk' = AutoTrunk /\ AutoCache' = AutoCache
  BY <1>1, AutoSteady
<1>7. Opened' /\ Split' /\ Planned' /\ Ledger'
  BY <1>1, <1>2, <1>3, <1>5, <1>6
     DEF IInv, Opened, Split, Planned, Ledger, Closed, Divided, Going, Loaded
<1>8. QED
  BY <1>2, <1>4, <1>7 DEF IInv

LEMMA TrunkOpenedKeeps ==
    ASSUME IInv, TrunkOpened
    PROVE  IInv'
<1>1. pc = "sizing" /\ done /\ Takes(taken, "model") /\ UNCHANGED sizing
  BY DEF TrunkOpened
<1>2. taken \in Nat /\ req.streamed /\ TrunkPart = taken /\ used = 0
  BY <1>1 DEF IInv, TypeOK, SizingTypeOK, TrunkPart, Ledger, Opened
<1>3. "model" \in Loaded
  BY DEF Loaded
<1>4. /\ SizingIInv' /\ TypeOK' /\ used' = used + taken /\ pc' = "model"
      /\ done' = done /\ budget' = budget
      /\ req' = req /\ trunk_gb' = trunk_gb /\ cache_gb' = cache_gb /\ planned' = planned
      /\ Plan' = Plan /\ (Fits(Plan)' <=> Fits(Plan)) /\ TrunkPart' = TrunkPart
      /\ (Clash' <=> Clash) /\ (Enough' <=> Enough)
      /\ AutoTrunk' = AutoTrunk /\ AutoCache' = AutoCache
  BY <1>1, <1>2, <1>3, TakesSteps
<1>5. used' = taken
  BY <1>2, <1>4
<1>6. Opened' /\ Split' /\ Planned' /\ Ledger'
  BY <1>1, <1>2, <1>4, <1>5 DEF IInv, Opened, Split, Planned, Ledger, Closed, Divided, Going, Loaded
<1>7. QED
  BY <1>4, <1>6 DEF IInv

LEMMA ModelPartsKeeps ==
    ASSUME IInv, ModelParts
    PROVE  IInv'
<1>1. pc = "model" /\ Takes(w_model, "cache") /\ UNCHANGED sizing
  BY DEF ModelParts
<1>2. w_model \in Nat
  BY Amounts DEF IInv
<1>3. "cache" \in Loaded
  BY DEF Loaded
<1>4. /\ SizingIInv' /\ TypeOK' /\ used' = used + w_model /\ pc' = "cache"
      /\ done' = done /\ budget' = budget
      /\ req' = req /\ trunk_gb' = trunk_gb /\ cache_gb' = cache_gb /\ planned' = planned
      /\ Plan' = Plan /\ (Fits(Plan)' <=> Fits(Plan)) /\ TrunkPart' = TrunkPart /\ w_model' = w_model
      /\ CachePart' = CachePart /\ BufferPart' = BufferPart /\ DraftPart' = DraftPart
      /\ (Clash' <=> Clash) /\ (Enough' <=> Enough)
      /\ AutoTrunk' = AutoTrunk /\ AutoCache' = AutoCache
  BY <1>1, <1>2, <1>3, TakesSteps
<1>5. Opened' /\ Split' /\ Planned' /\ Ledger'
  BY <1>1, <1>4 DEF IInv, Opened, Split, Planned, Ledger, Closed, Divided, Going, Loaded
<1>6. QED
  BY <1>4, <1>5 DEF IInv

LEMMA BuffersKeeps ==
    ASSUME IInv, Buffers
    PROVE  IInv'
<1>1. pc = "buffers" /\ Takes(BufferPart, "draft") /\ UNCHANGED sizing
  BY DEF Buffers, BufferPart
<1>2. BufferPart \in Nat
  BY Amounts DEF IInv
<1>3. "draft" \in Loaded
  BY DEF Loaded
<1>4. /\ SizingIInv' /\ TypeOK' /\ used' = used + BufferPart /\ pc' = "draft"
      /\ done' = done /\ budget' = budget
      /\ req' = req /\ trunk_gb' = trunk_gb /\ cache_gb' = cache_gb /\ planned' = planned
      /\ Plan' = Plan /\ (Fits(Plan)' <=> Fits(Plan)) /\ TrunkPart' = TrunkPart /\ w_model' = w_model
      /\ CachePart' = CachePart /\ BufferPart' = BufferPart /\ DraftPart' = DraftPart
      /\ (Clash' <=> Clash) /\ (Enough' <=> Enough)
      /\ AutoTrunk' = AutoTrunk /\ AutoCache' = AutoCache
  BY <1>1, <1>2, <1>3, TakesSteps
<1>5. Opened' /\ Split' /\ Planned' /\ Ledger'
  BY <1>1, <1>4 DEF IInv, Opened, Split, Planned, Ledger, Closed, Divided, Going, Loaded
<1>6. QED
  BY <1>4, <1>5 DEF IInv

LEMMA DraftingKeeps ==
    ASSUME IInv, Drafting
    PROVE  IInv'
<1>1. pc = "draft" /\ Takes(DraftPart, "running") /\ UNCHANGED sizing
  BY DEF Drafting, DraftPart
<1>2. DraftPart \in Nat
  BY Amounts DEF IInv
<1>3. "running" \in Loaded
  BY DEF Loaded
<1>4. /\ SizingIInv' /\ TypeOK' /\ used' = used + DraftPart /\ pc' = "running"
      /\ done' = done /\ budget' = budget
      /\ req' = req /\ trunk_gb' = trunk_gb /\ cache_gb' = cache_gb /\ planned' = planned
      /\ Plan' = Plan /\ (Fits(Plan)' <=> Fits(Plan)) /\ TrunkPart' = TrunkPart /\ w_model' = w_model
      /\ CachePart' = CachePart /\ BufferPart' = BufferPart /\ DraftPart' = DraftPart
      /\ (Clash' <=> Clash) /\ (Enough' <=> Enough)
      /\ AutoTrunk' = AutoTrunk /\ AutoCache' = AutoCache
  BY <1>1, <1>2, <1>3, TakesSteps
<1>5. Opened' /\ Split' /\ Planned' /\ Ledger'
  BY <1>1, <1>4 DEF IInv, Opened, Split, Planned, Ledger, Closed, Divided, Going, Loaded
<1>6. QED
  BY <1>4, <1>5 DEF IInv

LEMMA CacheInitKeeps ==
    ASSUME IInv, CacheInit
    PROVE  IInv'
<1>1. CASE Refuses
  BY <1>1, RefusalKeeps
<1>2. CASE Takes(nslot * ExpertSlot, "peek") /\ UNCHANGED sizing
  <2>1. pc = "cache" /\ Takes(CachePart, "peek") /\ UNCHANGED sizing
    BY <1>2 DEF CacheInit, CachePart
  <2>2. CachePart \in Nat
    BY Amounts DEF IInv
  <2>3. "peek" \in Loaded
    BY DEF Loaded
  <2>4. /\ SizingIInv' /\ TypeOK' /\ used' = used + CachePart /\ pc' = "peek"
        /\ done' = done /\ budget' = budget
        /\ req' = req /\ trunk_gb' = trunk_gb /\ cache_gb' = cache_gb /\ planned' = planned
        /\ Plan' = Plan /\ (Fits(Plan)' <=> Fits(Plan)) /\ TrunkPart' = TrunkPart /\ w_model' = w_model
        /\ CachePart' = CachePart /\ BufferPart' = BufferPart /\ DraftPart' = DraftPart
        /\ (Clash' <=> Clash) /\ (Enough' <=> Enough)
        /\ AutoTrunk' = AutoTrunk /\ AutoCache' = AutoCache
    BY <2>1, <2>2, <2>3, TakesSteps
  <2>5. Opened' /\ Split' /\ Planned' /\ Ledger'
    BY <2>1, <2>4 DEF IInv, Opened, Split, Planned, Ledger, Closed, Divided, Going, Loaded
  <2>6. QED
    BY <2>4, <2>5 DEF IInv
<1>3. QED
  BY <1>1, <1>2 DEF CacheInit

LEMMA PeekKeeps ==
    ASSUME IInv, Peek
    PROVE  IInv'
<1>1. CASE Refuses
  BY <1>1, RefusalKeeps
<1>2. CASE Goes("buffers") /\ UNCHANGED <<trunk_gb, cache_gb, np, planned, used>>
  <2>1. /\ pc = "peek" /\ pc' = "buffers" /\ Quiet
        /\ UNCHANGED <<request, trunk_gb, cache_gb, np, planned, used>>
    BY <1>2 DEF Peek, Goes, Quiet
  <2>2. /\ SizingIInv' /\ SizingTypeOK' /\ req' = req /\ machine' = machine /\ taken' = taken
        /\ budget' = budget /\ done' = done /\ nbytes' = nbytes
    BY <2>1, QuietSteps
  <2>3. TypeOK'
    BY <2>1, <2>2 DEF IInv, TypeOK
  <2>4. /\ Plan' = Plan /\ (Fits(Plan)' <=> Fits(Plan)) /\ Total' = Total
        /\ w_model' = w_model /\ CachePart' = CachePart
    BY <2>1, <2>2, PlanSteady
  <2>5. TrunkPart' = TrunkPart
    BY <2>2, <2>4 DEF TrunkPart
  <2>6. /\ (Clash' <=> Clash) /\ (Enough' <=> Enough)
        /\ AutoTrunk' = AutoTrunk /\ AutoCache' = AutoCache
    BY <2>1, AutoSteady
  <2>7. Opened' /\ Split' /\ Planned' /\ Ledger'
    BY <2>1, <2>2, <2>4, <2>5, <2>6 DEF IInv, Opened, Split, Planned, Ledger, Closed, Divided, Going, Loaded
  <2>8. QED
    BY <2>2, <2>3, <2>7 DEF IInv
<1>3. QED
  BY <1>1, <1>2 DEF Peek, Goes, Refuses

LEMMA Starts == Init => IInv
<1> SUFFICES ASSUME Init PROVE IInv
  OBVIOUS
<1>1. /\ SizingInit /\ req \in Requests /\ machine \in Machines /\ pc = "flags"
      /\ trunk_gb = req.trunk_gb /\ cache_gb = req.cache_gb
      /\ np = 0 /\ planned = 0 /\ used = 0
  BY DEF Init
<1>2. SizingIInv /\ SizingTypeOK /\ pass = 0
  BY <1>1, SizingStarts DEF SizingIInv, SizingInit, Idle
<1>3. trunk_gb \in Nat /\ cache_gb \in Nat /\ 0 \in 0 .. MAX_PROMPT
  BY <1>1, RequestIs, Constants
<1>4. TypeOK
  BY <1>1, <1>2, <1>3 DEF TypeOK
<1>5. Opened /\ Split /\ Planned /\ Ledger
  BY <1>1, <1>2 DEF Opened, Split, Planned, Ledger, Closed, Divided, Going, Loaded
<1>6. QED
  BY <1>2, <1>4, <1>5 DEF IInv

LEMMA Steps ==
    ASSUME IInv, [Next]_vars
    PROVE  IInv'
<1>1. CASE UNCHANGED vars
  <2>1. /\ Quiet /\ UNCHANGED <<request, pc, trunk_gb, cache_gb, np, planned, used>>
    BY <1>1 DEF vars, Quiet
  <2>2. /\ SizingIInv' /\ SizingTypeOK' /\ req' = req /\ machine' = machine /\ taken' = taken
        /\ pass' = pass /\ budget' = budget /\ done' = done /\ nbytes' = nbytes
    BY <2>1, QuietSteps
  <2>3. TypeOK'
    BY <2>1, <2>2 DEF IInv, TypeOK
  <2>4. /\ Plan' = Plan /\ Total' = Total /\ w_model' = w_model /\ CachePart' = CachePart
        /\ BufferPart' = BufferPart /\ DraftPart' = DraftPart /\ (Fits(Plan)' <=> Fits(Plan))
    BY <2>1, <2>2, PlanSteady
  <2>5. TrunkPart' = TrunkPart
    BY <2>2, <2>4 DEF TrunkPart
  <2>6. /\ (Clash' <=> Clash) /\ (Enough' <=> Enough)
        /\ AutoTrunk' = AutoTrunk /\ AutoCache' = AutoCache
    BY <2>1, AutoSteady
  <2>7. Opened' /\ Split'
    BY <2>1, <2>2, <2>6 DEF IInv, Opened, Split
  <2>8. Planned' /\ Ledger'
    BY <2>1, <2>2, <2>4, <2>5 DEF IInv, Planned, Ledger
  <2>9. QED
    BY <2>2, <2>3, <2>7, <2>8 DEF IInv
<1>2. CASE Next
  <2>1. CASE AutoRefuses
    BY <2>1, RefusalKeeps DEF AutoRefuses
  <2>2. QED
    BY <1>2, <2>1, FlagsKeeps, AutoBudgetKeeps, FixedBudgetKeeps, PromptKeeps, LimitsKeeps,
       AdmitKeeps, BindAllKeeps, OpenTrunkKeeps, SizesRingKeeps, TrunkOpenedKeeps,
       ModelPartsKeeps, CacheInitKeeps, PeekKeeps, BuffersKeeps, DraftingKeeps DEF Next
<1>3. QED
  BY <1>1, <1>2

-----------------------------------------------------------------------------
(* Theorems. *)

(* What every stage of main() and every pass of k3_trunk_open leaves holds   *)
(* in all reachable states: IInv is inductive.                              *)
THEOREM Invariance == Spec => []IInv
<1>1. Init => IInv
  BY Starts
<1>2. IInv /\ [Next]_vars => IInv'
  BY Steps
<1>3. QED
  BY <1>1, <1>2, PTL DEF Spec

(* Every budget, pass count and ring is of its type in every reachable      *)
(* state; an automatic budget is never negative (k3_run.c:1107-1154).       *)
THEOREM TypeCorrect == Spec => []TypeOK
<1>1. IInv => TypeOK
  BY DEF IInv
<1>2. QED
  BY <1>1, Invariance, PTL

(* k3_trunk_open's ring holds every layer that will stream, keeps and fills *)
(* its budget, for any number and sizes of layers, page multiples or not,   *)
(* though the eight passes need not reach a fixed point; at a budget within *)
(* the padding of one slot below a whole number of slots for the largest    *)
(* layer, it keeps and fills the budget only.                               *)
THEOREM RingHoldsLayers == Spec => []RingFits
<1>1. IInv => RingFits
  BY RingFitsHere DEF IInv
<1>2. QED
  BY <1>1, Invariance, PTL

(* What the pinned layers take beyond what is counted for them.             *)
Excess == IF req.streamed THEN taken - spent ELSE 0

LEMMA ExcessIs ==
    ASSUME SizingIInv, TypeOK
    PROVE  /\ Padding \in Nat /\ Excess \in Int
           /\ (req.streamed => pass > 0) => Excess <= Padding
           /\ (req.streamed => pass > 0 /\ WholePages) => Excess = 0
<1>1. /\ chosen \in SUBSET Layers /\ ring_slot \in Nat /\ ring \in Nat /\ Given
      /\ ring * ring_slot \in Nat /\ taken \in Nat /\ spent \in Nat
  <2>1. ring_want \in Nat /\ Given
    BY GivenHere, GivenTypes DEF SizingIInv
  <2>2. QED
    BY <2>1 DEF SizingIInv, SizingTypeOK
<1>2. ALIGN - 1 \in Nat /\ Cardinality(chosen) \in Nat
  <2>1. IsFiniteSet(chosen)
    BY <1>1, LayersFinite, FS_Subset
  <2>2. QED
    BY <2>1, SizingAssumption, FS_CardinalityType
<1>3. Cardinality(chosen) * (ALIGN - 1) \in Nat
  BY <1>2
<1>4. ASSUME pass > 0
      PROVE  /\ taken <= spent + Cardinality(chosen) * (ALIGN - 1)
             /\ WholePages => taken = spent
  <2>1. /\ chosen = Picked(ring * ring_slot).set /\ spent = Picked(ring * ring_slot).sp
        /\ taken = Picked(ring * ring_slot).mem
    BY <1>4 DEF SizingIInv, Settled
  <2>2. Padded(Picked(ring * ring_slot))
    BY <1>1, PickedPads
  <2>3. QED
    BY <2>1, <2>2 DEF Padded, WholePages
<1>5. QED
  BY <1>1, <1>3, <1>4 DEF Padding, Excess

LEMMA PlanFalls ==
    ASSUME IInv, pc = "running", Plain, req.streamed => ring_slot <= trunk_gb
    PROVE  used <= planned + Excess
<1>1. used = TrunkPart + w_model + CachePart + BufferPart + DraftPart /\ planned = Plan
  BY DEF IInv, Ledger, Planned, Going
<1>2. /\ Total \in Nat /\ w_model \in Nat /\ w_buf \in Nat /\ w_kv \in Nat
      /\ w_state \in Nat /\ TrunkPart \in Nat
      /\ CachePart \in Nat /\ CachePart <= cache_gb /\ cache_gb \in Nat
      /\ trunk_gb \in Nat /\ kv \in Nat /\ kv_need \in Nat /\ Tm \in Nat
  BY Amounts DEF IInv, TypeOK
<1>3. /\ req.gen \in Nat /\ req.layers \in Nat /\ KvPer \in Nat
      /\ ring_slot \in Nat /\ spent \in Nat
  BY RequestIs, Constants DEF IInv, TypeOK, SizingTypeOK
<1>p. Excess \in Int
  BY ExcessIs DEF IInv
<1>4. ASSUME req.streamed PROVE TrunkPart <= trunk_gb + Excess
  <2>1. done /\ budget = trunk_gb /\ pass > 0 /\ SizingTypeOK /\ Settled
    BY <1>4 DEF IInv, Opened, Loaded, SizingIInv
  <2>2. Given
    BY <2>1, GivenHere
  <2>3. spent <= budget \/ (ring = 1 /\ chosen = {})
    BY <2>1, RingKeepsBudget DEF IInv
  <2>4. (ring = 1 /\ chosen = {}) => spent = ring_slot
    <3>1. ring * ring_slot \in Nat
      BY <1>3, <2>1, <2>2, GivenTypes DEF SizingTypeOK
    <3>2. Picked(ring * ring_slot).set = {} => Picked(ring * ring_slot).sp = ring * ring_slot
      BY <2>2, <3>1, PickedKeeps DEF Kept
    <3>3. QED
      BY <1>3, <2>1, <3>2 DEF Settled
  <2>5. taken = spent + Excess
    BY <1>2, <1>3, <1>4 DEF Excess, TrunkPart
  <2>6. spent <= trunk_gb /\ taken \in Nat
    BY <1>2, <1>3, <1>4, <2>1, <2>3, <2>4 DEF TrunkPart
  <2>7. QED
    BY <1>2, <1>3, <1>p, <1>4, <2>5, <2>6 DEF TrunkPart
<1>5. TrunkPart <= (IF req.streamed THEN trunk_gb ELSE Total) + Excess
  BY <1>2, <1>4, <1>p DEF TrunkPart, Excess
<1>6. DraftPart = 0 /\ Tmax = Tm
  BY <1>2 DEF DraftPart, Snaps, Drafts, Plain, Tmax
<1>7. kv <= kv_need
  <2>1. kv = Tm * KvPer * MlaIn(req.layers) /\ kv_need = Tm * KvPer * Cardinality(Mla)
    BY <1>6 DEF kv, kv_need
  <2>2. /\ MlaIn(req.layers) \in Nat /\ Cardinality(Mla) \in Nat
        /\ MlaIn(req.layers) <= Cardinality(Mla) /\ Tm * KvPer \in Nat
    BY <1>2, <1>3, MlaCounts
  <2>3. QED
    BY <2>1, <2>2, Products
<1>8. BufferPart <= w_buf + w_state + w_kv
  <2>1. BufferPart = w_buf + w_state + (IF req.incremental THEN kv ELSE 0)
    BY <1>6 DEF BufferPart, w_buf
  <2>2. (IF req.incremental THEN kv ELSE 0) <= w_kv
    BY <1>2, <1>7 DEF w_kv
  <2>3. (IF req.incremental THEN kv ELSE 0) \in Nat
    BY <1>2
  <2>4. QED
    BY <1>2, <2>1, <2>2, <2>3
<1> DEFINE trunk == IF req.streamed THEN trunk_gb ELSE Total
<1>9. Plan = trunk + w_model + cache_gb + w_state + w_buf + w_kv /\ trunk \in Nat
  BY <1>2 DEF Plan
<1>10. TrunkPart <= trunk + Excess
  BY <1>5
<1>11. BufferPart \in Nat
  BY Amounts DEF IInv
<1> HIDE DEF trunk
<1>12. QED
  BY ONLY <1>1, <1>2, <1>p, <1>6, <1>8, <1>9, <1>10, <1>11

LEMMA PlanCoversHere ==
    ASSUME IInv
    PROVE  PlanCovers
<1> SUFFICES ASSUME pc = "running", Plain, req.streamed => ring_slot <= trunk_gb
             PROVE  used <= planned + Padding
  BY DEF PlanCovers
<1>1. used <= planned + Excess
  BY PlanFalls
<1>2. req.streamed => pass > 0
  BY DEF IInv, Opened, Loaded, SizingIInv
<1>3. Padding \in Nat /\ Excess \in Int /\ Excess <= Padding
  BY <1>2, ExcessIs DEF IInv
<1>4. used \in Nat /\ planned \in Nat
  BY DEF IInv, TypeOK
<1>5. QED
  BY <1>1, <1>3, <1>4

(* The memory plan of main() counts all that a request without resumed      *)
(* state and drafting goes on to allocate, whatever the trunk's sizing      *)
(* pins, to less than a page per pinned layer.                              *)
THEOREM PlanCoversAllocation == Spec => []PlanCovers
<1>1. IInv => PlanCovers
  BY PlanCoversHere
<1>2. QED
  BY <1>1, Invariance, PTL

(* Such a request runs in no more of the memory than a plan may take, if     *)
(* the layers it pins are whole pages, as both packers write them.          *)
THEOREM PlainCovered ==
    Spec => []((Plain /\ (req.streamed => ring_slot <= trunk_gb /\ WholePages)) => Covered)
<1>1. IInv => ((Plain /\ (req.streamed => ring_slot <= trunk_gb /\ WholePages)) => Covered)
  <2> SUFFICES ASSUME IInv, Plain, req.streamed => ring_slot <= trunk_gb /\ WholePages,
                      pc = "running"
               PROVE  Fits(used)
    BY DEF Covered
  <2>0. req.streamed => pass > 0
    BY DEF IInv, Opened, Loaded, SizingIInv
  <2>1. used <= planned + Excess /\ Excess = 0 /\ planned = Plan /\ Fits(Plan)
    BY <2>0, PlanFalls, ExcessIs DEF IInv, Planned, Going
  <2>2. used \in Nat /\ Plan \in Nat
    BY Amounts DEF IInv, TypeOK
  <2>3. machine.avail \in Nat
    BY RequestIs DEF IInv, TypeOK
  <2>4. machine.avail # 0 => Plan <= Admits(machine.avail) /\ Admits(machine.avail) \in Nat
    BY <2>1, <2>3 DEF Fits, Admits
  <2>5. QED
    BY <2>1, <2>2, <2>4 DEF Fits
<1>2. QED
  BY <1>1, Invariance, PTL

LEMMA AutoAdmittedHere ==
    ASSUME IInv
    PROVE  AutoAdmitted
<1> SUFFICES ASSUME pc = "too big", req.auto, req.streamed
             PROVE  w_state + w_buf + w_kv > Sized(840) - Matrices
  BY DEF AutoAdmitted
<1>1. /\ ~Clash /\ Enough /\ trunk_gb = AutoTrunk /\ cache_gb = AutoCache
      /\ ~Fits(Plan)
  BY DEF IInv, Split, Divided, Planned
<1>2. /\ AutoTrunk \in Nat /\ AutoCache \in Nat
      /\ AutoTrunk + AutoCache <= Admits(machine.avail) - Sized(840)
      /\ Admits(machine.avail) \in Nat /\ Sized(840) \in Nat
  BY <1>1, AutoSplits DEF IInv, TypeOK
<1>3. w_model = Matrices /\ Matrices \in Nat
  BY <1>1, Constants DEF w_model, Clash
<1>4. w_state \in Nat /\ w_buf \in Nat /\ w_kv \in Nat
  BY Amounts DEF IInv
<1>5. Plan = trunk_gb + w_model + cache_gb + w_state + w_buf + w_kv
  BY DEF Plan
<1>6. ~ (Plan <= Admits(machine.avail))
  BY <1>1 DEF Fits
<1>7. QED
  BY ONLY <1>1, <1>2, <1>3, <1>4, <1>5, <1>6

(* --preset auto's two budgets pass the memory plan unless state, buffers   *)
(* and KV cache outgrow the reserve it keeps for them.                      *)
THEOREM AutoPasses == Spec => []AutoAdmitted
<1>1. IInv => AutoAdmitted
  BY AutoAdmittedHere
<1>2. QED
  BY <1>1, Invariance, PTL
=============================================================================
