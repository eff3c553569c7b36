---------------------------- MODULE ExpertProofs ----------------------------
(***************************************************************************)
(* Proofs about the routed experts.  First their bytes, for any directory, *)
(* hash function, tensors of an expert, alignment, chunk size and batch:   *)
(* an index that opens finds every tensor by its name and gives every byte *)
(* one owner, and what is served is the expert whole.  Then their cache,   *)
(* for every number of slots, every batch length and every set of layers   *)
(* and experts: the bookkeeping and the bytes agree at every step of a     *)
(* batch, and a layer is lent the experts it was routed to.                *)
(***************************************************************************)
EXTENDS ExpertCache, ExpertRead, Facts, SequenceTheorems, FiniteSetTheorems, TLAPS

-----------------------------------------------------------------------------
(* Recursion over 0 .. N. *)

(* Induction, looking back. *)
LEMMA Rises ==
    ASSUME NEW N \in Nat, NEW S, 0 \in S, \A m \in 1 .. N : m - 1 \in S => m \in S
    PROVE  \A n \in 0 .. N : n \in S
<1>1. ASSUME NEW n \in 0 .. N - 1, n \in S PROVE n + 1 \in S
  <2>1. PICK m \in 1 .. N : m = n + 1 /\ m - 1 = n
    OBVIOUS
  <2>2. QED
    BY <1>1, <2>1
<1>2. QED
  BY <1>1, Climbs

(* Two functions that start and go on alike are one.                        *)
Alike(f, h, N) ==
    /\ f = [k \in 0 .. N |-> f[k]] /\ h = [k \in 0 .. N |-> h[k]]
    /\ f[0] = h[0]
    /\ \A k \in 1 .. N : f[k - 1] = h[k - 1] => f[k] = h[k]

LEMMA GoesAlike ==
    ASSUME NEW N \in Nat, NEW f, NEW h, Alike(f, h, N)
    PROVE  f = h
<1> DEFINE A == {k \in 0 .. N : f[k] = h[k]}
<1>1. 0 \in A
  BY DEF Alike
<1>2. ASSUME NEW k \in 1 .. N, k - 1 \in A PROVE k \in A
  <2>1. f[k - 1] = h[k - 1] /\ k \in 0 .. N
    BY <1>2
  <2>2. QED
    BY <2>1 DEF Alike
<1>3. \A k \in 0 .. N : k \in A
  <2> HIDE DEF A
  <2>1. QED
    BY <1>1, <1>2, Rises
<1>4. QED
  BY <1>3 DEF Alike

(* What Total adds up, step by step.                                        *)
Adds(f, n, s) ==
    /\ s \in [0 .. n -> Int] /\ s[0] = 0
    /\ \A k \in 1 .. n : s[k] = s[k - 1] + f[k]

LEMMA TotalIs ==
    ASSUME NEW n \in Nat, NEW f, \A k \in 1 .. n : f[k] \in Int
    PROVE  \E s : Adds(f, n, s) /\ Total(f, n) = s[n]
<1> DEFINE g == [q \in Int \X (1 .. n) |-> q[1] + f[q[2]]]
           D(h) == [k \in 0 .. n |-> IF k = 0 THEN 0 ELSE h[k - 1] + f[k]]
<1>1. g \in [Int \X (1 .. n) -> Int] /\ 0 \in Int
  OBVIOUS
<1>2. PICK s \in [0 .. n -> Int] : Recurs(s, n, 0, g)
  <2> HIDE DEF g
  <2>1. QED
    BY <1>1, Recursion
<1>3. \A k \in 1 .. n : s[k] = s[k - 1] + f[k]
  <2> SUFFICES ASSUME NEW k \in 1 .. n PROVE s[k] = s[k - 1] + f[k]
    OBVIOUS
  <2>1. s[k] = g[<<s[k - 1], k>>]
    BY <1>2 DEF Recurs
  <2>2. k - 1 \in 0 .. n
    OBVIOUS
  <2>3. QED
    BY <2>1, <2>2
<1> HIDE DEF g
<1>4. s[0] = 0
  BY <1>2 DEF Recurs
<1>5. s = D(s)
  <2>1. \A k \in 0 .. n : s[k] = IF k = 0 THEN 0 ELSE s[k - 1] + f[k]
    BY <1>3, <1>4
  <2>2. QED
    BY <2>1
<1>6. ASSUME NEW h, h = D(h) PROVE h = s
  <2>1. h = [k \in 0 .. n |-> h[k]] /\ s = [k \in 0 .. n |-> s[k]]
    BY <1>6
  <2>2. h[0] = 0 /\ \A k \in 1 .. n : h[k] = h[k - 1] + f[k]
    BY <1>6
  <2>3. \A k \in 1 .. n : h[k - 1] = s[k - 1] => h[k] = s[k]
    BY <1>3, <2>2
  <2>4. Alike(h, s, n)
    <3> HIDE DEF g, D
    <3>1. QED
      BY <1>4, <2>1, <2>2, <2>3 DEF Alike
  <2>5. QED
    BY <2>4, GoesAlike
<1> DEFINE c == CHOOSE h : h = D(h)
<1>7. c = D(c)
  BY <1>5
<1>8. c = s
  <2> HIDE DEF c, D
  <2>1. QED
    BY <1>6, <1>7
<1>9. Total(f, n) = c[n]
  BY DEF Total
<1>10. Adds(f, n, s)
  BY <1>3, <1>4 DEF Adds
<1>11. QED
  BY <1>8, <1>9, <1>10

(* Whatever is added up to n, the first m of it add up to Total(f, m).      *)
LEMMA TotalOnTheWay ==
    ASSUME NEW n \in Nat, NEW f, \A k \in 1 .. n : f[k] \in Int,
           NEW s, Adds(f, n, s), NEW m \in 0 .. n
    PROVE  Total(f, m) = s[m]
<1>1. m \in Nat /\ \A k \in 1 .. m : f[k] \in Int
  OBVIOUS
<1>2. PICK r : Adds(f, m, r) /\ Total(f, m) = r[m]
  BY <1>1, TotalIs
<1> DEFINE u == [k \in 0 .. m |-> s[k]]
<1>3. r = [k \in 0 .. m |-> r[k]] /\ u = [k \in 0 .. m |-> u[k]]
  BY <1>2 DEF Adds
<1>4. r[0] = u[0]
  BY <1>1, <1>2 DEF Adds
<1>5. ASSUME NEW k \in 1 .. m, r[k - 1] = u[k - 1] PROVE r[k] = u[k]
  <2>1. k \in 1 .. n /\ k - 1 \in 0 .. m /\ k \in 0 .. m
    OBVIOUS
  <2>2. r[k] = r[k - 1] + f[k] /\ s[k] = s[k - 1] + f[k]
    BY <1>2, <2>1 DEF Adds
  <2>3. QED
    BY <1>5, <2>1, <2>2
<1> HIDE DEF u
<1>6. r = u
  <2>1. Alike(r, u, m)
    BY <1>3, <1>4, <1>5 DEF Alike
  <2>2. QED
    BY <1>1, <2>1, GoesAlike
<1>7. QED
  BY <1>1, <1>2, <1>6 DEF u

LEMMA TotalSteps ==
    ASSUME NEW n \in Nat, NEW f, \A k \in 1 .. n : f[k] \in Int
    PROVE  /\ Total(f, 0) = 0
           /\ \A m \in 0 .. n : Total(f, m) \in Int
           /\ \A m \in 1 .. n : Total(f, m) = Total(f, m - 1) + f[m]
<1>1. PICK s : Adds(f, n, s)
  BY TotalIs
<1>2. \A m \in 0 .. n : Total(f, m) = s[m]
  BY <1>1, TotalOnTheWay
<1>3. ASSUME NEW m \in 1 .. n PROVE Total(f, m) = Total(f, m - 1) + f[m]
  <2>1. m \in 0 .. n /\ m - 1 \in 0 .. n
    OBVIOUS
  <2>2. s[m] = s[m - 1] + f[m]
    BY <1>1 DEF Adds
  <2>3. QED
    BY <1>2, <2>1, <2>2
<1>4. QED
  BY <1>1, <1>2, <1>3 DEF Adds

(* Of numbers that are not negative, the first add up to no more than all.  *)
LEMMA TotalGrows ==
    ASSUME NEW n \in Nat, NEW f, \A k \in 1 .. n : f[k] \in Nat
    PROVE  /\ \A m \in 0 .. n : Total(f, m) \in Nat
           /\ \A i \in 1 .. n : Total(f, i - 1) + f[i] <= Total(f, n)
<1>1. /\ Total(f, 0) = 0
      /\ \A m \in 0 .. n : Total(f, m) \in Int
      /\ \A m \in 1 .. n : Total(f, m) = Total(f, m - 1) + f[m]
  BY TotalSteps
<1> DEFINE A == {m \in 0 .. n : Total(f, m) \in Nat
                                /\ \A i \in 1 .. m : Total(f, i) <= Total(f, m)}
<1>2. 0 \in A
  BY <1>1
<1>3. ASSUME NEW m \in 1 .. n, m - 1 \in A PROVE m \in A
  <2>1. Total(f, m) = Total(f, m - 1) + f[m] /\ Total(f, m - 1) \in Nat /\ f[m] \in Nat
    BY <1>1, <1>3
  <2>2. Total(f, m) \in Nat /\ Total(f, m - 1) <= Total(f, m)
    BY ONLY <2>1
  <2>3. ASSUME NEW i \in 1 .. m PROVE Total(f, i) <= Total(f, m)
    <3>1. CASE i = m
      BY <2>2, <3>1
    <3>2. CASE i # m
      <4>1. i \in 1 .. m - 1 /\ i \in 0 .. n
        BY <3>2
      <4>2. Total(f, i) <= Total(f, m - 1) /\ Total(f, i) \in Int
        BY <1>1, <1>3, <4>1
      <4>3. QED
        BY ONLY <2>1, <2>2, <4>2
    <3>3. QED
      BY <3>1, <3>2
  <2>4. QED
    BY <2>2, <2>3
<1>4. \A m \in 0 .. n : m \in A
  <2> HIDE DEF A
  <2>1. QED
    BY <1>2, <1>3, Rises
<1>5. ASSUME NEW i \in 1 .. n PROVE Total(f, i - 1) + f[i] <= Total(f, n)
  <2>1. n \in A
    BY <1>4
  <2>2. Total(f, i) = Total(f, i - 1) + f[i] /\ Total(f, i) <= Total(f, n)
    BY <1>1, <2>1
  <2>3. QED
    BY <2>2
<1>6. QED
  BY <1>4, <1>5

(* Where every item of f is at most that of g, the totals differ by no less *)
(* than any one item.                                                       *)
LEMMA TotalBelow ==
    ASSUME NEW n \in Nat, NEW f, NEW g, NEW j \in 1 .. n,
           \A k \in 1 .. n : f[k] \in Int /\ g[k] \in Int /\ f[k] <= g[k]
    PROVE  Total(f, n) + (g[j] - f[j]) <= Total(g, n)
<1> DEFINE gap(m) == Total(g, m) - Total(f, m)
           A == {m \in 0 .. n : gap(m) >= 0 /\ (j <= m => gap(m) >= g[j] - f[j])}
<1>1. /\ Total(f, 0) = 0 /\ Total(g, 0) = 0
      /\ \A m \in 0 .. n : Total(f, m) \in Int /\ Total(g, m) \in Int
      /\ \A m \in 1 .. n : Total(f, m) = Total(f, m - 1) + f[m]
      /\ \A m \in 1 .. n : Total(g, m) = Total(g, m - 1) + g[m]
  BY TotalSteps
<1>2. 0 \in A
  BY <1>1
<1>3. ASSUME NEW m \in 1 .. n, m - 1 \in A PROVE m \in A
  <2>1. /\ Total(f, m) = Total(f, m - 1) + f[m] /\ Total(g, m) = Total(g, m - 1) + g[m]
        /\ Total(f, m - 1) \in Int /\ Total(g, m - 1) \in Int
        /\ f[m] \in Int /\ g[m] \in Int /\ f[m] <= g[m]
    BY <1>1
  <2>2. gap(m - 1) >= 0 /\ (j <= m - 1 => gap(m - 1) >= g[j] - f[j])
    BY <1>3
  <2>3. gap(m) >= 0
    BY <2>1, <2>2
  <2>4. ASSUME j <= m PROVE gap(m) >= g[j] - f[j]
    <3>1. CASE j = m
      BY <2>1, <2>2, <3>1
    <3>2. CASE j # m
      BY <2>1, <2>2, <2>4, <3>2
    <3>3. QED
      BY <3>1, <3>2
  <2>5. QED
    BY <2>3, <2>4
<1>4. \A m \in 0 .. n : m \in A
  <2> HIDE DEF A
  <2>1. QED
    BY <1>2, <1>3, Rises
<1>5. gap(n) >= g[j] - f[j] /\ Total(f, n) \in Int /\ Total(g, n) \in Int /\ f[j] \in Int /\ g[j] \in Int
  BY <1>1, <1>4
<1>6. QED
  BY <1>5

-----------------------------------------------------------------------------
(* Numbers aligned and divided. *)

LEMMA Divides ==
    ASSUME NEW n \in Nat, NEW k \in Nat \ {0}
    PROVE  n \div k \in Nat /\ (n \div k) * k <= n /\ n < (n \div k) * k + k
OBVIOUS

LEMMA Products ==
    ASSUME NEW r \in Nat, NEW a \in Int, NEW b \in Int, a <= b
    PROVE  r * a \in Int /\ r * b \in Int /\ r * a <= r * b
           /\ a * r \in Int /\ b * r \in Int /\ a * r <= b * r
OBVIOUS

(* What remains of a division is told by its bounds. *)
LEMMA Remainder ==
    ASSUME NEW k \in Nat \ {0}, NEW q \in Nat, NEW r \in 0 .. k - 1
    PROVE  (q * k + r) % k = r
<1> DEFINE n == q * k + r
           p == n \div k
<1>1. n \in Nat /\ q * k \in Nat
  OBVIOUS
<1>2. n = p * k + (n % k) /\ n % k \in 0 .. k - 1 /\ p \in Nat
  <2> HIDE DEF n
  <2>1. QED
    BY <1>1
<1>3. p * k \in Nat
  <2> HIDE DEF p
  <2>1. QED
    BY <1>2
<1>4. q * k + r = p * k + (n % k)
  <2> HIDE DEF p
  <2>1. QED
    BY <1>2
<1> HIDE DEF n, p
<1>5. p = q
  <2>1. ASSUME NEW a \in Nat, NEW b \in Nat, a < b PROVE a * k + k <= b * k /\ a * k \in Nat /\ b * k \in Nat
    <3>1. a + 1 <= b /\ (a + 1) * k = a * k + k
      BY <2>1
    <3>2. (a + 1) * k <= b * k
      BY <2>1, <3>1, Products
    <3>3. QED
      BY <3>1, <3>2
  <2>2. ASSUME p < q PROVE FALSE
    <3>1. p * k + k <= q * k
      BY <1>2, <2>1, <2>2
    <3>2. QED
      BY <1>1, <1>2, <1>3, <1>4, <3>1
  <2>4. ASSUME q < p PROVE FALSE
    <3>1. q * k + k <= p * k
      BY <1>2, <2>1, <2>4
    <3>2. QED
      BY <1>1, <1>2, <1>3, <1>4, <3>1
  <2>3. QED
    BY <1>2, <2>2, <2>4
<1>6. n % k = r
  BY <1>1, <1>2, <1>4, <1>5
<1>7. QED
  BY <1>6 DEF n

Multiple(x) == \E q \in Int : x = q * ALIGN

LEMMA Multiples ==
    /\ ALIGN \in Nat \ {0}
    /\ \A x, y \in Int : Multiple(x) /\ Multiple(y) => Multiple(x + y) /\ Multiple(x - y)
    /\ \A x \in Int : Multiple(x) /\ -ALIGN < x /\ x < ALIGN => x = 0
    /\ \A k, x \in Int : Multiple(x) => Multiple(k * x)
    /\ Multiple(0)
<1>1. ALIGN \in Nat \ {0}
  BY ReadAssumption
<1>2. ASSUME NEW x \in Int, NEW y \in Int, Multiple(x), Multiple(y)
      PROVE  Multiple(x + y) /\ Multiple(x - y)
  <2>1. PICK p \in Int, q \in Int : x = p * ALIGN /\ y = q * ALIGN
    BY <1>2 DEF Multiple
  <2>2. x + y = (p + q) * ALIGN /\ x - y = (p - q) * ALIGN /\ p + q \in Int /\ p - q \in Int
    BY <1>1, <2>1
  <2>3. QED
    BY <2>2 DEF Multiple
<1>3. ASSUME NEW x \in Int, Multiple(x), -ALIGN < x, x < ALIGN PROVE x = 0
  <2>1. PICK q \in Int : x = q * ALIGN
    BY <1>3 DEF Multiple
  <2>2. q >= 1 => q * ALIGN >= ALIGN
    BY <1>1
  <2>3. q <= -1 => q * ALIGN <= -ALIGN
    BY <1>1
  <2>4. q = 0
    BY <1>1, <1>3, <2>1, <2>2, <2>3
  <2>5. QED
    BY <1>1, <2>1, <2>4
<1>4. ASSUME NEW k \in Int, NEW x \in Int, Multiple(x) PROVE Multiple(k * x)
  <2>1. PICK q \in Int : x = q * ALIGN
    BY <1>4 DEF Multiple
  <2>2. k * x = (k * q) * ALIGN /\ k * q \in Int
    BY <1>1, <2>1
  <2>3. QED
    BY <2>2 DEF Multiple
<1>5. Multiple(0)
  <2>1. 0 = 0 * ALIGN
    BY <1>1
  <2>2. QED
    BY <2>1 DEF Multiple
<1>6. QED
  BY <1>1, <1>2, <1>3, <1>4, <1>5

LEMMA MultipleIs ==
    ASSUME NEW x \in Nat
    PROVE  Multiple(x) <=> x % ALIGN = 0
<1>1. ALIGN \in Nat \ {0}
  BY ReadAssumption
<1>2. x = ((x \div ALIGN) * ALIGN) + (x % ALIGN) /\ x \div ALIGN \in Nat /\ x % ALIGN \in Nat
  BY <1>1
<1>3. ASSUME x % ALIGN = 0 PROVE Multiple(x)
  <2>1. x = (x \div ALIGN) * ALIGN
    BY <1>1, <1>2, <1>3
  <2>2. QED
    BY <1>2, <2>1 DEF Multiple
<1>4. ASSUME Multiple(x) PROVE x % ALIGN = 0
  <2>1. PICK q \in Int : x = q * ALIGN
    BY <1>4 DEF Multiple
  <2>2. q < 0 => q * ALIGN < 0
    BY <1>1
  <2>3. q \in Nat /\ x = q * ALIGN + 0 /\ 0 \in 0 .. ALIGN - 1
    BY <1>1, <2>1, <2>2
  <2>4. (q * ALIGN + 0) % ALIGN = 0
    BY <1>1, <2>3, Remainder
  <2>5. QED
    BY <2>3, <2>4
<1>5. QED
  BY <1>3, <1>4

LEMMA DownIs ==
    ASSUME NEW n \in Nat
    PROVE  down(n) \in Nat /\ Multiple(down(n)) /\ down(n) <= n /\ n < down(n) + ALIGN
<1>1. ALIGN \in Nat \ {0}
  BY ReadAssumption
<1> DEFINE q == n \div ALIGN
<1>2. q \in Nat /\ q * ALIGN <= n /\ n < q * ALIGN + ALIGN
  BY <1>1, Divides
<1>3. down(n) = q * ALIGN
  BY DEF down
<1> HIDE DEF q
<1>4. q * ALIGN \in Nat /\ q \in Int
  BY <1>1, <1>2
<1>5. Multiple(down(n))
  BY <1>3, <1>4 DEF Multiple
<1>6. QED
  BY <1>2, <1>3, <1>4, <1>5

LEMMA UpIs ==
    ASSUME NEW n \in Nat
    PROVE  up(n) \in Nat /\ Multiple(up(n)) /\ n <= up(n) /\ up(n) < n + ALIGN
<1>1. ALIGN \in Nat \ {0}
  BY ReadAssumption
<1>2. n + ALIGN - 1 \in Nat
  BY <1>1
<1>3. /\ down(n + ALIGN - 1) \in Nat /\ Multiple(down(n + ALIGN - 1))
      /\ down(n + ALIGN - 1) <= n + ALIGN - 1 /\ n + ALIGN - 1 < down(n + ALIGN - 1) + ALIGN
  BY <1>2, DownIs
<1>4. up(n) = down(n + ALIGN - 1)
  BY DEF up
<1>5. QED
  BY ONLY <1>1, <1>3, <1>4

(* A multiple is its own multiple below and above. *)
LEMMA OwnMultiple ==
    ASSUME NEW n \in Nat, Multiple(n)
    PROVE  down(n) = n /\ up(n) = n
<1>1. ALIGN \in Nat \ {0} /\ \A x \in Int : Multiple(x) /\ -ALIGN < x /\ x < ALIGN => x = 0
  BY Multiples
<1>2. \A x, y \in Int : Multiple(x) /\ Multiple(y) => Multiple(x - y)
  BY Multiples
<1>3. ASSUME NEW d \in Nat, Multiple(d), d - ALIGN < n, n < d + ALIGN PROVE d = n
  <2>1. Multiple(d - n) /\ d - n \in Int
    BY <1>2, <1>3
  <2>2. d - n = 0
    BY <1>1, <1>3, <2>1
  <2>3. QED
    BY <2>2
<1>4. down(n) = n
  <2>1. down(n) \in Nat /\ Multiple(down(n)) /\ down(n) <= n /\ n < down(n) + ALIGN
    BY DownIs
  <2>2. QED
    BY <1>1, <1>3, <2>1
<1>5. up(n) = n
  <2>1. up(n) \in Nat /\ Multiple(up(n)) /\ n <= up(n) /\ up(n) < n + ALIGN
    BY UpIs
  <2>2. QED
    BY <1>1, <1>3, <2>1
<1>6. QED
  BY <1>4, <1>5

(* ceil(n, k) chunks of k bytes cover n, and one fewer do not. *)
LEMMA CeilIs ==
    ASSUME NEW n \in Nat, NEW k \in Nat \ {0}
    PROVE  /\ ceil(n, k) \in Nat
           /\ n <= ceil(n, k) * k /\ ceil(n, k) * k \in Nat
           /\ \A m \in 0 .. ceil(n, k) - 1 : m * k < n /\ m * k \in Nat
           /\ \A m \in Nat : n <= m * k => ceil(n, k) <= m
<1> DEFINE q == (n + k - 1) \div k
<1>1. n + k - 1 \in Nat
  OBVIOUS
<1>2. q \in Nat /\ q * k <= n + k - 1 /\ n + k - 1 < q * k + k
  BY <1>1, Divides
<1>3. ceil(n, k) = q
  BY DEF ceil
<1> HIDE DEF q
<1>4. q * k \in Nat /\ n <= q * k
  BY <1>2
<1>5. ASSUME NEW m \in 0 .. q - 1 PROVE m * k < n /\ m * k \in Nat
  <2>1. m + 1 \in Nat /\ m + 1 <= q /\ (m + 1) * k = m * k + k /\ m * k \in Nat
    BY <1>2
  <2>2. (m + 1) * k <= q * k
    BY <1>2, <2>1, Products
  <2>3. QED
    BY <1>2, <1>4, <2>1, <2>2
<1>6. ASSUME NEW m \in Nat, n <= m * k PROVE q <= m
  <2> SUFFICES ASSUME m < q PROVE FALSE
    BY <1>2
  <2>1. m * k < n /\ m * k \in Nat
    BY <1>2, <1>5
  <2>2. QED
    BY <1>6, <2>1
<1>7. QED
  BY <1>2, <1>3, <1>4, <1>5, <1>6

LEMMA MaxTwo ==
    ASSUME NEW a \in Int, NEW b \in Int
    PROVE  Max({a, b}) = IF a >= b THEN a ELSE b
<1> DEFINE S == {a, b}
<1>1. IsFiniteSet(S) /\ S # {} /\ \A x \in S : x \in Int
  <2>1. IsFiniteSet({a}) /\ S = {a} \cup {b}
    BY FS_Singleton
  <2>2. QED
    BY <2>1, FS_AddElement
<1>2. Max(S) \in S /\ \A y \in S : Max(S) >= y
  <2> HIDE DEF S
  <2>1. QED
    BY <1>1, MaxExists
<1>3. QED
  BY <1>2

LEMMA MinTwo ==
    ASSUME NEW a \in Int, NEW b \in Int
    PROVE  Min({a, b}) = IF a <= b THEN a ELSE b
<1> DEFINE S == {a, b}
<1>1. IsFiniteSet(S) /\ S # {} /\ \A x \in S : x \in Int
  <2>1. IsFiniteSet({a}) /\ S = {a} \cup {b}
    BY FS_Singleton
  <2>2. QED
    BY <2>1, FS_AddElement
<1>2. Min(S) \in S /\ \A y \in S : Min(S) =< y
  <2> HIDE DEF S
  <2>1. QED
    BY <1>1, MinExists
<1>3. QED
  BY <1>2

LEMMA MinThree ==
    ASSUME NEW a \in Int, NEW b \in Int, NEW d \in Int
    PROVE  /\ Min({a, b, d}) \in {a, b, d}
           /\ Min({a, b, d}) <= a /\ Min({a, b, d}) <= b /\ Min({a, b, d}) <= d
<1> DEFINE S == {a, b, d}
<1>1. IsFiniteSet(S) /\ S # {} /\ \A x \in S : x \in Int
  <2>1. IsFiniteSet({a}) /\ IsFiniteSet({a} \cup {b}) /\ S = ({a} \cup {b}) \cup {d}
    BY FS_Singleton, FS_AddElement
  <2>2. QED
    BY <2>1, FS_AddElement
<1>2. Min(S) \in S /\ \A y \in S : Min(S) =< y
  <2> HIDE DEF S
  <2>1. QED
    BY <1>1, MinExists
<1>3. QED
  BY <1>2

-----------------------------------------------------------------------------
(* The hash table. *)

LEMMA BucketsEnough ==
    ASSUME NEW n \in Nat
    PROVE  Buckets(n) \in Nat \ {0} /\ Buckets(n) >= 2 * n
<1> DEFINE N == 2 * n
           g == [q \in Nat \X (1 .. N) |-> IF q[1] < 2 * n THEN 2 * q[1] ELSE q[1]]
           D(h) == [k \in 0 .. 2 * n |->
                      IF k = 0 THEN MinBuckets
                      ELSE IF h[k - 1] < 2 * n THEN 2 * h[k - 1] ELSE h[k - 1]]
<1>1. g \in [Nat \X (1 .. N) -> Nat] /\ MinBuckets \in Nat \ {0} /\ N \in Nat
  BY CheckpointAssumption
<1>2. PICK s \in [0 .. N -> Nat] : Recurs(s, N, MinBuckets, g)
  <2> HIDE DEF g, N
  <2>1. QED
    BY <1>1, Recursion
<1>3. s = D(s)
  <2>1. ASSUME NEW k \in 1 .. N
        PROVE  s[k] = IF s[k - 1] < 2 * n THEN 2 * s[k - 1] ELSE s[k - 1]
    <3>1. s[k] = g[<<s[k - 1], k>>]
      BY <1>2 DEF Recurs
    <3>2. k - 1 \in 0 .. N
      OBVIOUS
    <3>3. QED
      BY <3>1, <3>2
  <2>2. s[0] = MinBuckets
    BY <1>2 DEF Recurs
  <2>3. QED
    BY <2>1, <2>2
<1> DEFINE c == CHOOSE h : h = D(h)
<1>4. c = D(c)
  BY <1>3
<1>5. Buckets(n) = c[2 * n]
  BY DEF Buckets
<1> HIDE DEF c, g
<1>6. c[0] = MinBuckets /\ \A k \in 1 .. N : c[k] = IF c[k - 1] < 2 * n THEN 2 * c[k - 1] ELSE c[k - 1]
  BY <1>4
<1> DEFINE A == {k \in 0 .. N : c[k] \in Nat \ {0} /\ (c[k] >= 2 * n \/ c[k] >= k + 1)}
<1>7. 0 \in A
  BY <1>1, <1>6
<1>8. ASSUME NEW k \in 1 .. N, k - 1 \in A PROVE k \in A
  <2>1. c[k - 1] \in Nat \ {0} /\ (c[k - 1] >= 2 * n \/ c[k - 1] >= k - 1 + 1)
    BY <1>8
  <2>2. c[k] = IF c[k - 1] < 2 * n THEN 2 * c[k - 1] ELSE c[k - 1]
    BY <1>6
  <2> HIDE DEF D
  <2>3. QED
    BY <2>1, <2>2
<1>9. \A k \in 0 .. N : k \in A
  <2> HIDE DEF A, N
  <2>1. QED
    BY <1>1, <1>7, <1>8, Rises
<1>10. 2 * n \in A
  BY <1>9
<1>11. QED
  BY <1>5, <1>10

(* The bucket k steps into the search for a name, and whether it ends there. *)
Way(name, nb, k) == (Hash(name) + k) % nb
Ends(ts, b, name, nb, k) == b[Way(name, nb, k)] = 0 \/ ts[b[Way(name, nb, k)]].name = name
EndsFirst(ts, b, name, nb, k) ==
    k \in 0 .. nb - 1 /\ Ends(ts, b, name, nb, k) /\ \A m \in 0 .. k - 1 : ~Ends(ts, b, name, nb, m)

(* A search comes to every bucket. *)
LEMMA Reaches ==
    ASSUME NEW nb \in Nat \ {0}, NEW name \in Names
    PROVE  /\ \A k \in Nat : Way(name, nb, k) \in 0 .. nb - 1
           /\ \A j \in 0 .. nb - 1 : \E k \in 0 .. nb - 1 : Way(name, nb, k) = j
<1>1. Hash(name) \in Nat
  BY CheckpointAssumption
<1>2. ASSUME NEW k \in Nat PROVE Way(name, nb, k) \in 0 .. nb - 1
  <2>1. Hash(name) + k \in Nat
    BY <1>1
  <2>2. QED
    BY <2>1 DEF Way
<1>3. ASSUME NEW j \in 0 .. nb - 1 PROVE \E k \in 0 .. nb - 1 : Way(name, nb, k) = j
  <2> DEFINE h == Hash(name)
             q == h \div nb
             r == h % nb
  <2>1. h = (q * nb) + r /\ q \in Nat /\ r \in 0 .. nb - 1
    <3>1. h \in Nat
      BY <1>1
    <3> HIDE DEF h
    <3>2. QED
      BY <3>1
  <2> HIDE DEF q, r
  <2>2. CASE r <= j
    <3>1. j - r \in 0 .. nb - 1 /\ h + (j - r) = (q * nb) + j
      BY <2>1, <2>2
    <3>2. QED
      BY <2>1, <3>1, Remainder DEF Way
  <2>3. CASE j < r
    <3>1. (q + 1) * nb = q * nb + nb /\ q * nb \in Nat
      BY <2>1
    <3>2. j - r + nb \in 0 .. nb - 1 /\ h + (j - r + nb) = ((q + 1) * nb) + j /\ q + 1 \in Nat
      BY <2>1, <2>3, <3>1
    <3>3. (((q + 1) * nb) + j) % nb = j
      BY <3>2, Remainder
    <3>4. QED
      BY <3>2, <3>3 DEF Way
  <2>4. QED
    BY <2>1, <2>2, <2>3
<1>4. QED
  BY <1>2, <1>3

(* With an empty bucket, a search ends, at the first end on its way. *)
Vacant(b, nb) ==
    nb \in Nat \ {0} /\ DOMAIN b = 0 .. nb - 1 /\ \E j \in 0 .. nb - 1 : b[j] = 0
Ended(ts, b, name, nb) ==
    \E k : EndsFirst(ts, b, name, nb, k) /\ Probe(ts, b, name) = Way(name, nb, k)

LEMMA ProbeIs ==
    ASSUME NEW nb, NEW ts, NEW b, Vacant(b, nb), NEW name \in Names
    PROVE  Ended(ts, b, name, nb)
<1>3. PICK j \in 0 .. nb - 1 : nb \in Nat \ {0} /\ DOMAIN b = 0 .. nb - 1 /\ b[j] = 0
  BY DEF Vacant
<1> DEFINE E == {k \in 0 .. nb - 1 : Ends(ts, b, name, nb, k)}
<1>1. Cardinality(DOMAIN b) = nb
  <2>1. 0 \in Int /\ nb - 1 \in Int /\ nb - 1 - 0 + 1 = nb /\ ~(0 > nb - 1)
    BY <1>3
  <2>2. Cardinality(0 .. nb - 1) = nb - 1 - 0 + 1
    BY <2>1, FS_Interval
  <2>3. QED
    BY <1>3, <2>1, <2>2
<1>2. Probe(ts, b, name) = Way(name, nb, Min(E))
  BY <1>1 DEF Probe, Ends, Way
<1>4. PICK k \in 0 .. nb - 1 : Way(name, nb, k) = j
  BY <1>3, Reaches
<1>5. k \in E
  BY <1>3, <1>4 DEF Ends
<1>6. IsFiniteSet(E)
  <2>1. E \subseteq 0 .. nb - 1 /\ nb - 1 \in Int /\ 0 \in Int
    BY <1>3
  <2> HIDE DEF E
  <2>2. QED
    BY <2>1, FS_Interval, FS_Subset
<1>7. Min(E) \in E /\ \A y \in E : Min(E) <= y
  <2>1. \A x \in E : x \in Int
    BY <1>3
  <2> HIDE DEF E
  <2>2. QED
    BY <1>5, <1>6, <2>1, MinExists
<1> DEFINE k0 == Min(E)
<1>8. k0 \in 0 .. nb - 1 /\ Ends(ts, b, name, nb, k0)
  <2> HIDE DEF k0
  <2>1. k0 \in E
    BY <1>7 DEF k0
  <2>2. QED
    BY <2>1
<1>9. EndsFirst(ts, b, name, nb, k0)
  <2>1. ASSUME NEW m \in 0 .. k0 - 1, Ends(ts, b, name, nb, m) PROVE FALSE
    <3> HIDE DEF k0
    <3>1. m \in 0 .. nb - 1 /\ m < k0
      BY <1>3, <1>8
    <3>2. m \in E
      BY <2>1, <3>1
    <3>3. k0 <= m
      BY <1>7, <3>2 DEF k0
    <3>4. QED
      BY <1>3, <1>8, <3>1, <3>3
  <2> HIDE DEF k0, E
  <2>2. QED
    BY <1>8, <2>1 DEF EndsFirst
<1>10. QED
  BY <1>2, <1>9 DEF Ended

(* There is no other first end. *)
LEMMA FirstEnd ==
    ASSUME NEW nb \in Nat, NEW ts, NEW b, NEW name, NEW k, NEW m,
           EndsFirst(ts, b, name, nb, k), EndsFirst(ts, b, name, nb, m)
    PROVE  k = m
BY DEF EndsFirst

(* A table that holds the first n tensors, all of different names, and      *)
(* leads to each of them.                                                   *)
Placed(ts, b, nb, n) ==
    /\ b \in [0 .. nb - 1 -> 0 .. n]
    /\ IsFiniteSet({j \in 0 .. nb - 1 : b[j] # 0})
    /\ Cardinality({j \in 0 .. nb - 1 : b[j] # 0}) <= n
    /\ \A i \in 1 .. n : \E k : EndsFirst(ts, b, ts[i].name, nb, k)
                                 /\ b[Way(ts[i].name, nb, k)] = i
    /\ \A i, j \in 1 .. n : ts[i].name = ts[j].name => i = j

LEMMA RoomLeft ==
    ASSUME NEW nb \in Nat, NEW n \in Nat, n < nb, NEW ts, NEW b, Placed(ts, b, nb, n)
    PROVE  \E j \in 0 .. nb - 1 : b[j] = 0
<1> SUFFICES ASSUME \A j \in 0 .. nb - 1 : b[j] # 0 PROVE FALSE
  OBVIOUS
<1>1. {j \in 0 .. nb - 1 : b[j] # 0} = 0 .. nb - 1
  OBVIOUS
<1>2. Cardinality(0 .. nb - 1) = nb
  <2>1. 0 \in Int /\ nb - 1 \in Int /\ nb - 1 - 0 + 1 = nb /\ ~(0 > nb - 1)
    OBVIOUS
  <2>2. Cardinality(0 .. nb - 1) = nb - 1 - 0 + 1
    BY <2>1, FS_Interval
  <2>3. QED
    BY <2>1, <2>2
<1>3. Cardinality(0 .. nb - 1) <= n
  BY <1>1 DEF Placed
<1>4. QED
  BY <1>2, <1>3

(* The next tensor, put where the search for its name ends at an empty bucket. *)
LEMMA Inserted ==
    ASSUME NEW nb \in Nat, NEW m \in Nat \ {0}, m <= nb, NEW ts,
           \A i \in 1 .. m : ts[i].name \in Names,
           NEW b, Placed(ts, b, nb, m - 1), b[Probe(ts, b, ts[m].name)] = 0
    PROVE  Placed(ts, [b EXCEPT ![Probe(ts, b, ts[m].name)] = m], nb, m)
<1> DEFINE name == ts[m].name
<1>1. name \in Names /\ m - 1 \in Nat /\ m - 1 < nb /\ nb \in Nat \ {0} /\ b \in [0 .. nb - 1 -> 0 .. m - 1]
  BY DEF Placed
<1>2. \E j \in 0 .. nb - 1 : b[j] = 0
  BY <1>1, RoomLeft
<1>3. PICK k : EndsFirst(ts, b, name, nb, k) /\ Probe(ts, b, name) = Way(name, nb, k)
  <2>1. nb \in Nat \ {0} /\ DOMAIN b = 0 .. nb - 1 /\ name \in Names
    BY <1>1
  <2>2. ASSUME NEW nm \in Names
        PROVE  Ended(ts, b, nm, nb)
    <3>1. Vacant(b, nb)
      BY <1>2, <2>1 DEF Vacant
    <3>2. QED
      BY <3>1, ProbeIs
  <2> HIDE DEF name
  <2>3. QED
    BY <2>1, <2>2 DEF Ended
<1> DEFINE j == Way(name, nb, k)
           d == [b EXCEPT ![j] = m]
<1>4. j \in 0 .. nb - 1 /\ b[j] = 0
  <2>1. k \in Nat
    BY <1>3 DEF EndsFirst
  <2>2. b[Probe(ts, b, name)] = 0
    OBVIOUS
  <2> HIDE DEF name
  <2>3. QED
    BY <1>1, <1>3, <2>1, <2>2, Reaches
<1>5. [b EXCEPT ![Probe(ts, b, ts[m].name)] = m] = d
  BY <1>3
<1>6. d \in [0 .. nb - 1 -> 0 .. m] /\ d[j] = m /\ \A x \in 0 .. nb - 1 : x # j => d[x] = b[x]
  <2> HIDE DEF j
  <2>1. QED
    BY <1>1, <1>4
<1> HIDE DEF d, j
<1>7. IsFiniteSet({x \in 0 .. nb - 1 : d[x] # 0}) /\ Cardinality({x \in 0 .. nb - 1 : d[x] # 0}) <= m
  <2> DEFINE U == {x \in 0 .. nb - 1 : b[x] # 0}
             V == {x \in 0 .. nb - 1 : d[x] # 0}
  <2>1. V = U \cup {j} /\ j \notin U
    BY <1>4, <1>6
  <2>2. IsFiniteSet(U) /\ Cardinality(U) <= m - 1
    BY DEF Placed
  <2> HIDE DEF U, V
  <2>3. IsFiniteSet(V) /\ Cardinality(V) = Cardinality(U) + 1 /\ Cardinality(U) \in Nat
    BY <2>1, <2>2, FS_AddElement, FS_CardinalityType
  <2>4. QED
    BY <2>2, <2>3 DEF V
<1>8. ASSUME NEW nm \in Names, NEW l \in 0 .. nb - 1, ~Ends(ts, b, nm, nb, l)
      PROVE  ~Ends(ts, d, nm, nb, l)
  <2>1. Way(nm, nb, l) \in 0 .. nb - 1
    <3>1. l \in Nat /\ nb \in Nat \ {0}
      BY <1>1
    <3>2. QED
      BY <3>1, Reaches
  <2>2. Way(nm, nb, l) # j
    BY <1>4, <1>8 DEF Ends
  <2>3. QED
    BY <1>6, <1>8, <2>1, <2>2 DEF Ends
<1>9. ASSUME NEW nm \in Names, NEW l, EndsFirst(ts, b, nm, nb, l), Ends(ts, d, nm, nb, l)
      PROVE  EndsFirst(ts, d, nm, nb, l)
  <2>1. l \in 0 .. nb - 1 /\ \A x \in 0 .. l - 1 : x \in 0 .. nb - 1 /\ ~Ends(ts, b, nm, nb, x)
    BY <1>9 DEF EndsFirst
  <2>2. QED
    BY <1>8, <1>9, <2>1 DEF EndsFirst
<1>10. ASSUME NEW i \in 1 .. m - 1
       PROVE  \E l : EndsFirst(ts, d, ts[i].name, nb, l) /\ d[Way(ts[i].name, nb, l)] = i
  <2>1. PICK l : EndsFirst(ts, b, ts[i].name, nb, l) /\ b[Way(ts[i].name, nb, l)] = i
    BY DEF Placed
  <2>2. ts[i].name \in Names /\ l \in Nat
    BY <2>1 DEF EndsFirst
  <2>3. Way(ts[i].name, nb, l) \in 0 .. nb - 1
    BY <1>1, <2>2, Reaches
  <2>4. Way(ts[i].name, nb, l) # j
    BY <1>4, <2>1
  <2>5. d[Way(ts[i].name, nb, l)] = i
    BY <1>6, <2>1, <2>3, <2>4
  <2>6. Ends(ts, d, ts[i].name, nb, l)
    BY <2>5 DEF Ends
  <2>7. QED
    BY <1>9, <2>1, <2>2, <2>5, <2>6
<1>11. EndsFirst(ts, d, ts[m].name, nb, k) /\ d[Way(ts[m].name, nb, k)] = m
  <2>1. d[Way(ts[m].name, nb, k)] = m
    BY <1>6 DEF j
  <2>2. Ends(ts, d, ts[m].name, nb, k)
    BY <2>1 DEF Ends
  <2>3. QED
    BY <1>1, <1>3, <1>9, <2>1, <2>2
<1>12. ASSUME NEW i \in 1 .. m - 1, ts[i].name = name PROVE FALSE
  <2>1. PICK l : EndsFirst(ts, b, ts[i].name, nb, l) /\ b[Way(ts[i].name, nb, l)] = i
    BY DEF Placed
  <2>2. l = k
    <3>1. EndsFirst(ts, b, name, nb, l)
      BY <1>12, <2>1
    <3> HIDE DEF name
    <3>2. QED
      BY <1>1, <1>3, <3>1, FirstEnd
  <2>3. b[j] = i
    BY <1>12, <2>1, <2>2 DEF j
  <2>4. QED
    BY <1>4, <2>3
<1>13. \A i \in 1 .. m : \E l : EndsFirst(ts, d, ts[i].name, nb, l) /\ d[Way(ts[i].name, nb, l)] = i
  <2> SUFFICES ASSUME NEW i \in 1 .. m
               PROVE  \E l : EndsFirst(ts, d, ts[i].name, nb, l) /\ d[Way(ts[i].name, nb, l)] = i
    OBVIOUS
  <2>1. i \in 1 .. m - 1 \/ i = m
    OBVIOUS
  <2>2. QED
    BY <1>10, <1>11, <2>1
<1>14. \A i, l \in 1 .. m : ts[i].name = ts[l].name => i = l
  <2> SUFFICES ASSUME NEW i \in 1 .. m, NEW l \in 1 .. m, ts[i].name = ts[l].name PROVE i = l
    OBVIOUS
  <2>1. (i \in 1 .. m - 1 \/ i = m) /\ (l \in 1 .. m - 1 \/ l = m)
    OBVIOUS
  <2>2. i \in 1 .. m - 1 /\ l \in 1 .. m - 1 => i = l
    BY DEF Placed
  <2>3. QED
    BY <1>12, <2>1, <2>2
<1>15. Placed(ts, d, nb, m)
  BY <1>6, <1>7, <1>13, <1>14 DEF Placed
<1>16. QED
  BY <1>5, <1>15

(* What Indexed makes of a sequence of tensors. *)
LEMMA IndexedIs ==
    ASSUME NEW ts, NEW n \in Nat, Len(ts) = n, \A i \in 1 .. n : ts[i].name \in Names,
           Indexed(ts) # Duplicate
    PROVE  Placed(ts, Indexed(ts), Buckets(n), n)
<1> DEFINE nb == Buckets(n)
           S == [0 .. nb - 1 -> 0 .. n] \cup {Duplicate}
           Put(b, i) == IF b = Duplicate THEN b
                        ELSE LET j == Probe(ts, b, ts[i].name)
                             IN IF b[j] # 0 THEN Duplicate ELSE [b EXCEPT ![j] = i]
           none == [j \in 0 .. nb - 1 |-> 0]
           g == [q \in S \X (1 .. n) |-> Put(q[1], q[2])]
           D(h) == [i \in 0 .. n |-> IF i = 0 THEN none ELSE Put(h[i - 1], i)]
<1>1. nb \in Nat \ {0} /\ nb >= 2 * n /\ n <= nb
  BY BucketsEnough
<1> HIDE DEF nb
<1>2. g \in [S \X (1 .. n) -> S] /\ none \in S
  <2>1. ASSUME NEW b \in S, NEW i \in 1 .. n PROVE Put(b, i) \in S
    <3>1. CASE b = Duplicate
      BY <3>1
    <3>2. CASE b # Duplicate
      <4>1. b \in [0 .. nb - 1 -> 0 .. n] /\ i \in 0 .. n
        BY <3>2
      <4>2. [b EXCEPT ![Probe(ts, b, ts[i].name)] = i] \in [0 .. nb - 1 -> 0 .. n]
        BY <4>1
      <4>3. QED
        BY <3>2, <4>2
    <3>3. QED
      BY <3>1, <3>2
  <2> HIDE DEF S, Put
  <2>2. g \in [S \X (1 .. n) -> S]
    BY <2>1
  <2>3. none \in [0 .. nb - 1 -> 0 .. n]
    OBVIOUS
  <2>4. QED
    BY <2>2, <2>3 DEF S
<1>3. PICK s \in [0 .. n -> S] : Recurs(s, n, none, g)
  <2> HIDE DEF g, S, none
  <2>1. QED
    BY <1>2, Recursion
<1>4. s = D(s)
  <2>1. ASSUME NEW k \in 1 .. n PROVE s[k] = Put(s[k - 1], k)
    <3>1. s[k] = g[<<s[k - 1], k>>]
      BY <1>3 DEF Recurs
    <3>2. k - 1 \in 0 .. n
      OBVIOUS
    <3> HIDE DEF Put, S
    <3>3. QED
      BY <3>1, <3>2
  <2>2. s[0] = none
    BY <1>3 DEF Recurs
  <2> HIDE DEF Put, none
  <2>3. QED
    BY <2>1, <2>2
<1> DEFINE c == CHOOSE h : h = D(h)
<1>5. c = D(c)
  <2> HIDE DEF D
  <2>1. QED
    BY <1>4
<1>6. Indexed(ts) = c[n]
  BY DEF Indexed, nb
<1> HIDE DEF c, g, S
<1>7. c[0] = none /\ \A k \in 1 .. n : c[k] = Put(c[k - 1], k)
  <2> HIDE DEF Put, none
  <2>1. QED
    BY <1>5
<1> DEFINE A == {i \in 0 .. n : c[i] = Duplicate \/ Placed(ts, c[i], nb, i)}
<1>8. 0 \in A
  <2>1. none \in [0 .. nb - 1 -> 0 .. 0] /\ {j \in 0 .. nb - 1 : none[j] # 0} = {}
    OBVIOUS
  <2>2. IsFiniteSet({}) /\ Cardinality({}) = 0
    BY FS_EmptySet
  <2> HIDE DEF none
  <2>3. Placed(ts, none, nb, 0)
    <3> DEFINE U == {j \in 0 .. nb - 1 : none[j] # 0}
    <3>4. U = {}
      BY <2>1
    <3>1. IsFiniteSet(U) /\ Cardinality(U) <= 0
      <4> HIDE DEF U
      <4>1. QED
        BY <2>2, <3>4
    <3>2. \A i \in 1 .. 0 : FALSE
      OBVIOUS
    <3>3. QED
      BY <2>1, <3>1, <3>2 DEF Placed
  <2>4. QED
    BY <1>7, <2>3
<1>9. ASSUME NEW i \in 1 .. n, i - 1 \in A PROVE i \in A
  <2>1. c[i] = Put(c[i - 1], i)
    BY <1>7
  <2>2. CASE c[i - 1] = Duplicate
    BY <2>1, <2>2
  <2>3. CASE c[i - 1] # Duplicate
    <3>1. Placed(ts, c[i - 1], nb, i - 1)
      BY <1>9, <2>3
    <3>2. CASE c[i - 1][Probe(ts, c[i - 1], ts[i].name)] # 0
      BY <2>1, <2>3, <3>2
    <3>3. CASE c[i - 1][Probe(ts, c[i - 1], ts[i].name)] = 0
      <4>1. c[i] = [c[i - 1] EXCEPT ![Probe(ts, c[i - 1], ts[i].name)] = i]
        BY <2>1, <2>3, <3>3
      <4>2. nb \in Nat /\ i \in Nat \ {0} /\ i <= nb /\ \A l \in 1 .. i : ts[l].name \in Names
        BY <1>1
      <4>3. Placed(ts, c[i], nb, i)
        BY ONLY <3>1, <3>3, <4>1, <4>2, Inserted
      <4>4. QED
        BY <4>3
    <3>4. QED
      BY <3>2, <3>3
  <2>4. QED
    BY <2>2, <2>3
<1>10. \A i \in 0 .. n : i \in A
  <2> HIDE DEF A
  <2>1. QED
    BY <1>8, <1>9, Rises
<1>11. n \in A
  BY <1>10
<1>12. QED
  BY <1>6, <1>11 DEF nb

(* A search for a name finds the tensor that has it, or none. *)
LEMMA FindIs ==
    ASSUME NEW n \in Nat, NEW nb \in Nat, n < nb, Placed(t, bucket, nb, n),
           \A i \in 1 .. n : t[i].name \in Names
    PROVE  /\ \A i \in 1 .. n : find(t[i].name) = i
           /\ \A name \in Names : find(name) \in 0 .. n
           /\ \A i, j \in 1 .. n : t[i].name = t[j].name => i = j
<1>1. nb \in Nat \ {0} /\ bucket \in [0 .. nb - 1 -> 0 .. n] /\ \E j \in 0 .. nb - 1 : bucket[j] = 0
  <2>1. \E j \in 0 .. nb - 1 : bucket[j] = 0
    BY RoomLeft
  <2>2. QED
    BY <2>1 DEF Placed
<1>2. ASSUME NEW name \in Names
      PROVE  \E k : EndsFirst(t, bucket, name, nb, k) /\ find(name) = bucket[Way(name, nb, k)]
                     /\ Way(name, nb, k) \in 0 .. nb - 1
  <2>1. DOMAIN bucket = 0 .. nb - 1
    BY <1>1
  <2>2. PICK k : EndsFirst(t, bucket, name, nb, k) /\ Probe(t, bucket, name) = Way(name, nb, k)
    <3>1. Vacant(bucket, nb)
      BY <1>1, <2>1 DEF Vacant
    <3>2. Ended(t, bucket, name, nb)
      BY <3>1, ProbeIs
    <3>3. QED
      BY <3>2 DEF Ended
  <2>3. k \in Nat
    BY <2>2 DEF EndsFirst
  <2>4. Way(name, nb, k) \in 0 .. nb - 1
    BY <1>1, <2>3, Reaches
  <2>5. QED
    BY <2>2, <2>4 DEF find
<1>3. ASSUME NEW i \in 1 .. n PROVE find(t[i].name) = i
  <2>1. PICK l : EndsFirst(t, bucket, t[i].name, nb, l) /\ bucket[Way(t[i].name, nb, l)] = i
    BY DEF Placed
  <2>2. PICK k : EndsFirst(t, bucket, t[i].name, nb, k) /\ find(t[i].name) = bucket[Way(t[i].name, nb, k)]
    BY <1>2
  <2>3. k = l
    BY <2>1, <2>2, FirstEnd
  <2>4. QED
    BY <2>1, <2>2, <2>3
<1>4. \A name \in Names : find(name) \in 0 .. n
  BY <1>1, <1>2
<1>5. \A i, j \in 1 .. n : t[i].name = t[j].name => i = j
  BY DEF Placed
<1>6. QED
  BY <1>3, <1>4, <1>5

-----------------------------------------------------------------------------
(* The listing of the tensors. *)

LEMMA SetToSeqIs ==
    ASSUME NEW S, IsFiniteSet(S)
    PROVE  /\ Cardinality(S) \in Nat /\ SetToSeq(S) \in [1 .. Cardinality(S) -> S]
           /\ \A e \in S : \E i \in 1 .. Cardinality(S) : SetToSeq(S)[i] = e
<1> DEFINE n == Cardinality(S)
<1>1. n \in Nat /\ ExistsBijection(1 .. n, S)
  BY FS_CardinalityType
<1>2. PICK f : f \in Bijection(1 .. n, S)
  BY <1>1 DEF ExistsBijection
<1>3. f \in [1 .. n -> S] /\ IsInjective(f)
  BY <1>2 DEF Bijection, Injection
<1> DEFINE g == CHOOSE h \in [1 .. n -> S] : IsInjective(h)
<1>4. g \in [1 .. n -> S] /\ IsInjective(g)
  BY <1>3
<1>5. SetToSeq(S) = g
  BY DEF SetToSeq
<1> HIDE DEF g
<1>6. g \in Injection(1 .. n, S)
  BY <1>4 DEF Injection
<1>7. Cardinality(1 .. n) = n
  <2>1. 1 \in Int /\ n \in Int /\ n - 1 + 1 = n /\ (1 > n => n = 0)
    BY <1>1
  <2>2. Cardinality(1 .. n) = IF 1 > n THEN 0 ELSE n - 1 + 1
    BY <2>1, FS_Interval
  <2>3. QED
    BY <2>1, <2>2
<1>8. g \in Surjection(1 .. n, S)
  BY <1>6, <1>7, FS_Injection
<1>9. \A e \in S : \E i \in 1 .. n : g[i] = e
  BY <1>8 DEF Surjection
<1>10. QED
  BY <1>1, <1>4, <1>5, <1>9

Tensor == [name : Names, shard : Shards, off : Nat, nbytes : Nat, form : BOOLEAN]
Made(s, e) == [name |-> e.name, shard |-> s, off |-> disk[s].base + e.o0,
               nbytes |-> e.bytes, form |-> e.form]

(* Of some shards, every tensor is in the sequence, and nothing else. *)
InOrder(ts, shards) ==
    /\ ts \in Seq(Tensor)
    /\ \A i \in 1 .. Len(ts) : \E s \in shards : \E e \in disk[s].entries : ts[i] = Made(s, e)
    /\ \A s \in shards : \A e \in disk[s].entries : \E i \in 1 .. Len(ts) : ts[i] = Made(s, e)

(* A directory that a scan accepts. *)
Readable == disk \in Disks /\ \A s \in Shards : Scans(s)

LEMMA ReadableIs ==
    ASSUME Readable, NEW s \in Shards
    PROVE  /\ disk[s].base \in Nat /\ disk[s].size \in Nat /\ disk[s].base <= disk[s].size
           /\ IsFiniteSet(disk[s].entries) /\ Swept(s)
           /\ \A e \in disk[s].entries : e \in Entries /\ Sane(s, e) /\ Made(s, e) \in Tensor
<1>1. /\ disk[s].base \in Nat /\ disk[s].size \in Nat /\ IsFiniteSet(disk[s].entries)
      /\ \A e \in disk[s].entries : e \in Entries
  BY CheckpointAssumption DEF Readable
<1>2. HeaderFits(s) /\ Swept(s) /\ \A e \in disk[s].entries : Sane(s, e)
  BY DEF Readable, Scans
<1>3. ASSUME NEW e \in disk[s].entries PROVE Made(s, e) \in Tensor
  <2>1. e \in Entries /\ 0 <= e.o0
    BY <1>1, <1>2 DEF Sane
  <2>2. e.name \in Names /\ e.o0 \in Int /\ e.bytes \in Nat /\ e.form \in BOOLEAN
    BY <2>1 DEF Entries
  <2>3. disk[s].base + e.o0 \in Nat
    BY <1>1, <2>1, <2>2
  <2>4. QED
    BY <2>2, <2>3 DEF Made, Tensor
<1>4. QED
  BY <1>1, <1>2, <1>3 DEF HeaderFits

LEMMA PushedIs ==
    ASSUME Readable, NEW s \in Shards
    PROVE  InOrder(Pushed(s), {s})
<1> DEFINE es == SetToSeq(disk[s].entries)
           n == Cardinality(disk[s].entries)
<1>1. /\ n \in Nat /\ es \in [1 .. n -> disk[s].entries]
      /\ \A e \in disk[s].entries : \E i \in 1 .. n : es[i] = e
  BY ReadableIs, SetToSeqIs
<1>2. Len(es) = n
  <2> HIDE DEF es, n
  <2>1. QED
    BY <1>1, FunIsSeq
<1> HIDE DEF es, n
<1>3. Pushed(s) = [i \in 1 .. n |-> Made(s, es[i])]
  BY <1>2 DEF Pushed, Made, es
<1>4. Pushed(s) \in [1 .. n -> Tensor] /\ \A i \in 1 .. n : Pushed(s)[i] = Made(s, es[i])
  BY <1>1, <1>3, ReadableIs
<1>5. Pushed(s) \in Seq(Tensor) /\ Len(Pushed(s)) = n
  BY <1>1, <1>4, FunIsSeq
<1>6. QED
  BY <1>1, <1>4, <1>5 DEF InOrder

LEMMA ListedOn ==
    ASSUME NEW A, NEW B, NEW x, NEW y, InOrder(x, A), InOrder(y, B)
    PROVE  InOrder(x \o y, A \cup B)
<1> DEFINE z == x \o y
<1>1. x \in Seq(Tensor) /\ y \in Seq(Tensor)
  BY DEF InOrder
<1>2. Len(x) \in Nat /\ Len(y) \in Nat
  BY <1>1, LenProperties
<1>3. /\ z \in Seq(Tensor) /\ Len(z) = Len(x) + Len(y)
      /\ \A i \in 1 .. Len(x) : z[i] = x[i]
      /\ \A i \in 1 .. Len(y) : z[Len(x) + i] = y[i]
  BY <1>1, Joined
<1> HIDE DEF z
<1>4. ASSUME NEW i \in 1 .. Len(z)
      PROVE  \E s \in A \cup B : \E e \in disk[s].entries : z[i] = Made(s, e)
  <2>1. CASE i <= Len(x)
    <3>1. i \in 1 .. Len(x) /\ z[i] = x[i]
      BY <1>2, <1>3, <2>1
    <3>2. QED
      BY <3>1 DEF InOrder
  <2>2. CASE i > Len(x)
    <3>1. PICK j \in 1 .. Len(y) : i = Len(x) + j
      <4>1. i - Len(x) \in 1 .. Len(y) /\ i = Len(x) + (i - Len(x))
        BY <1>2, <1>3, <2>2
      <4>2. QED
        BY <4>1
    <3>2. z[i] = y[j]
      BY <1>3, <3>1
    <3>3. QED
      BY <3>2 DEF InOrder
  <2>3. QED
    BY <1>2, <2>1, <2>2
<1>5. ASSUME NEW s \in A \cup B, NEW e \in disk[s].entries
      PROVE  \E i \in 1 .. Len(z) : z[i] = Made(s, e)
  <2>1. CASE s \in A
    <3>1. PICK i \in 1 .. Len(x) : x[i] = Made(s, e)
      BY <2>1 DEF InOrder
    <3>2. i \in 1 .. Len(z) /\ z[i] = x[i]
      BY <1>2, <1>3
    <3>3. QED
      BY <3>1, <3>2
  <2>2. CASE s \in B
    <3>1. PICK i \in 1 .. Len(y) : y[i] = Made(s, e)
      BY <2>2 DEF InOrder
    <3>2. Len(x) + i \in 1 .. Len(z) /\ z[Len(x) + i] = y[i]
      BY <1>2, <1>3
    <3>3. QED
      BY <3>1, <3>2
  <2>3. QED
    BY <2>1, <2>2
<1>6. InOrder(z, A \cup B)
  BY <1>3, <1>4, <1>5 DEF InOrder
<1>7. QED
  BY <1>6 DEF z

LEMMA FlattenIs ==
    ASSUME Readable
    PROVE  InOrder(FlattenSeq([s \in Shards |-> Pushed(s)]), Shards)
<1> DEFINE N == NShards
           seqs == [s \in Shards |-> Pushed(s)]
           S == Seq(Tensor)
           a == <<>>
           Put(x, k) == IF k = 1 THEN seqs[k] ELSE x \o seqs[k]
           g == [q \in S \X (1 .. N) |-> Put(q[1], q[2])]
           D(h) == [i \in 1 .. Len(seqs) |-> IF i = 1 THEN seqs[i] ELSE h[i - 1] \o seqs[i]]
<1>1. N \in Nat \ {0} /\ Shards = 1 .. N
  BY CheckpointAssumption DEF Shards
<1>2. seqs \in [1 .. N -> S] /\ \A s \in 1 .. N : seqs[s] = Pushed(s)
  <2>1. \A s \in Shards : Pushed(s) \in Seq(Tensor)
    BY PushedIs DEF InOrder
  <2>2. QED
    BY <1>1, <2>1
<1>3. Len(seqs) = N
  <2> HIDE DEF seqs, S, N
  <2>1. QED
    BY <1>1, <1>2, FunIsSeq
<1> HIDE DEF seqs
<1>4. g \in [S \X (1 .. N) -> S] /\ a \in S
  <2>1. ASSUME NEW x \in S, NEW k \in 1 .. N PROVE Put(x, k) \in S
    <3>1. seqs[k] \in Seq(Tensor) /\ x \in Seq(Tensor)
      BY <1>2
    <3>2. x \o seqs[k] \in Seq(Tensor)
      BY <3>1, Joined
    <3>3. QED
      BY <3>1, <3>2
  <2>2. a \in S
    OBVIOUS
  <2> HIDE DEF S, Put, a
  <2>3. QED
    BY <2>1, <2>2
<1>5. PICK s \in [0 .. N -> S] : Recurs(s, N, a, g)
  <2> HIDE DEF g, S, a, N
  <2>1. QED
    BY <1>1, <1>4, Recursion
<1> DEFINE u == [i \in 1 .. N |-> s[i]]
<1>6. u = D(u)
  <2>1. ASSUME NEW k \in 1 .. N PROVE u[k] = IF k = 1 THEN seqs[k] ELSE u[k - 1] \o seqs[k]
    <3>1. s[k] = g[<<s[k - 1], k>>]
      BY <1>5 DEF Recurs
    <3>2. k - 1 \in 0 .. N /\ (k # 1 => k - 1 \in 1 .. N)
      BY <1>1
    <3>3. s[k] = Put(s[k - 1], k)
      <4> HIDE DEF Put, S, N
      <4>1. QED
        BY <3>1, <3>2
    <3>4. u[k] = s[k] /\ (k # 1 => u[k - 1] = s[k - 1])
      BY <3>2
    <3> HIDE DEF u
    <3>5. QED
      BY <3>3, <3>4
  <2>2. u = [k \in 1 .. N |-> u[k]]
    OBVIOUS
  <2> HIDE DEF u
  <2>3. QED
    BY <1>3, <2>1, <2>2
<1> DEFINE c == CHOOSE h : h = D(h)
<1>7. c = D(c)
  <2> HIDE DEF D, u
  <2>1. QED
    BY <1>6
<1>8. FlattenSeq(seqs) = c[N]
  <2>1. Len(seqs) # 0
    BY <1>1, <1>3
  <2>2. FlattenSeq(seqs) = c[Len(seqs)]
    BY <2>1 DEF FlattenSeq
  <2> HIDE DEF c
  <2>3. QED
    BY <1>3, <2>2
<1> HIDE DEF c, g, u, S
<1>9. \A k \in 1 .. N : c[k] = IF k = 1 THEN seqs[k] ELSE c[k - 1] \o seqs[k]
  BY <1>3, <1>7
<1> DEFINE A == {k \in 0 .. N : k = 0 \/ InOrder(c[k], 1 .. k)}
<1>10. 0 \in A
  BY <1>1
<1>11. ASSUME NEW k \in 1 .. N, k - 1 \in A PROVE k \in A
  <2>1. InOrder(seqs[k], {k})
    BY <1>1, <1>2, PushedIs
  <2>2. CASE k = 1
    <3>1. c[k] = seqs[k] /\ {k} = 1 .. k
      BY <1>9, <2>2
    <3>2. InOrder(c[k], 1 .. k)
      BY <2>1, <3>1
    <3>3. k \in 0 .. N
      BY <1>1
    <3>4. QED
      BY ONLY <3>2, <3>3
  <2>3. CASE k # 1
    <3>1. InOrder(c[k - 1], 1 .. k - 1) /\ c[k] = c[k - 1] \o seqs[k]
      <4>1. k - 1 # 0
        BY <2>3
      <4>2. k - 1 = 0 \/ InOrder(c[k - 1], 1 .. k - 1)
        BY ONLY <1>11
      <4>3. c[k] = c[k - 1] \o seqs[k]
        BY <1>9, <2>3
      <4>4. QED
        BY <4>1, <4>2, <4>3
    <3>2. InOrder(c[k], (1 .. k - 1) \cup {k})
      BY <2>1, <3>1, ListedOn
    <3>3. (1 .. k - 1) \cup {k} = 1 .. k
      OBVIOUS
    <3>4. InOrder(c[k], 1 .. k)
      BY <3>2, <3>3
    <3>5. k \in 0 .. N
      BY <1>1
    <3>6. QED
      BY ONLY <3>4, <3>5
  <2>4. QED
    BY <2>2, <2>3
<1>12. \A k \in 0 .. N : k \in A
  <2> HIDE DEF A, N
  <2>1. QED
    BY <1>1, <1>10, <1>11, Rises
<1>13. N \in A
  BY <1>1, <1>12
<1>14. QED
  BY <1>1, <1>8, <1>13 DEF seqs

-----------------------------------------------------------------------------
(* The bytes of a shard. *)

(* How the end of the spans moves as sweep_spans goes through them.         *)
Sweeping(c, sp, n) ==
    /\ c[0] = 0 /\ \A i \in 0 .. n : c[i] \in Int
    /\ \A i \in 1 .. n : c[i] = IF c[i - 1] >= sp[i].o1 THEN c[i - 1] ELSE sp[i].o1

LEMMA CursorIs ==
    ASSUME NEW S, NEW n \in Nat, NEW sp \in [1 .. n -> S], \A i \in 1 .. n : sp[i].o1 \in Int
    PROVE  Sweeping(Cursor(sp), sp, n)
<1> DEFINE g == [q \in Int \X (1 .. n) |-> Max({q[1], sp[q[2]].o1})]
           D(h) == [i \in 0 .. Len(sp) |-> IF i = 0 THEN 0 ELSE Max({h[i - 1], sp[i].o1})]
<1>1. Len(sp) = n
  BY FunIsSeq
<1>2. g \in [Int \X (1 .. n) -> Int] /\ 0 \in Int
  <2>1. ASSUME NEW a \in Int, NEW i \in 1 .. n PROVE Max({a, sp[i].o1}) \in Int
    BY MaxTwo
  <2>2. QED
    BY <2>1
<1>3. PICK x \in [0 .. n -> Int] : Recurs(x, n, 0, g)
  <2> HIDE DEF g
  <2>1. QED
    BY <1>2, Recursion
<1>4. x = D(x)
  <2>1. ASSUME NEW k \in 1 .. n PROVE x[k] = Max({x[k - 1], sp[k].o1})
    <3>1. x[k] = g[<<x[k - 1], k>>]
      BY <1>3 DEF Recurs
    <3>2. k - 1 \in 0 .. n
      OBVIOUS
    <3>3. QED
      BY <3>1, <3>2
  <2>2. x[0] = 0
    BY <1>3 DEF Recurs
  <2>3. QED
    BY <1>1, <2>1, <2>2
<1> DEFINE c == CHOOSE h : h = D(h)
<1>5. c = D(c)
  <2> HIDE DEF D
  <2>1. QED
    BY <1>4
<1>6. Cursor(sp) = c
  BY DEF Cursor
<1> HIDE DEF c, g
<1>7. c[0] = 0 /\ \A k \in 1 .. n : c[k] = Max({c[k - 1], sp[k].o1})
  <2>1. c = [i \in 0 .. n |-> IF i = 0 THEN 0 ELSE Max({c[i - 1], sp[i].o1})]
    BY <1>1, <1>5
  <2>2. ASSUME NEW k \in 1 .. n PROVE c[k] = Max({c[k - 1], sp[k].o1})
    <3>1. k \in 0 .. n /\ k # 0
      OBVIOUS
    <3>2. QED
      BY ONLY <2>1, <3>1
  <2>3. c[0] = 0
    <3>1. 0 \in 0 .. n
      OBVIOUS
    <3>2. QED
      BY ONLY <2>1, <3>1
  <2> HIDE DEF D
  <2>4. QED
    BY <2>2, <2>3
<1> DEFINE A == {i \in 0 .. n : c[i] \in Int}
<1>8. 0 \in A
  BY <1>7
<1>9. ASSUME NEW i \in 1 .. n, i - 1 \in A PROVE i \in A
  <2>1. c[i - 1] \in Int /\ sp[i].o1 \in Int /\ c[i] = Max({c[i - 1], sp[i].o1})
    BY <1>7, <1>9
  <2>2. c[i] \in Int
    BY <2>1, MaxTwo
  <2>3. QED
    BY <2>2
<1>10. \A i \in 0 .. n : i \in A
  <2> HIDE DEF A
  <2>1. QED
    BY <1>8, <1>9, Rises
<1>11. ASSUME NEW i \in 1 .. n
       PROVE  c[i] = IF c[i - 1] >= sp[i].o1 THEN c[i - 1] ELSE sp[i].o1
  <2>1. c[i - 1] \in Int /\ sp[i].o1 \in Int /\ c[i] = Max({c[i - 1], sp[i].o1})
    BY <1>7, <1>10
  <2>2. QED
    BY <2>1, MaxTwo
<1>12. \A i \in 0 .. n : c[i] \in Int
  BY <1>10
<1> HIDE DEF A
<1>13. Sweeping(c, sp, n)
  BY <1>7, <1>11, <1>12 DEF Sweeping
<1>14. QED
  BY <1>6, <1>13

LEMMA EnumerationIs ==
    ASSUME NEW S, IsFiniteSet(S), NEW sp \in SetToSeqs(S)
    PROVE  /\ Cardinality(S) \in Nat /\ sp \in [1 .. Cardinality(S) -> S]
           /\ \A e \in S : \E i \in 1 .. Cardinality(S) : sp[i] = e
<1> DEFINE n == Cardinality(S)
<1>1. n \in Nat
  BY FS_CardinalityType
<1>2. sp \in [1 .. n -> S] /\ IsInjective(sp)
  BY DEF SetToSeqs, IsInjective
<1>3. sp \in Injection(1 .. n, S)
  BY <1>2 DEF Injection
<1>4. Cardinality(1 .. n) = n
  <2>1. 1 \in Int /\ n \in Int /\ n - 1 + 1 = n /\ (1 > n => n = 0)
    BY <1>1
  <2>2. Cardinality(1 .. n) = IF 1 > n THEN 0 ELSE n - 1 + 1
    BY <2>1, FS_Interval
  <2>3. QED
    BY <2>1, <2>2
<1>5. sp \in Surjection(1 .. n, S)
  BY <1>3, <1>4, FS_Injection
<1>6. \A e \in S : \E i \in 1 .. n : sp[i] = e
  BY <1>5 DEF Surjection
<1>7. QED
  BY <1>1, <1>2, <1>6

Spans(e, p) == e.o0 <= p /\ p < e.o1

(* The spans of a shard that is swept tile its data: up to where one ends,  *)
(* every byte is in one, and no byte is in two.                             *)
LEMMA Tiled ==
    ASSUME Readable, NEW s \in Shards
    PROVE  /\ \A p \in Nat : \A e \in disk[s].entries :
                 p < e.o1 => \E f \in disk[s].entries : Spans(f, p)
           /\ \A p \in Int : \A e, f \in disk[s].entries : Spans(e, p) /\ Spans(f, p) => e = f
<1> DEFINE S == disk[s].entries
           n == Cardinality(S)
<1>1. /\ IsFiniteSet(S) /\ Swept(s)
      /\ \A e \in S : e.o0 \in Int /\ e.o1 \in Int /\ e.o0 <= e.o1
  BY ReadableIs DEF Entries, Sane
<1>2. PICK sp \in SetToSeqs(S) : \A i \in 1 .. Len(sp) : sp[i].o0 = Cursor(sp)[i - 1]
  BY <1>1 DEF Swept, Orders
<1>3. n \in Nat /\ sp \in [1 .. n -> S] /\ \A e \in S : \E i \in 1 .. n : sp[i] = e
  BY <1>1, EnumerationIs
<1> HIDE DEF n, S
<1>4. Len(sp) = n
  BY <1>3, FunIsSeq
<1> DEFINE c == Cursor(sp)
<1>5. /\ c[0] = 0 /\ \A i \in 0 .. n : c[i] \in Int
      /\ \A i \in 1 .. n : c[i] = IF c[i - 1] >= sp[i].o1 THEN c[i - 1] ELSE sp[i].o1
  <2>1. \A i \in 1 .. n : sp[i].o1 \in Int
    BY <1>1, <1>3
  <2>2. n \in Nat /\ sp \in [1 .. n -> S]
    BY <1>3
  <2>3. Sweeping(Cursor(sp), sp, n)
    BY ONLY <2>1, <2>2, CursorIs
  <2>4. QED
    BY <2>3 DEF Sweeping
<1>6. \A i \in 1 .. n : sp[i].o0 = c[i - 1]
  BY <1>2, <1>4
<1> HIDE DEF c
<1>7. ASSUME NEW i \in 1 .. n
      PROVE  c[i] = sp[i].o1 /\ c[i - 1] <= c[i] /\ c[i - 1] \in Int /\ c[i] \in Int
  <2>1. sp[i].o0 \in Int /\ sp[i].o1 \in Int /\ sp[i].o0 <= sp[i].o1
    BY <1>1, <1>3
  <2>2. c[i - 1] \in Int /\ c[i] \in Int /\ sp[i].o0 = c[i - 1]
    <3>1. i - 1 \in 0 .. n /\ i \in 0 .. n
      BY <1>3
    <3>2. QED
      BY <1>5, <1>6, <3>1
  <2>3. c[i] = IF c[i - 1] >= sp[i].o1 THEN c[i - 1] ELSE sp[i].o1
    BY <1>5
  <2>4. QED
    BY <2>1, <2>2, <2>3
<1> DEFINE A == {j \in 0 .. n : \A i \in 0 .. j : c[i] <= c[j]}
<1>8. 0 \in A
  BY <1>3, <1>5
<1>9. ASSUME NEW j \in 1 .. n, j - 1 \in A PROVE j \in A
  <2>1. ASSUME NEW i \in 0 .. j PROVE c[i] <= c[j]
    <3>1. CASE i = j
      BY <1>5, <3>1
    <3>2. CASE i # j
      <4>1. i \in 0 .. j - 1 /\ c[i] \in Int
        BY <1>3, <1>5, <3>2
      <4>2. c[i] <= c[j - 1]
        BY <1>9, <4>1
      <4>3. QED
        BY <1>7, <4>1, <4>2
    <3>3. QED
      BY <3>1, <3>2
  <2>2. QED
    BY <2>1
<1>10. \A j \in 0 .. n : j \in A
  <2> HIDE DEF A
  <2>1. QED
    BY <1>3, <1>8, <1>9, Rises
<1>11. ASSUME NEW p \in Nat, NEW e \in S, p < e.o1 PROVE \E f \in S : Spans(f, p)
  <2>1. PICK k \in 1 .. n : sp[k] = e
    BY <1>3
  <2> DEFINE Past == {i \in 0 .. n : p < c[i]}
             m == Min(Past)
  <2>2. k \in Past
    BY <1>7, <1>11, <2>1
  <2>3. m \in Past /\ \A y \in Past : m <= y
    <3>1. IsFiniteSet(0 .. n) /\ Past \subseteq 0 .. n
      BY <1>3, FS_Interval
    <3>2. (\A y \in Past : y \in Int) /\ Past # {}
      BY <1>3, <2>2
    <3>4. IsFiniteSet(Past)
      <4> HIDE DEF Past
      <4>1. QED
        BY <3>1, FS_Subset
    <3> HIDE DEF Past
    <3>3. QED
      BY <3>2, <3>4, MinExists
  <2>4. m \in 1 .. n
    BY <1>5, <2>3
  <2>5. p < c[m] /\ ~(p < c[m - 1])
    <3>1. p < c[m]
      BY <2>3
    <3>2. m - 1 \in 0 .. n /\ ~(m <= m - 1)
      <4> HIDE DEF m
      <4>1. QED
        BY <1>3, <2>4
    <3>3. m - 1 \notin Past
      <4> HIDE DEF m, Past
      <4>1. QED
        BY <2>3, <3>2
    <3>4. QED
      BY <3>1, <3>2, <3>3
  <2> HIDE DEF m
  <2>6. Spans(sp[m], p)
    BY <1>6, <1>7, <2>4, <2>5 DEF Spans
  <2>7. QED
    BY <1>3, <2>4, <2>6
<1>12. ASSUME NEW p \in Int, NEW i \in 1 .. n, NEW j \in 1 .. n, i < j, Spans(sp[i], p), Spans(sp[j], p)
       PROVE  FALSE
  <2>1. j - 1 \in 0 .. n /\ i \in 0 .. j - 1
    BY <1>3, <1>12
  <2>2. j - 1 \in A
    BY <1>10, <2>1
  <2>3. c[i] <= c[j - 1]
    BY <2>1, <2>2
  <2>4. p < c[i] /\ c[j - 1] <= p
    BY <1>6, <1>7, <1>12 DEF Spans
  <2>5. c[i] \in Int /\ c[j - 1] \in Int
    BY <1>5, <2>1
  <2>6. QED
    BY <2>3, <2>4, <2>5
<1>13. ASSUME NEW p \in Int, NEW e \in S, NEW f \in S, Spans(e, p), Spans(f, p) PROVE e = f
  <2>1. PICK i \in 1 .. n, j \in 1 .. n : sp[i] = e /\ sp[j] = f
    BY <1>3
  <2>2. ~(i < j) /\ ~(j < i)
    BY <1>12, <1>13, <2>1
  <2>3. i = j
    BY <2>2
  <2>4. QED
    BY <2>1, <2>3
<1>14. QED
  BY <1>11, <1>13 DEF S

(* The largest of some numbers and of a number for each of finitely many. *)
Largest(m, b, S, f) ==
    m \in Int /\ b <= m /\ (\A i \in S : f[i] <= m) /\ (m = b \/ \E i \in S : m = f[i])

LEMMA MaxOver ==
    ASSUME NEW S, IsFiniteSet(S), NEW f, \A i \in S : f[i] \in Int, NEW b \in Int
    PROVE  Largest(Max({b} \cup {f[i] : i \in S}), b, S, f)
<1> DEFINE R == {f[i] : i \in S}
           g == [i \in S |-> f[i]]
           B == R \cup {b}
<1>1. g \in Surjection(S, R)
  BY DEF Surjection
<1>2. IsFiniteSet(R)
  <2> HIDE DEF g, R
  <2>1. QED
    BY <1>1, FS_Surjection
<1>3. IsFiniteSet(B) /\ B # {}
  <2> HIDE DEF R
  <2>1. QED
    BY <1>2, FS_AddElement
<1>4. \A x \in B : x \in Int
  OBVIOUS
<1>5. {b} \cup {f[i] : i \in S} = B
  OBVIOUS
<1>6. Max(B) \in B /\ \A y \in B : Max(B) >= y
  <2> HIDE DEF B
  <2>1. QED
    BY <1>3, <1>4, MaxExists
<1> DEFINE m == Max(B)
<1>7. m \in Int /\ b <= m /\ (\A i \in S : f[i] <= m) /\ (m = b \/ \E i \in S : m = f[i])
  <2>1. m \in B /\ m \in Int /\ \A y \in B : m >= y
    <3> HIDE DEF B
    <3>1. QED
      BY <1>4, <1>6
  <2> HIDE DEF m
  <2>2. QED
    BY <2>1
<1>8. Largest(m, b, S, f)
  BY <1>7 DEF Largest
<1>9. QED
  BY <1>5, <1>8

-----------------------------------------------------------------------------
(* An open checkpoint. *)

Ready == Readable /\ InOrder(t, Shards) /\ Placed(t, bucket, Buckets(Len(t)), Len(t))

LEMMA TensorIs ==
    ASSUME Ready
    PROVE  /\ Len(t) \in Nat
           /\ \A i \in 1 .. Len(t) :
                 /\ t[i] \in Tensor
                 /\ \E e \in disk[t[i].shard].entries : t[i] = Made(t[i].shard, e)
                 /\ t[i].off + t[i].nbytes <= disk[t[i].shard].size
<1>1. t \in Seq(Tensor) /\ Len(t) \in Nat /\ \A i \in 1 .. Len(t) : t[i] \in Tensor
  <2>1. t \in Seq(Tensor)
    BY DEF Ready, InOrder
  <2>2. QED
    BY <2>1, LenProperties, ElementOfSeq
<1>2. ASSUME NEW i \in 1 .. Len(t)
      PROVE  /\ \E e \in disk[t[i].shard].entries : t[i] = Made(t[i].shard, e)
             /\ t[i].off + t[i].nbytes <= disk[t[i].shard].size
  <2>1. PICK s \in Shards : \E e \in disk[s].entries : t[i] = Made(s, e)
    BY DEF Ready, InOrder
  <2>2. PICK e \in disk[s].entries : t[i] = Made(s, e)
    BY <2>1
  <2>3. t[i].shard = s /\ t[i].off = disk[s].base + e.o0 /\ t[i].nbytes = e.bytes
    BY <2>2 DEF Made
  <2>4. disk[s].base \in Nat /\ disk[s].size \in Nat /\ e \in Entries /\ Sane(s, e)
    BY ReadableIs DEF Ready
  <2>5. e.o0 \in Int /\ e.o1 \in Int /\ e.bytes \in Nat
        /\ e.o1 <= disk[s].size - disk[s].base /\ e.o1 - e.o0 = e.bytes
    BY <2>4 DEF Entries, Sane
  <2>6. t[i].off + t[i].nbytes <= disk[s].size
    BY <2>3, <2>4, <2>5
  <2>7. QED
    BY <2>2, <2>3, <2>6
<1>3. QED
  BY <1>1, <1>2

LEMMA ReadyFinds ==
    ASSUME Ready
    PROVE  /\ \A i \in 1 .. Len(t) : find(t[i].name) = i
           /\ \A name \in Names : find(name) \in 0 .. Len(t)
           /\ \A i, j \in 1 .. Len(t) : t[i].name = t[j].name => i = j
<1>1. Len(t) \in Nat /\ \A i \in 1 .. Len(t) : t[i].name \in Names
  BY TensorIs DEF Tensor
<1>2. Buckets(Len(t)) \in Nat /\ Len(t) < Buckets(Len(t))
  <2>1. Buckets(Len(t)) \in Nat \ {0} /\ Buckets(Len(t)) >= 2 * Len(t)
    BY <1>1, BucketsEnough
  <2>2. QED
    BY <1>1, <2>1
<1>3. Placed(t, bucket, Buckets(Len(t)), Len(t))
  BY DEF Ready
<1>4. QED
  BY <1>1, <1>2, <1>3, FindIs

LEMMA Owned ==
    ASSUME Ready
    PROVE  OneOwner
<1>1. \A i \in 1 .. Len(t) : find(t[i].name) = i
  BY ReadyFinds
<1>2. ASSUME NEW s \in Shards
      PROVE  LET own == {i \in 1 .. Len(t) : t[i].shard = s}
                 end == Max({disk[s].base} \cup {t[i].off + t[i].nbytes : i \in own})
             IN \A p \in disk[s].base .. end - 1 :
                   Cardinality({i \in own : t[i].off <= p /\ p < t[i].off + t[i].nbytes}) = 1
  <2> DEFINE own == {i \in 1 .. Len(t) : t[i].shard = s}
             f == [i \in own |-> t[i].off + t[i].nbytes]
             end == Max({disk[s].base} \cup {t[i].off + t[i].nbytes : i \in own})
             last == Max({disk[s].base} \cup {f[i] : i \in own})
  <2>1. Len(t) \in Nat /\ \A i \in 1 .. Len(t) : t[i] \in Tensor
    BY TensorIs
  <2>2. IsFiniteSet(own) /\ own \subseteq 1 .. Len(t)
    <3>1. IsFiniteSet(1 .. Len(t)) /\ own \subseteq 1 .. Len(t)
      BY <2>1, FS_Interval
    <3> HIDE DEF own
    <3>2. QED
      BY <3>1, FS_Subset
  <2>3. disk[s].base \in Nat /\ \A e \in disk[s].entries : e \in Entries /\ Sane(s, e)
    BY ReadableIs DEF Ready
  <2>4. \A i \in own : f[i] \in Int /\ f[i] = t[i].off + t[i].nbytes
    BY <2>1, <2>2 DEF Tensor
  <2>5. end = last
    OBVIOUS
  <2>6. last \in Int /\ (last = disk[s].base \/ \E i \in own : last = f[i])
    <3> HIDE DEF own, f
    <3>1. disk[s].base \in Int
      BY <2>3
    <3>2. Largest(last, disk[s].base, own, f)
      BY <2>2, <2>4, <3>1, MaxOver
    <3> HIDE DEF last
    <3>3. QED
      BY <3>2 DEF Largest
  <2>7. ASSUME NEW i \in own
        PROVE  \E e \in disk[s].entries :
                  /\ t[i] = Made(s, e) /\ e.o0 \in Int /\ e.o1 \in Int
                  /\ t[i].off = disk[s].base + e.o0 /\ t[i].off + t[i].nbytes = disk[s].base + e.o1
    <3>1. PICK e \in disk[s].entries : t[i] = Made(s, e)
      BY <2>2, TensorIs
    <3>2. e.o0 \in Int /\ e.o1 \in Int /\ e.bytes \in Nat /\ e.o1 - e.o0 = e.bytes
      BY <2>3 DEF Entries, Sane
    <3>3. t[i].off = disk[s].base + e.o0 /\ t[i].nbytes = e.bytes
      BY <3>1 DEF Made
    <3>4. t[i].off + t[i].nbytes = disk[s].base + e.o1
      BY <2>3, <3>2, <3>3
    <3>5. QED
      BY <3>1, <3>2, <3>3, <3>4
  <2> HIDE DEF last, end
  <2>8. ASSUME NEW p \in disk[s].base .. end - 1
        PROVE  Cardinality({i \in own : t[i].off <= p /\ p < t[i].off + t[i].nbytes}) = 1
    <3> DEFINE X == {i \in own : t[i].off <= p /\ p < t[i].off + t[i].nbytes}
               q == p - disk[s].base
    <3>1. p \in Int /\ q \in Nat /\ p < last
      BY <2>3, <2>5, <2>6
    <3>2. PICK i0 \in own : last = t[i0].off + t[i0].nbytes
      <4>1. last # disk[s].base
        BY <2>3, <2>6, <3>1
      <4>2. PICK i \in own : last = f[i]
        BY <2>6, <4>1
      <4>3. QED
        BY <2>4, <4>2
    <3>3. PICK e \in disk[s].entries :
             e.o1 \in Int /\ t[i0].off + t[i0].nbytes = disk[s].base + e.o1
      BY <2>7
    <3>4. q < e.o1
      BY <2>3, <3>1, <3>2, <3>3
    <3>5. Readable
      BY DEF Ready
    <3>6. PICK d \in disk[s].entries : Spans(d, q)
      <4> HIDE DEF q
      <4>1. QED
        BY <3>1, <3>4, <3>5, Tiled
    <3>7. PICK j \in 1 .. Len(t) : t[j] = Made(s, d)
      BY DEF Ready, InOrder
    <3>8. j \in own
      BY <3>7 DEF Made
    <3>9. d.o0 \in Int /\ d.o1 \in Int /\ d.bytes \in Nat /\ d.o1 - d.o0 = d.bytes
      BY <2>3 DEF Entries, Sane
    <3>10. t[j].off = disk[s].base + d.o0 /\ t[j].nbytes = d.bytes
      BY <3>7 DEF Made
    <3>11. j \in X
      <4>1. t[j].off <= p /\ p < t[j].off + t[j].nbytes
        <5> DEFINE b == disk[s].base
        <5>1. b \in Nat /\ q \in Nat /\ q = p - b /\ d.o0 <= q /\ q < d.o1 /\ p \in Int
          BY <2>3, <3>1, <3>6 DEF Spans
        <5>2. t[j].off = b + d.o0 /\ t[j].nbytes = d.bytes
          BY <3>10
        <5> HIDE DEF b, q
        <5>3. b + d.o0 <= p /\ p < b + d.o0 + d.bytes
          BY ONLY <3>9, <5>1
        <5>4. QED
          BY <5>2, <5>3
      <4>2. QED
        BY <3>8, <4>1
    <3>12. ASSUME NEW i \in X PROVE i = j
      <4>1. PICK x \in disk[s].entries :
               /\ t[i] = Made(s, x) /\ x.o0 \in Int /\ x.o1 \in Int
               /\ t[i].off = disk[s].base + x.o0 /\ t[i].off + t[i].nbytes = disk[s].base + x.o1
        BY <2>7
      <4>2. Spans(x, q)
        <5> DEFINE b == disk[s].base
        <5>1. b \in Nat /\ q = p - b /\ p \in Int /\ x.o0 \in Int /\ x.o1 \in Int
          BY <2>3, <3>1, <4>1
        <5>2. t[i].off <= p /\ p < t[i].off + t[i].nbytes
          OBVIOUS
        <5>3. b + x.o0 <= p /\ p < b + x.o1
          BY <4>1, <5>2
        <5> HIDE DEF b, q
        <5>4. x.o0 <= q /\ q < x.o1
          BY ONLY <5>1, <5>3
        <5>5. QED
          BY <5>4 DEF Spans
      <4>3. x = d
        <5> HIDE DEF q
        <5>1. QED
          BY <3>1, <3>5, <3>6, <4>2, Tiled
      <4>4. t[i].name = t[j].name /\ i \in 1 .. Len(t)
        BY <2>2, <3>7, <4>1, <4>3
      <4>5. QED
        BY <4>4, ReadyFinds
    <3>13. X = {j}
      BY <3>11, <3>12
    <3> HIDE DEF X
    <3>14. Cardinality(X) = 1
      BY <3>13, FS_Singleton
    <3>15. QED
      BY <3>14 DEF X
  <2>9. QED
    BY <2>8 DEF end
<1>3. QED
  BY <1>1, <1>2 DEF OneOwner

IndexInv ==
    /\ st \in {"closed", "open", "refused"}
    /\ disk \in Disks
    /\ st = "open" => Ready

LEMMA Opened ==
    ASSUME IndexInv, Open
    PROVE  IndexInv'
<1> DEFINE ts == FlattenSeq([s \in Shards |-> Pushed(s)])
<1>1. disk' = disk /\ disk \in Disks
  BY DEF Open, IndexInv
<1>2. CASE (\A s \in Shards : Scans(s)) /\ Indexed(ts) # Duplicate
  <2>1. st' = "open" /\ t' = ts /\ bucket' = Indexed(ts)
    BY <1>2 DEF Open
  <2>2. Readable
    BY <1>1, <1>2 DEF Readable
  <2>3. InOrder(ts, Shards)
    BY <2>2, FlattenIs
  <2> HIDE DEF ts
  <2>4. Len(ts) \in Nat /\ \A i \in 1 .. Len(ts) : ts[i].name \in Names
    <3>1. ts \in Seq(Tensor)
      BY <2>3 DEF InOrder
    <3>2. Len(ts) \in Nat /\ \A i \in 1 .. Len(ts) : ts[i] \in Tensor
      BY <3>1, LenProperties, ElementOfSeq
    <3>3. QED
      BY <3>2 DEF Tensor
  <2>5. Placed(ts, Indexed(ts), Buckets(Len(ts)), Len(ts))
    BY <1>2, <2>4, IndexedIs
  <2>6. Readable'
    BY <1>1, <2>2 DEF Readable, Scans, HeaderFits, Sane, Swept, Orders
  <2>7. InOrder(t, Shards)'
    <3>1. \A s, e : Made(s, e)' = Made(s, e)
      BY <1>1 DEF Made
    <3>2. t' = ts /\ disk' = disk
      BY <1>1, <2>1
    <3>3. QED
      BY <2>3, <3>1, <3>2 DEF InOrder
  <2>8. Placed(t, bucket, Buckets(Len(t)), Len(t))'
    BY <2>1, <2>5
  <2>9. QED
    BY <1>1, <2>1, <2>6, <2>7, <2>8 DEF IndexInv, Ready
<1>3. CASE ~((\A s \in Shards : Scans(s)) /\ Indexed(ts) # Duplicate)
  <2>1. st' = "refused"
    BY <1>3 DEF Open
  <2>2. QED
    BY <1>1, <2>1 DEF IndexInv
<1>4. QED
  BY <1>2, <1>3

-----------------------------------------------------------------------------
(* The layout of an expert. *)

Lowest(m, S, f)  == m \in Int /\ (\A i \in S : m <= f[i]) /\ \E i \in S : m = f[i]
Highest(m, S, f) == m \in Int /\ (\A i \in S : f[i] <= m) /\ \E i \in S : m = f[i]

LEMMA Extremes ==
    ASSUME NEW S, IsFiniteSet(S), S # {}, NEW f, \A i \in S : f[i] \in Int
    PROVE  Lowest(Min({f[i] : i \in S}), S, f) /\ Highest(Max({f[i] : i \in S}), S, f)
<1> DEFINE R == {f[i] : i \in S}
           g == [i \in S |-> f[i]]
<1>1. g \in Surjection(S, R)
  BY DEF Surjection
<1>2. IsFiniteSet(R)
  <2> HIDE DEF g, R
  <2>1. QED
    BY <1>1, FS_Surjection
<1>3. R # {} /\ \A x \in R : x \in Int
  OBVIOUS
<1>4. /\ Max(R) \in R /\ \A y \in R : Max(R) >= y
      /\ Min(R) \in R /\ \A y \in R : Min(R) =< y
  <2> HIDE DEF R
  <2>1. QED
    BY <1>2, <1>3, MaxExists, MinExists
<1>5. Lowest(Min(R), S, f)
  <2> DEFINE m == Min(R)
  <2>1. m \in R /\ m \in Int /\ \A y \in R : m <= y
    <3> HIDE DEF R
    <3>1. QED
      BY <1>3, <1>4
  <2> HIDE DEF m
  <2>2. Lowest(m, S, f)
    BY <2>1 DEF Lowest
  <2>3. QED
    BY <2>2 DEF m
<1>6. Highest(Max(R), S, f)
  <2> DEFINE m == Max(R)
  <2>1. m \in R /\ m \in Int /\ \A y \in R : m >= y
    <3> HIDE DEF R
    <3>1. QED
      BY <1>3, <1>4
  <2> HIDE DEF m
  <2>2. Highest(m, S, f)
    BY <2>1 DEF Highest
  <2>3. QED
    BY <2>2 DEF m
<1>7. QED
  BY <1>5, <1>6

LEMMA PartsAre ==
    /\ Len(Parts) \in Nat \ {0} /\ Ps = 1 .. Len(Parts) /\ 1 \in Ps
    /\ IsFiniteSet(Ps) /\ \A i \in Ps : Parts[i] \in Names
<1>1. Parts \in Seq(Names) /\ Parts # <<>>
  BY ReadAssumption
<1>2. Len(Parts) \in Nat /\ DOMAIN Parts = 1 .. Len(Parts) /\ \A i \in 1 .. Len(Parts) : Parts[i] \in Names
  BY <1>1, LenProperties, ElementOfSeq
<1>3. Len(Parts) # 0
  BY <1>1, EmptySeq
<1>4. IsFiniteSet(1 .. Len(Parts))
  BY <1>2, FS_Interval
<1>5. QED
  BY <1>2, <1>3, <1>4 DEF Ps

LEMMA PartIs ==
    ASSUME Ready, Found, NEW i \in Ps
    PROVE  /\ part(i) \in Tensor /\ part(i).off \in Nat /\ bytes(i) \in Nat
           /\ part(i).shard = part(1).shard /\ part(1).shard \in Shards
           /\ part(i).off + bytes(i) <= disk[part(1).shard].size
<1>1. ASSUME NEW j \in Ps
      PROVE  part(j) \in Tensor /\ part(j).off + bytes(j) <= disk[part(j).shard].size
  <2>1. find(Parts[j]) \in 0 .. Len(t) /\ find(Parts[j]) # 0
    BY PartsAre, ReadyFinds DEF Found
  <2>2. find(Parts[j]) \in 1 .. Len(t)
    BY <2>1, TensorIs
  <2>3. QED
    BY <2>2, TensorIs DEF part, bytes
<1>2. part(i).shard = part(1).shard /\ 1 \in Ps
  BY PartsAre DEF Found
<1>3. part(i) \in Tensor /\ part(1) \in Tensor
  BY <1>1, <1>2
<1>4. QED
  BY <1>1, <1>2, <1>3 DEF Tensor, bytes

(* What the layout of an expert says of its parts. *)
Laid(ly) ==
    /\ ly.shard \in Shards /\ ly.off \in Nat /\ ly.nbytes \in Nat
    /\ ly.contiguous \in BOOLEAN
    /\ ly.nbytes = Total(Lengths, Len(Parts))
    /\ ly.contiguous =>
          /\ ly.off + ly.nbytes <= disk[ly.shard].size
          /\ \A i \in Ps : /\ ly.off <= part(i).off
                           /\ part(i).off + bytes(i) <= ly.off + ly.nbytes
                           /\ ly.at[i] = part(i).off - ly.off
    /\ ~ly.contiguous => \A i \in Ps : ly.at[i] = Total(Lengths, i - 1)

LEMMA LengthsAre ==
    ASSUME Ready, Found
    PROVE  /\ \A i \in 1 .. Len(Parts) : Lengths[i] = bytes(i) /\ Lengths[i] \in Nat
           /\ \A n \in 0 .. Len(Parts) : Total(Lengths, n) \in Nat
           /\ \A n \in 0 .. Len(Parts) : \A i \in 1 .. n :
                 Total(Lengths, i - 1) + bytes(i) <= Total(Lengths, n)
<1>1. Len(Parts) \in Nat \ {0} /\ Ps = 1 .. Len(Parts)
  BY PartsAre
<1>2. \A i \in 1 .. Len(Parts) : Lengths[i] = bytes(i) /\ Lengths[i] \in Nat
  BY <1>1, PartIs DEF Lengths
<1>3. ASSUME NEW n \in 0 .. Len(Parts)
      PROVE  /\ Total(Lengths, n) \in Nat
             /\ \A i \in 1 .. n : Total(Lengths, i - 1) + bytes(i) <= Total(Lengths, n)
  <2>1. n \in Nat /\ \A k \in 1 .. n : Lengths[k] \in Nat /\ Lengths[k] = bytes(k)
    BY <1>1, <1>2
  <2>2. /\ \A m \in 0 .. n : Total(Lengths, m) \in Nat
        /\ \A i \in 1 .. n : Total(Lengths, i - 1) + Lengths[i] <= Total(Lengths, n)
    BY <2>1, TotalGrows
  <2>3. n \in 0 .. n
    BY <2>1
  <2>4. QED
    BY <2>1, <2>2, <2>3
<1>4. QED
  BY <1>2, <1>3

LEMMA LayoutIs ==
    ASSUME Ready, Found
    PROVE  Laid(Layout)
<1> DEFINE first == [i \in Ps |-> part(i).off]
           ends  == [i \in Ps |-> part(i).off + bytes(i)]
           a == Min({first[i] : i \in Ps})
           z == Max({ends[i] : i \in Ps})
           own == Total(Lengths, Len(Parts))
<1>1. \A i \in Ps : /\ part(i).off \in Nat /\ bytes(i) \in Nat
                    /\ part(i).off + bytes(i) <= disk[part(1).shard].size
  BY PartIs
<1>2. IsFiniteSet(Ps) /\ Ps # {} /\ part(1).shard \in Shards /\ 1 \in Ps /\ Len(Parts) \in Nat \ {0}
  BY PartsAre, PartIs
<1>3. {part(i).off : i \in Ps} = {first[i] : i \in Ps}
      /\ {part(i).off + bytes(i) : i \in Ps} = {ends[i] : i \in Ps}
  OBVIOUS
<1>4. \A i \in Ps : first[i] = part(i).off /\ ends[i] = part(i).off + bytes(i)
  OBVIOUS
<1>5. \A i \in Ps : first[i] \in Int /\ ends[i] \in Int
  BY <1>1, <1>4
<1>6. Lowest(a, Ps, first) /\ Highest(z, Ps, ends)
  <2> HIDE DEF first, ends
  <2>1. QED
    BY <1>2, <1>5, Extremes
<1>7. Before(Len(Parts) + 1) = own
  <2>1. Len(Parts) + 1 - 1 = Len(Parts)
    BY <1>2
  <2>2. QED
    BY <2>1 DEF Before
<1>8. /\ Layout.shard = part(1).shard /\ Layout.off = a /\ Layout.nbytes = own
      /\ Layout.contiguous = (z - a = own)
      /\ Layout.at = [i \in Ps |-> IF z - a = own THEN part(i).off - a ELSE Before(i)]
  BY <1>3, <1>7 DEF Layout
<1>9. own \in Nat
  BY <1>2, LengthsAre
<1> HIDE DEF a, z, own, first, ends
<1>10. /\ a \in Nat /\ z \in Int
       /\ \A i \in Ps : a <= part(i).off /\ part(i).off + bytes(i) <= z
       /\ z <= disk[part(1).shard].size
  <2>1. a \in Int /\ z \in Int
    BY <1>6 DEF Lowest, Highest
  <2>2. \A i \in Ps : a <= part(i).off /\ part(i).off + bytes(i) <= z
    BY <1>4, <1>6 DEF Lowest, Highest
  <2>3. PICK i \in Ps : a = part(i).off
    BY <1>4, <1>6 DEF Lowest
  <2>4. PICK j \in Ps : z = part(j).off + bytes(j)
    BY <1>4, <1>6 DEF Highest
  <2>5. QED
    BY <1>1, <2>1, <2>2, <2>3, <2>4
<1>11. ASSUME Layout.contiguous
       PROVE  /\ a + own = z
              /\ \A i \in Ps : Layout.at[i] = part(i).off - a
  <2>1. z - a = own
    BY <1>8, <1>11
  <2>2. a + own = z
    BY <1>9, <1>10, <2>1
  <2>3. \A i \in Ps : Layout.at[i] = part(i).off - a
    BY <1>8, <2>1
  <2>4. QED
    BY <2>2, <2>3
<1>12. ASSUME ~Layout.contiguous
       PROVE  \A i \in Ps : Layout.at[i] = Total(Lengths, i - 1)
  BY <1>8, <1>12 DEF Before
<1>13. Layout.contiguous \in BOOLEAN
  BY <1>8
<1>14. QED
  BY <1>2, <1>8, <1>9, <1>10, <1>11, <1>12, <1>13 DEF Laid, own

-----------------------------------------------------------------------------
(* The window of an expert and its division. *)

Given ==
    /\ chunk_bytes \in Nat \ {0} /\ Multiple(chunk_bytes)
    /\ nw \in 1 .. ITEMS /\ slot_bytes \in Nat

LEMMA WindowIs ==
    ASSUME Laid(ref)
    PROVE  /\ lo \in Nat /\ Multiple(lo) /\ lo <= ref.off /\ ref.off < lo + ALIGN
           /\ len \in Nat /\ Multiple(len)
           /\ ref.off + ref.nbytes <= lo + len /\ lo + len < ref.off + ref.nbytes + ALIGN
<1>1. ref.off \in Nat /\ ref.nbytes \in Nat /\ ref.off + ref.nbytes \in Nat
  BY DEF Laid
<1>2. lo \in Nat /\ Multiple(lo) /\ lo <= ref.off /\ ref.off < lo + ALIGN
  BY <1>1, DownIs DEF lo
<1> DEFINE e == ref.off + ref.nbytes
<1>3. up(e) \in Nat /\ Multiple(up(e)) /\ e <= up(e) /\ up(e) < e + ALIGN
  BY <1>1, UpIs
<1>4. len = up(e) - lo
  BY DEF len
<1>5. Multiple(up(e) - lo)
  BY <1>2, <1>3, Multiples
<1>6. ALIGN \in Nat
  BY ReadAssumption
<1>7. e = ref.off + ref.nbytes
  OBVIOUS
<1> HIDE DEF e
<1>8. /\ len \in Nat /\ e <= lo + len /\ lo + len < e + ALIGN
  BY ONLY <1>1, <1>2, <1>3, <1>4, <1>6, <1>7
<1>9. QED
  BY <1>2, <1>4, <1>5, <1>7, <1>8

(* A division of n bytes into chunks, few enough for the work arrays. *)
Divided(n, width, most_of) ==
    /\ width \in Nat \ {0} /\ Multiple(width)
    /\ most_of \in Nat /\ most_of * nw <= ITEMS
    /\ n <= most_of * width
    /\ \A k \in 0 .. most_of - 1 : k * width < n

LEMMA TilingIs ==
    ASSUME Given, NEW n \in Nat
    PROVE  Divided(n, Tiling(n).size, Tiling(n).count)
<1> DEFINE most == ceil(n, chunk_bytes)
           capped == up(ceil(n, max_per))
           ch == IF most > max_per THEN capped ELSE chunk_bytes
<1>1. chunk_bytes \in Nat \ {0} /\ Multiple(chunk_bytes) /\ nw \in Nat \ {0} /\ nw <= ITEMS /\ ITEMS \in Nat
  BY ReadAssumption DEF Given
<1>2. max_per \in Nat \ {0} /\ max_per * nw <= ITEMS
  <2>1. ITEMS \div nw \in Nat /\ (ITEMS \div nw) * nw <= ITEMS /\ ITEMS < (ITEMS \div nw) * nw + nw
    BY <1>1, Divides
  <2>2. max_per = ITEMS \div nw
    BY DEF max_per
  <2>3. max_per # 0
    <3> SUFFICES ASSUME max_per = 0 PROVE FALSE
      OBVIOUS
    <3>1. (ITEMS \div nw) * nw = 0
      BY <1>1, <2>2
    <3>2. QED
      BY <1>1, <2>1, <3>1
  <2>4. QED
    BY <2>1, <2>2, <2>3
<1>3. Tiling(n) = [size |-> ch, count |-> ceil(n, ch)]
  BY DEF Tiling
<1>4. most \in Nat /\ \A m \in Nat : n <= m * chunk_bytes => most <= m
  BY <1>1, CeilIs
<1>5. /\ ceil(n, max_per) \in Nat /\ n <= ceil(n, max_per) * max_per
  BY <1>2, CeilIs
<1>6. capped \in Nat /\ Multiple(capped) /\ ceil(n, max_per) <= capped
  BY <1>5, UpIs
<1> HIDE DEF most, capped
<1>7. CASE most > max_per
  <2>1. ch = capped
    BY <1>7
  <2>2. n # 0
    <3> SUFFICES ASSUME n = 0 PROVE FALSE
      OBVIOUS
    <3>1. n <= 0 * chunk_bytes
      BY <1>1
    <3>2. most <= 0
      BY <1>4, <3>1
    <3>3. QED
      BY <1>2, <1>4, <1>7, <3>2
  <2>3. ceil(n, max_per) # 0
    <3> SUFFICES ASSUME ceil(n, max_per) = 0 PROVE FALSE
      OBVIOUS
    <3>1. ceil(n, max_per) * max_per = 0
      BY <1>2
    <3>2. QED
      BY <1>5, <2>2, <3>1
  <2>4. capped \in Nat \ {0}
    BY <1>5, <1>6, <2>3
  <2>5. n <= max_per * capped
    <3>1. ceil(n, max_per) * max_per <= capped * max_per
      BY <1>2, <1>5, <1>6, Products
    <3>2. ceil(n, max_per) * max_per \in Nat /\ capped * max_per \in Nat /\ capped * max_per = max_per * capped
      BY <1>2, <1>5, <2>4
    <3>3. QED
      BY <1>5, <3>1, <3>2
  <2>6. /\ ceil(n, capped) \in Nat /\ n <= ceil(n, capped) * capped
        /\ \A k \in 0 .. ceil(n, capped) - 1 : k * capped < n
        /\ ceil(n, capped) <= max_per
    BY <1>2, <2>4, <2>5, CeilIs
  <2>7. ceil(n, capped) * nw <= ITEMS
    <3>1. ceil(n, capped) * nw <= max_per * nw
      BY <1>1, <1>2, <2>6, Products
    <3>2. ceil(n, capped) * nw \in Nat /\ max_per * nw \in Nat
      BY <1>1, <1>2, <2>6
    <3>3. QED
      BY <1>1, <1>2, <3>1, <3>2
  <2>8. Tiling(n).size = capped /\ Tiling(n).count = ceil(n, capped)
    BY <1>3, <2>1
  <2>9. QED
    BY <1>6, <2>4, <2>6, <2>7, <2>8 DEF Divided
<1>8. CASE ~(most > max_per)
  <2>1. ch = chunk_bytes /\ most <= max_per
    BY <1>2, <1>4, <1>8
  <2>2. /\ most \in Nat /\ n <= most * chunk_bytes
        /\ \A k \in 0 .. most - 1 : k * chunk_bytes < n
    BY <1>1, CeilIs DEF most
  <2>3. most * nw <= ITEMS
    <3>1. most * nw <= max_per * nw
      BY <1>1, <1>2, <2>1, <2>2, Products
    <3>2. most * nw \in Nat /\ max_per * nw \in Nat
      BY <1>1, <1>2, <2>2
    <3>3. QED
      BY <1>1, <1>2, <3>1, <3>2
  <2>4. ceil(n, chunk_bytes) = most
    BY DEF most
  <2>5. Tiling(n).size = chunk_bytes /\ Tiling(n).count = most
    BY <1>3, <2>1, <2>4
  <2>6. QED
    BY <1>1, <2>2, <2>3, <2>5 DEF Divided
<1>9. QED
  BY <1>7, <1>8

-----------------------------------------------------------------------------
(* Reads. *)

LEMMA TransfersAre ==
    ASSUME NEW off \in Nat, NEW n \in Nat, size \in Int, NEW g \in Transfers(off, n)
    PROVE  /\ g \in 0 .. n
           /\ g = n \/ g = 0 \/ off + g = size \/ (off + g) % BLOCK = 0
<1> DEFINE most == Max({0, Min({n, size - off})})
<1>1. Min({n, size - off}) = IF n <= size - off THEN n ELSE size - off
  BY MinTwo
<1>2. Min({n, size - off}) \in Int
  BY <1>1
<1>3. most = IF 0 >= Min({n, size - off}) THEN 0 ELSE Min({n, size - off})
  <2> DEFINE w == Min({n, size - off})
  <2>1. w \in Int /\ 0 \in Int
    BY <1>2
  <2> HIDE DEF w
  <2>2. Max({0, w}) = IF 0 >= w THEN 0 ELSE w
    BY ONLY <2>1, MaxTwo
  <2>3. QED
    BY <2>2 DEF w
<1>4. g \in {0, most} \cup {x \in 0 .. most : (off + x) % BLOCK = 0}
  BY DEF Transfers
<1> HIDE DEF most
<1>5. most \in 0 .. n /\ (most = n \/ most = 0 \/ off + most = size)
  BY <1>1, <1>3
<1>6. CASE g \in {0, most}
  BY <1>5, <1>6
<1>7. CASE g \in 0 .. most /\ (off + g) % BLOCK = 0
  BY <1>5, <1>7
<1>8. QED
  BY <1>4, <1>6, <1>7

Image(x) == x \in [0 .. slot_bytes - 1 -> Int]

(* Slot y is slot x but for g bytes from off, which lie at at. *)
Puts(y, x, off, g, pos) ==
    /\ Image(y)
    /\ \A b \in 0 .. g - 1 : pos + b < slot_bytes => y[pos + b] = off + b
    /\ \A p \in 0 .. slot_bytes - 1 : p < pos \/ pos + g <= p => y[p] = x[p]

LEMMA StoredIs ==
    ASSUME NEW x, Image(x), NEW off \in Nat, NEW g \in Nat, NEW pos \in Nat, slot_bytes \in Nat
    PROVE  Puts(Stored(x, off, g, pos), x, off, g, pos)
<1> DEFINE y == Stored(x, off, g, pos)
<1>1. y = [p \in 0 .. slot_bytes - 1 |-> IF p \in pos .. pos + g - 1 THEN off + p - pos ELSE x[p]]
  BY DEF Stored, Image
<1> HIDE DEF y
<1>2. Image(y)
  <2>1. \A p \in 0 .. slot_bytes - 1 : off + p - pos \in Int /\ x[p] \in Int
    BY DEF Image
  <2>2. QED
    BY <1>1, <2>1 DEF Image
<1>3. ASSUME NEW b \in 0 .. g - 1, pos + b < slot_bytes PROVE y[pos + b] = off + b
  <2>1. PICK p \in 0 .. slot_bytes - 1 : p = pos + b /\ p \in pos .. pos + g - 1
    BY <1>3
  <2>2. y[p] = off + p - pos
    BY <1>1, <2>1
  <2>3. off + p - pos = off + b
    BY <2>1
  <2>4. QED
    BY <2>1, <2>2, <2>3
<1>4. ASSUME NEW p \in 0 .. slot_bytes - 1, p < pos \/ pos + g <= p PROVE y[p] = x[p]
  <2>1. p \notin pos .. pos + g - 1
    BY <1>4
  <2>2. QED
    BY <1>1, <2>1
<1>5. QED
  BY <1>2, <1>3, <1>4 DEF y, Puts

(* A read of n bytes from off to the start of the slot. *)
LEMMA AlignedWhole ==
    ASSUME Image(slot), slot_bytes \in Nat, size \in Int,
           NEW off \in Nat, NEW n \in Nat, n <= slot_bytes,
           NEW r \in Aligned(off, n, 0, slot_bytes)
    PROVE  /\ Image(r.slot) /\ r.got \in 0 .. n /\ r.pad \in 0 .. ALIGN - 1
           /\ r.got = n => \A x \in 0 .. n - 1 : /\ r.pad + x < slot_bytes
                                               /\ r.slot[r.pad + x] = off + x
<1> DEFINE wlo == down(off)
           wlen == up(off + n) - wlo
           wpad == off - wlo
           Got(g) == IF g >= wpad + n THEN n ELSE Max({0, g - wpad})
<1>1. ALIGN \in Nat \ {0} /\ off + n \in Nat
  BY ReadAssumption
<1>2. wlo \in Nat /\ wlo <= off /\ off < wlo + ALIGN
  BY DownIs
<1>3. up(off + n) \in Nat /\ off + n <= up(off + n)
  BY <1>1, UpIs
<1>4. wpad \in 0 .. ALIGN - 1 /\ wlo + wpad = off
  <2> HIDE DEF wlo
  <2>1. QED
    BY <1>1, <1>2
<1>5. wlen \in Nat /\ wpad + n <= wlen
  <2> HIDE DEF wlo
  <2>1. QED
    BY <1>1, <1>2, <1>3
<1>6. CASE ~direct
  <2>1. ~(slot_bytes < n)
    OBVIOUS
  <2>2. PICK g \in Transfers(off, n) : r = [got |-> g, pad |-> 0, slot |-> Stored(slot, off, g, 0)]
    BY <1>6, <2>1 DEF Aligned
  <2>3. g \in 0 .. n
    BY TransfersAre
  <2>4. /\ Image(r.slot)
        /\ \A b \in 0 .. g - 1 : 0 + b < slot_bytes => r.slot[0 + b] = off + b
    <3>1. Puts(r.slot, slot, off, g, 0)
      <4>1. r.slot = Stored(slot, off, g, 0) /\ g \in Nat /\ 0 \in Nat
        BY <2>2, <2>3
      <4>2. QED
        BY ONLY <4>1, StoredIs, Image(slot), slot_bytes \in Nat, off \in Nat
    <3>2. QED
      BY <3>1 DEF Puts
  <2>5. r.got = g /\ r.pad = 0
    BY <2>2
  <2>6. ASSUME g = n, NEW x \in 0 .. n - 1 PROVE 0 + x < slot_bytes /\ r.slot[0 + x] = off + x
    BY <2>4, <2>6
  <2>7. QED
    BY <1>1, <2>3, <2>4, <2>5, <2>6
<1>7. CASE direct /\ wlen > slot_bytes
  <2>1. r = [got |-> 0, pad |-> 0, slot |-> slot]
    BY <1>7 DEF Aligned
  <2>2. QED
    BY <1>1, <2>1
<1>8. CASE direct /\ ~(wlen > slot_bytes)
  <2>1. PICK g \in Transfers(wlo, wlen) : r = [got |-> Got(g), pad |-> wpad, slot |-> Stored(slot, wlo, g, 0)]
    BY <1>8 DEF Aligned
  <2> HIDE DEF wlo, wlen, wpad
  <2>2. g \in 0 .. wlen
    BY <1>2, <1>5, TransfersAre
  <2>3. /\ Image(r.slot)
        /\ \A b \in 0 .. g - 1 : 0 + b < slot_bytes => r.slot[0 + b] = wlo + b
    <3>1. Puts(r.slot, slot, wlo, g, 0)
      <4>1. r.slot = Stored(slot, wlo, g, 0) /\ g \in Nat /\ 0 \in Nat /\ wlo \in Nat
        BY <1>2, <1>5, <2>1, <2>2
      <4>2. QED
        BY ONLY <4>1, StoredIs, Image(slot), slot_bytes \in Nat
    <3>2. QED
      BY <3>1 DEF Puts
  <2>4. r.got = Got(g) /\ r.pad = wpad
    BY <2>1
  <2>5. Got(g) \in 0 .. n /\ (Got(g) = n => n = 0 \/ g >= wpad + n)
    <3>1. g - wpad \in Int /\ 0 \in Int
      BY <1>4, <2>2
    <3>2. Max({0, g - wpad}) = IF 0 >= g - wpad THEN 0 ELSE g - wpad
      BY ONLY <3>1, MaxTwo
    <3>3. QED
      BY <1>4, <2>2, <3>2
  <2> HIDE DEF Got
  <2>6. ASSUME r.got = n, NEW x \in 0 .. n - 1
        PROVE  r.pad + x < slot_bytes /\ r.slot[r.pad + x] = off + x
    <3>1. g >= wpad + n
      BY <2>4, <2>5, <2>6
    <3>2. PICK b \in 0 .. g - 1 : b = wpad + x /\ 0 + b < slot_bytes
      <4>1. wpad + x \in 0 .. g - 1 /\ 0 + (wpad + x) < slot_bytes
        BY <1>4, <1>5, <1>8, <2>2, <3>1
      <4>2. QED
        BY <4>1
    <3>3. r.slot[0 + b] = wlo + b
      BY <2>3, <3>2
    <3>4. 0 + b = wpad + x /\ wlo + b = off + x
      BY <1>2, <1>4, <3>2
    <3>5. QED
      BY <2>4, <3>2, <3>3, <3>4
  <2>7. QED
    BY <1>4, <2>3, <2>4, <2>5, <2>6
<1>9. QED
  BY <1>6, <1>7, <1>8

(* A read of a chunk, which begins and ends on the alignment. *)
LEMMA AlignedChunk ==
    ASSUME Image(slot), slot_bytes \in Nat, size \in Int,
           NEW off \in Nat, NEW n \in Nat, NEW pos \in Nat, Multiple(off), Multiple(n),
           NEW r \in Aligned(off, n, pos, slot_bytes - pos)
    PROVE  /\ Image(r.slot) /\ r.got \in 0 .. n
           /\ r.got = n \/ r.got = 0 \/ off + r.got = size \/ (off + r.got) % BLOCK = 0
           /\ \A x \in 0 .. r.got - 1 : pos + x < slot_bytes /\ r.slot[pos + x] = off + x
           /\ \A p \in 0 .. slot_bytes - 1 : p < pos \/ pos + n <= p => r.slot[p] = slot[p]
<1>1. down(off) = off /\ up(off + n) = off + n
  <2>1. off + n \in Nat /\ Multiple(off + n)
    BY Multiples
  <2>2. QED
    BY <2>1, OwnMultiple
<1> DEFINE cap == slot_bytes - pos
<1>2. CASE r = [got |-> 0, pad |-> 0, slot |-> slot]
  BY <1>2
<1>3. ASSUME NEW g \in Transfers(off, n), n <= cap, r.got = g, r.slot = Stored(slot, off, g, pos)
      PROVE  /\ Image(r.slot) /\ r.got \in 0 .. n
             /\ r.got = n \/ r.got = 0 \/ off + r.got = size \/ (off + r.got) % BLOCK = 0
             /\ \A x \in 0 .. r.got - 1 : pos + x < slot_bytes /\ r.slot[pos + x] = off + x
             /\ \A p \in 0 .. slot_bytes - 1 : p < pos \/ pos + n <= p => r.slot[p] = slot[p]
  <2>1. g \in 0 .. n /\ (g = n \/ g = 0 \/ off + g = size \/ (off + g) % BLOCK = 0)
    BY TransfersAre
  <2>2. /\ Image(r.slot)
        /\ \A b \in 0 .. g - 1 : pos + b < slot_bytes => r.slot[pos + b] = off + b
        /\ \A p \in 0 .. slot_bytes - 1 : p < pos \/ pos + g <= p => r.slot[p] = slot[p]
    <3>1. Puts(r.slot, slot, off, g, pos)
      <4>1. r.slot = Stored(slot, off, g, pos) /\ g \in Nat
        BY <1>3, <2>1
      <4>2. QED
        BY ONLY <4>1, StoredIs, Image(slot), slot_bytes \in Nat, off \in Nat, pos \in Nat
    <3>2. QED
      BY <3>1 DEF Puts
  <2>3. \A x \in 0 .. g - 1 : pos + x < slot_bytes
    BY <1>3, <2>1
  <2>4. \A p \in Int : pos + n <= p => pos + g <= p
    BY <2>1
  <2>5. QED
    BY <1>3, <2>1, <2>2, <2>3, <2>4
<1>4. CASE ~direct /\ ~(cap < n)
  <2>1. PICK g \in Transfers(off, n) : r = [got |-> g, pad |-> 0, slot |-> Stored(slot, off, g, pos)]
    BY <1>4 DEF Aligned
  <2>2. n <= cap
    BY <1>4
  <2>3. QED
    BY <1>3, <2>1, <2>2
<1>5. CASE direct /\ ~(up(off + n) - down(off) > cap)
  <2> DEFINE Got(g) == IF g >= (off - down(off)) + n THEN n ELSE Max({0, g - (off - down(off))})
  <2>1. PICK g \in Transfers(down(off), up(off + n) - down(off)) :
           r = [got |-> Got(g), pad |-> off - down(off), slot |-> Stored(slot, down(off), g, pos)]
    BY <1>5 DEF Aligned
  <2>2. up(off + n) - down(off) = n /\ off - down(off) = 0 /\ n <= cap
    BY <1>1, <1>5
  <2>3. g \in Transfers(off, n) /\ r.slot = Stored(slot, off, g, pos) /\ r.got = Got(g)
    BY <1>1, <2>1, <2>2
  <2>4. g \in 0 .. n
    BY <2>3, TransfersAre
  <2>5. Got(g) = g
    <3>1. Max({0, g}) = IF 0 >= g THEN 0 ELSE g
      BY <2>4, MaxTwo
    <3>2. g - (off - down(off)) = g /\ (off - down(off)) + n = n
      BY <2>2, <2>4
    <3>3. QED
      BY <2>4, <3>1, <3>2
  <2>6. QED
    BY <1>3, <2>2, <2>3, <2>5
<1>6. r = [got |-> 0, pad |-> 0, slot |-> slot] \/ (~direct /\ ~(cap < n))
      \/ (direct /\ ~(up(off + n) - down(off) > cap))
  BY DEF Aligned
<1>7. QED
  BY <1>2, <1>4, <1>5, <1>6

(* Parts that are no single run, each stored in its place. *)
LEMMA FilledIs ==
    ASSUME Ready, Found, Laid(ref), ~ref.contiguous, Image(slot), slot_bytes \in Nat,
           ref.nbytes <= slot_bytes, NEW g, \A i \in Ps : g[i] \in 0 .. bytes(i)
    PROVE  /\ Image(Filled(g))
           /\ \A i \in Ps : \A b \in 0 .. g[i] - 1 :
                 /\ ref.at[i] + b < slot_bytes
                 /\ Filled(g)[ref.at[i] + b] = part(i).off + b
<1> DEFINE N == Len(Parts)
           S == [0 .. slot_bytes - 1 -> Int]
           Put(x, k) == Stored(x, part(k).off, g[k], ref.at[k])
           rec == [q \in S \X (1 .. N) |-> Put(q[1], q[2])]
           D(h) == [i \in 0 .. Len(Parts) |->
                      IF i = 0 THEN slot ELSE Stored(h[i - 1], part(i).off, g[i], ref.at[i])]
<1>1. N \in Nat \ {0} /\ Ps = 1 .. N
  BY PartsAre
<1>2. ASSUME NEW i \in 1 .. N
      PROVE  /\ part(i).off \in Nat /\ bytes(i) \in Nat /\ g[i] \in Nat /\ g[i] <= bytes(i)
             /\ ref.at[i] = Total(Lengths, i - 1) /\ ref.at[i] \in Nat
             /\ ref.at[i] + bytes(i) <= slot_bytes
             /\ \A j \in 1 .. i - 1 : ref.at[j] + bytes(j) <= ref.at[i]
  <2>1. part(i).off \in Nat /\ bytes(i) \in Nat /\ g[i] \in 0 .. bytes(i)
    BY <1>1, PartIs
  <2>2. \A j \in 1 .. N : ref.at[j] = Total(Lengths, j - 1)
    BY <1>1 DEF Laid
  <2>3. i - 1 \in 0 .. N /\ N \in 0 .. N
    BY <1>1
  <2>4. /\ Total(Lengths, i - 1) \in Nat
        /\ \A j \in 1 .. i - 1 : Total(Lengths, j - 1) + bytes(j) <= Total(Lengths, i - 1)
        /\ Total(Lengths, i - 1) + bytes(i) <= Total(Lengths, N)
    BY <2>3, LengthsAre
  <2>5. Total(Lengths, N) = ref.nbytes /\ ref.nbytes \in Nat
    BY DEF Laid
  <2>6. \A j \in 1 .. i - 1 : ref.at[j] + bytes(j) <= ref.at[i]
    <3> SUFFICES ASSUME NEW j \in 1 .. i - 1 PROVE ref.at[j] + bytes(j) <= ref.at[i]
      OBVIOUS
    <3>1. j \in 1 .. N
      BY <1>1
    <3>2. QED
      BY <2>2, <2>4, <3>1
  <2>7. ref.at[i] + bytes(i) <= slot_bytes
    <3>1. ref.at[i] = Total(Lengths, i - 1)
      BY <2>2
    <3>2. QED
      BY <2>1, <2>4, <2>5, <3>1
  <2>8. QED
    BY <2>1, <2>2, <2>4, <2>6, <2>7
<1>3. ASSUME NEW x \in S, NEW k \in 1 .. N
      PROVE  Put(x, k) \in S /\ Puts(Put(x, k), x, part(k).off, g[k], ref.at[k])
  <2>1. Image(x)
    BY DEF Image
  <2>2. part(k).off \in Nat /\ g[k] \in Nat /\ ref.at[k] \in Nat
    BY <1>2
  <2>3. Puts(Put(x, k), x, part(k).off, g[k], ref.at[k])
    BY ONLY <2>1, <2>2, slot_bytes \in Nat, StoredIs
  <2>4. QED
    BY <2>3 DEF Puts, Image
<1>4. rec \in [S \X (1 .. N) -> S] /\ slot \in S
  <2>1. slot \in S
    BY DEF Image
  <2> HIDE DEF S, Put, N
  <2>2. QED
    BY <1>3, <2>1
<1>5. PICK s \in [0 .. N -> S] : Recurs(s, N, slot, rec)
  <2> HIDE DEF rec, S, N
  <2>1. QED
    BY <1>1, <1>4, Recursion
<1>6. s = D(s)
  <2>1. ASSUME NEW k \in 1 .. N PROVE s[k] = Put(s[k - 1], k)
    <3>1. s[k] = rec[<<s[k - 1], k>>]
      BY <1>5 DEF Recurs
    <3>2. k - 1 \in 0 .. N
      BY <1>1
    <3> HIDE DEF Put, S, N
    <3>3. QED
      BY <3>1, <3>2
  <2>2. s[0] = slot
    BY <1>5 DEF Recurs
  <2>3. QED
    BY <2>1, <2>2
<1> DEFINE c == CHOOSE h : h = D(h)
<1>7. c = D(c)
  <2> HIDE DEF D
  <2>1. QED
    BY <1>6
<1>8. Filled(g) = c[N]
  BY DEF Filled
<1> HIDE DEF c, rec
<1>9. c[0] = slot /\ \A k \in 1 .. N : c[k] = Put(c[k - 1], k)
  <2>1. ASSUME NEW k \in 1 .. N PROVE c[k] = Put(c[k - 1], k)
    <3>1. k \in 0 .. Len(Parts) /\ k # 0
      BY <1>1
    <3>2. QED
      BY ONLY <1>7, <3>1
  <2>2. c[0] = slot
    <3>1. 0 \in 0 .. Len(Parts)
      BY <1>1
    <3>2. QED
      BY ONLY <1>7, <3>1
  <2> HIDE DEF D
  <2>3. QED
    BY <2>1, <2>2
<1> HIDE DEF D
<1> DEFINE There(k) == \A i \in 1 .. k : \A b \in 0 .. g[i] - 1 :
                          /\ ref.at[i] + b < slot_bytes
                          /\ c[k][ref.at[i] + b] = part(i).off + b
           A == {k \in 0 .. N : c[k] \in S /\ There(k)}
<1>10. 0 \in A
  BY <1>1, <1>4, <1>9
<1>11. ASSUME NEW k \in 1 .. N, k - 1 \in A PROVE k \in A
  <2>1. c[k - 1] \in S /\ There(k - 1)
    BY <1>11
  <2>2. c[k] \in S /\ Puts(c[k], c[k - 1], part(k).off, g[k], ref.at[k])
    <3> HIDE DEF S, Put
    <3>1. QED
      BY <1>3, <1>9, <2>1
  <2>3. ASSUME NEW i \in 1 .. k, NEW b \in 0 .. g[i] - 1
        PROVE  ref.at[i] + b < slot_bytes /\ c[k][ref.at[i] + b] = part(i).off + b
    <3>1. /\ i \in 1 .. N /\ ref.at[i] \in Nat /\ bytes(i) \in Nat /\ g[i] \in Nat /\ g[i] <= bytes(i)
          /\ ref.at[i] + bytes(i) <= slot_bytes
      BY <1>1, <1>2
    <3>2. ref.at[i] + b < slot_bytes /\ ref.at[i] + b < ref.at[i] + bytes(i) /\ ref.at[i] + b \in 0 .. slot_bytes - 1
      <4> DEFINE a == ref.at[i]
                 l == bytes(i)
                 u == g[i]
      <4>1. a \in Nat /\ l \in Nat /\ u \in Nat /\ u <= l /\ a + l <= slot_bytes /\ b \in 0 .. u - 1
        BY <3>1
      <4> HIDE DEF a, l, u
      <4>2. a + b < slot_bytes /\ a + b < a + l /\ a + b \in 0 .. slot_bytes - 1
        BY <4>1
      <4>3. QED
        BY <4>2 DEF a, l
    <3>3. CASE i = k
      <4>1. c[k][ref.at[i] + b] = part(i).off + b
        BY <2>2, <3>2, <3>3 DEF Puts
      <4>2. QED
        BY <3>2, <4>1
    <3>4. CASE i # k
      <4>1. i \in 1 .. k - 1
        BY <1>1, <3>4
      <4>2. ref.at[i] + bytes(i) <= ref.at[k] /\ ref.at[k] \in Nat
        BY <1>2, <4>1
      <4>3. ref.at[i] + b < ref.at[k]
        <5> DEFINE a == ref.at[i]
                   l == bytes(i)
                   z == ref.at[k]
        <5>1. a \in Nat /\ l \in Nat /\ z \in Nat /\ a + b < a + l /\ a + l <= z /\ a + b \in Int
          BY <3>1, <3>2, <4>2
        <5> HIDE DEF a, l, z
        <5>2. a + b < z
          BY ONLY <5>1
        <5>3. QED
          BY <5>2 DEF a, z
      <4>4. c[k][ref.at[i] + b] = c[k - 1][ref.at[i] + b]
        BY <2>2, <3>2, <4>3 DEF Puts
      <4>5. c[k - 1][ref.at[i] + b] = part(i).off + b
        BY <2>1, <4>1
      <4>6. QED
        BY <3>2, <4>4, <4>5
    <3>5. QED
      BY <3>3, <3>4
  <2>4. There(k) /\ k \in 0 .. N
    BY <1>1, <2>3
  <2> HIDE DEF There, S
  <2>5. QED
    BY <2>2, <2>4
<1>12. \A k \in 0 .. N : k \in A
  <2> HIDE DEF A, N
  <2>1. QED
    BY <1>1, <1>10, <1>11, Rises
<1>13. c[N] \in S /\ There(N)
  <2>1. N \in 0 .. N
    BY <1>1
  <2> HIDE DEF There, S, N
  <2>2. QED
    BY <1>12, <2>1
<1>14. Image(Filled(g))
  BY <1>8, <1>13 DEF Image
<1>15. QED
  BY <1>1, <1>8, <1>13, <1>14

-----------------------------------------------------------------------------
(* The inductive invariant. *)

Arrived ==
    \A i \in Ps : \A b \in 0 .. bytes(i) - 1 :
        /\ pad + ref.at[i] + b \in DOMAIN slot
        /\ slot[pad + ref.at[i] + b] = part(i).off + b

(* What a chunk is asked for, and what its read has left behind: a transfer *)
(* that stops early does so where a pread can.                              *)
Ask(k) == Min({len - k * chunk, chunk})
ChunkRead(k) ==
    /\ cgot[k] \in 0 .. Ask(k)
    /\ \/ cgot[k] = Ask(k) \/ cgot[k] = 0 \/ lo + k * chunk + cgot[k] = size
       \/ (lo + k * chunk + cgot[k]) % BLOCK = 0
    /\ \A x \in 0 .. cgot[k] - 1 :
          k * chunk + x < slot_bytes /\ slot[k * chunk + x] = lo + k * chunk + x

Reading == stage \in {"read", "served", "short"}

StageInv ==
    /\ stage \in {"refer", "plan", "read", "served", "short", "dropped"}
    /\ stage \notin {"refer", "dropped"} =>
          st = "open" /\ Found /\ Laid(ref) /\ ref.nbytes <= slot_bytes
    /\ ~Reading => nchunk = 0 /\ chunk = 0 /\ pad = 0 /\ cgot = <<>>

WindowInv ==
    Reading =>
        /\ nchunk \in Nat /\ nchunk * nw <= ITEMS
        /\ cgot \in [0 .. nchunk - 1 -> Nat \cup {NotRead}]
        /\ pad \in 0 .. ALIGN - 1 /\ chunk \in Nat /\ Multiple(chunk)
        /\ nchunk # 1 => ref.contiguous /\ pad = ref.off - lo /\ Divided(len, chunk, nchunk)

ReadInv ==
    Reading =>
        /\ nchunk = 1 /\ cgot[0] # NotRead =>
              cgot[0] <= ref.nbytes /\ (cgot[0] = ref.nbytes => Arrived)
        /\ nchunk # 1 => \A k \in 0 .. nchunk - 1 : cgot[k] # NotRead => ChunkRead(k)

EndInv ==
    /\ stage \in {"served", "short"} => \A k \in 0 .. nchunk - 1 : cgot[k] # NotRead
    /\ stage = "served" => Covered
    /\ stage = "short" => ~Covered

FetchInv == Given /\ IndexInv /\ Image(slot) /\ StageInv /\ WindowInv /\ ReadInv /\ EndInv

LEMMA Starts ==
    ASSUME ReadInit
    PROVE  FetchInv
<1>1. ALIGN \in Nat \ {0} /\ Chunks \subseteq Nat \ {0} /\ Probes \subseteq Nat /\ Batches \subseteq 1 .. ITEMS
  BY ReadAssumption
<1>2. Given
  <2>1. PICK c \in Chunks : chunk_bytes = up(c)
    BY DEF ReadInit
  <2>2. PICK p \in Probes : slot_bytes = up(p + 2 * ALIGN)
    BY DEF ReadInit
  <2>3. c \in Nat \ {0} /\ p + 2 * ALIGN \in Nat
    BY <1>1, <2>1, <2>2
  <2>4. up(c) \in Nat /\ Multiple(up(c)) /\ c <= up(c) /\ up(p + 2 * ALIGN) \in Nat
    BY <2>3, UpIs
  <2>5. nw \in 1 .. ITEMS
    BY <1>1 DEF ReadInit
  <2>6. up(c) # 0
    BY <2>3, <2>4
  <2>7. QED
    BY <2>1, <2>2, <2>4, <2>5, <2>6 DEF Given
<1>3. IndexInv
  BY DEF ReadInit, CheckpointInit, IndexInv
<1>4. Image(slot)
  BY DEF ReadInit, Image, Stale
<1>5. stage = "refer" /\ nchunk = 0 /\ chunk = 0 /\ pad = 0 /\ cgot = <<>>
  BY DEF ReadInit
<1>6. QED
  BY <1>2, <1>3, <1>4, <1>5 DEF FetchInv, StageInv, Reading, WindowInv, ReadInv, EndInv

(* While the index stands, so do the tensors and the layout it gives.       *)
LEMMA Same ==
    ASSUME UNCHANGED checkpoint
    PROVE  /\ \A i : part(i)' = part(i) /\ bytes(i)' = bytes(i)
           /\ Lengths' = Lengths /\ Found' = Found
<1>1. disk' = disk /\ t' = t /\ bucket' = bucket
  BY DEF checkpoint
<1>2. \A name : find(name)' = find(name)
  BY <1>1 DEF find
<1>3. ASSUME NEW i PROVE part(i)' = part(i) /\ bytes(i)' = bytes(i)
  BY <1>1, <1>2 DEF part, bytes
<1>4. Lengths' = Lengths
  BY <1>3 DEF Lengths
<1>5. Found' = Found
  BY <1>2, <1>3 DEF Found
<1>6. QED
  BY <1>3, <1>4, <1>5

LEMMA SameIndex ==
    ASSUME UNCHANGED checkpoint, IndexInv
    PROVE  IndexInv'
<1>1. disk' = disk /\ st' = st /\ t' = t /\ bucket' = bucket
  BY DEF checkpoint
<1>2. Readable' <=> Readable
  BY <1>1 DEF Readable, Scans, HeaderFits, Sane, Swept, Orders
<1>3. InOrder(t, Shards)' <=> InOrder(t, Shards)
  BY <1>1 DEF InOrder, Made
<1>4. Placed(t, bucket, Buckets(Len(t)), Len(t))' <=> Placed(t, bucket, Buckets(Len(t)), Len(t))
  BY <1>1
<1>5. Ready' <=> Ready
  BY <1>2, <1>3, <1>4 DEF Ready
<1>6. QED
  BY <1>1, <1>5 DEF IndexInv

LEMMA SameLayout ==
    ASSUME UNCHANGED checkpoint, ref' = ref, Laid(ref)
    PROVE  Laid(ref)'
<1>1. disk' = disk /\ Lengths' = Lengths /\ \A i : part(i)' = part(i) /\ bytes(i)' = bytes(i)
  BY Same DEF checkpoint
<1>2. \A n : Total(Lengths, n)' = Total(Lengths, n)
  BY <1>1
<1>3. QED
  BY <1>1, <1>2 DEF Laid

(* What is only moved on keeps every part of the invariant. *)
LEMMA Stays ==
    ASSUME FetchInv, UNCHANGED <<given, checkpoint, ref>>
    PROVE  /\ Given' /\ IndexInv' /\ Found' = Found /\ (Laid(ref) => Laid(ref)')
           /\ lo' = lo /\ len' = len /\ size' = size
           /\ Image(slot)' = Image(slot')
<1>1. disk' = disk /\ ref' = ref /\ chunk_bytes' = chunk_bytes /\ nw' = nw /\ slot_bytes' = slot_bytes
  BY DEF checkpoint, given
<1>2. lo' = lo /\ len' = len /\ size' = size
  BY <1>1 DEF lo, len, size, down, up
<1>3. Given'
  BY <1>1 DEF FetchInv, Given
<1>4. Found' = Found /\ IndexInv' /\ (Laid(ref) => Laid(ref)')
  BY <1>1, Same, SameIndex, SameLayout DEF FetchInv
<1>5. QED
  BY <1>1, <1>2, <1>3, <1>4 DEF Image

LEMMA OpensStep ==
    ASSUME FetchInv, Opens
    PROVE  FetchInv'
<1>1. st = "closed" /\ Open /\ UNCHANGED <<given, stage, ref, pad, chunk, nchunk, cgot, slot>>
  BY DEF Opens, Open
<1>2. stage \in {"refer", "dropped"} /\ nchunk = 0 /\ chunk = 0 /\ pad = 0 /\ cgot = <<>>
  BY <1>1 DEF FetchInv, StageInv, Reading
<1>3. Given'
  BY <1>1 DEF FetchInv, Given, given
<1>4. IndexInv'
  BY <1>1, Opened DEF FetchInv
<1>5. Image(slot)'
  BY <1>1 DEF FetchInv, Image, given
<1>6. QED
  BY <1>1, <1>2, <1>3, <1>4, <1>5 DEF FetchInv, StageInv, Reading, WindowInv, ReadInv, EndInv

LEMMA ReferStep ==
    ASSUME FetchInv, Refer
    PROVE  FetchInv'
<1>1. /\ st = "open" /\ stage = "refer" /\ UNCHANGED checkpoint /\ UNCHANGED given
      /\ pad' = pad /\ chunk' = chunk /\ nchunk' = nchunk /\ cgot' = cgot /\ slot' = slot
  BY DEF Refer
<1>2. nchunk = 0 /\ chunk = 0 /\ pad = 0 /\ cgot = <<>>
  BY <1>1 DEF FetchInv, StageInv, Reading
<1>3. Given' /\ IndexInv' /\ Image(slot)'
  BY <1>1, SameIndex DEF FetchInv, Given, given, Image
<1>4. CASE Found /\ Layout.nbytes <= slot_bytes
  <2>1. ref' = Layout /\ stage' = "plan" /\ st' = "open" /\ slot_bytes' = slot_bytes
    BY <1>1, <1>4 DEF Refer, checkpoint, given
  <2>2. Laid(Layout)
    BY <1>1, <1>4, LayoutIs DEF FetchInv, IndexInv
  <2>3. Found' /\ Laid(ref)'
    <3>1. disk' = disk /\ Found' = Found /\ Lengths' = Lengths
          /\ \A i : part(i)' = part(i) /\ bytes(i)' = bytes(i)
      BY <1>1, Same DEF checkpoint
    <3> DEFINE ly == Layout
    <3>2. ref' = ly /\ Laid(ly)
      BY <2>1, <2>2
    <3> HIDE DEF ly
    <3>3. QED
      BY <1>4, <3>1, <3>2 DEF Laid
  <2>4. (ref.nbytes)' <= slot_bytes'
    BY <1>4, <2>1
  <2>5. QED
    BY <1>1, <1>2, <1>3, <2>1, <2>3, <2>4 DEF FetchInv, StageInv, Reading, WindowInv, ReadInv, EndInv
<1>5. CASE ~(Found /\ Layout.nbytes <= slot_bytes)
  <2>1. stage' = "dropped"
    BY <1>5 DEF Refer
  <2>2. QED
    BY <1>1, <1>2, <1>3, <2>1 DEF FetchInv, StageInv, Reading, WindowInv, ReadInv, EndInv
<1>6. QED
  BY <1>4, <1>5

LEMMA PlanStep ==
    ASSUME FetchInv, Plan
    PROVE  FetchInv'
<1> DEFINE tiles == IF batched /\ ref.contiguous THEN Tiling(len)
                    ELSE [size |-> chunk_bytes, count |-> 1]
           c == tiles.count
           w == tiles.size
<1>1. /\ stage = "plan" /\ stage' = "read" /\ UNCHANGED <<checkpoint, given, ref, slot>>
      /\ chunk' = w /\ nchunk' = c /\ cgot' = [k \in 0 .. c - 1 |-> NotRead]
      /\ pad' = IF batched /\ ref.contiguous THEN ref.off - lo ELSE 0
  BY DEF Plan
<1>2. st = "open" /\ Found /\ Laid(ref) /\ ref.nbytes <= slot_bytes /\ Given /\ Image(slot)
  BY <1>1 DEF FetchInv, StageInv
<1>3. /\ Given' /\ IndexInv' /\ Found' = Found /\ Laid(ref)'
      /\ lo' = lo /\ len' = len /\ Image(slot)'
      /\ nw' = nw /\ slot_bytes' = slot_bytes /\ ref' = ref /\ st' = st
  BY <1>1, <1>2, Stays DEF Image, given, checkpoint
<1>4. /\ lo \in Nat /\ lo <= ref.off /\ ref.off < lo + ALIGN /\ len \in Nat
  BY <1>2, WindowIs
<1>5. ref.off \in Nat /\ ALIGN \in Nat \ {0} /\ nw \in Nat /\ nw <= ITEMS /\ ITEMS \in Nat
      /\ chunk_bytes \in Nat \ {0} /\ Multiple(chunk_bytes)
  BY <1>2, ReadAssumption DEF Laid, Given
<1>6. /\ c \in Nat /\ c * nw <= ITEMS /\ w \in Nat /\ Multiple(w)
      /\ c # 1 => batched /\ ref.contiguous /\ Divided(len, w, c)
  <2>1. CASE batched /\ ref.contiguous
    <3>1. Divided(len, Tiling(len).size, Tiling(len).count)
      BY <1>2, <1>4, TilingIs
    <3>2. Divided(len, w, c)
      BY <2>1, <3>1
    <3> HIDE DEF c, w
    <3>3. QED
      BY <2>1, <3>2 DEF Divided
  <2>2. CASE ~(batched /\ ref.contiguous)
    <3>1. c = 1 /\ w = chunk_bytes
      BY <2>2
    <3>2. 1 * nw = nw
      BY <1>5
    <3> HIDE DEF c, w
    <3>3. QED
      BY <1>5, <3>1, <3>2
  <2>3. QED
    BY <2>1, <2>2
<1> HIDE DEF c, w, tiles
<1>7. WindowInv'
  <2>1. pad' \in 0 .. ALIGN - 1
    BY <1>1, <1>4, <1>5
  <2>2. cgot' \in [0 .. nchunk' - 1 -> Nat \cup {NotRead}]
    BY <1>1
  <2>3. nchunk' # 1 => (ref.contiguous)' /\ pad' = (ref.off - lo)' /\ Divided(len, chunk, nchunk)'
    <3>1. ASSUME c # 1 PROVE Divided(len, chunk, nchunk)'
      BY <1>1, <1>3, <1>6, <3>1 DEF Divided
    <3>2. QED
      BY <1>1, <1>3, <1>6, <3>1
  <2>4. nchunk' \in Nat /\ (nchunk * nw)' <= ITEMS /\ chunk' \in Nat /\ Multiple(chunk)'
    BY <1>1, <1>3, <1>6
  <2>5. QED
    BY <2>1, <2>2, <2>3, <2>4 DEF WindowInv
<1>8. ReadInv'
  <2>1. \A k \in 0 .. nchunk' - 1 : cgot'[k] = NotRead
    BY <1>1
  <2>2. nchunk' = 1 => 0 \in 0 .. nchunk' - 1
    OBVIOUS
  <2>3. QED
    BY <2>1, <2>2 DEF ReadInv
<1>9. StageInv' /\ EndInv'
  BY <1>1, <1>2, <1>3 DEF StageInv, Reading, EndInv
<1>10. QED
  BY <1>3, <1>7, <1>8, <1>9 DEF FetchInv

(* The one read of an expert that is a single run. *)
LEMMA WholeStep ==
    ASSUME FetchInv, ReadWhole
    PROVE  FetchInv'
<1>1. PICK r \in Aligned(ref.off, ref.nbytes, 0, slot_bytes) :
          cgot' = [cgot EXCEPT ![0] = r.got] /\ pad' = r.pad /\ slot' = r.slot
  BY DEF ReadWhole
<1>2. /\ stage = "read" /\ nchunk = 1 /\ ref.contiguous /\ cgot[0] = NotRead
      /\ UNCHANGED <<checkpoint, given, stage, ref, chunk, nchunk>>
  BY DEF ReadWhole
<1>3. /\ st = "open" /\ Found /\ Laid(ref) /\ ref.nbytes <= slot_bytes /\ Given /\ Image(slot)
      /\ WindowInv /\ Ready
  BY <1>2 DEF FetchInv, StageInv, IndexInv
<1>4. /\ Given' /\ IndexInv' /\ Found' = Found /\ Laid(ref)' /\ Image(slot)' = Image(slot')
      /\ slot_bytes' = slot_bytes /\ ref' = ref /\ st' = st /\ stage' = stage
      /\ chunk' = chunk /\ nchunk' = nchunk /\ nw' = nw
      /\ \A i : part(i)' = part(i) /\ bytes(i)' = bytes(i)
  BY <1>2, <1>3, Stays, Same DEF given, checkpoint
<1>5. /\ ref.off \in Nat /\ ref.nbytes \in Nat /\ slot_bytes \in Nat /\ size \in Int
  <2>1. disk[ref.shard].size \in Nat
    BY <1>3, CheckpointAssumption DEF Laid, FetchInv, IndexInv
  <2>2. QED
    BY <1>3, <2>1 DEF Laid, Given, size
<1>6. /\ Image(r.slot) /\ r.got \in 0 .. ref.nbytes /\ r.pad \in 0 .. ALIGN - 1
      /\ r.got = ref.nbytes => \A x \in 0 .. ref.nbytes - 1 :
            r.pad + x < slot_bytes /\ r.slot[r.pad + x] = ref.off + x
  BY <1>3, <1>5, AlignedWhole
<1>7. /\ nchunk \in Nat /\ nchunk * nw <= ITEMS /\ chunk \in Nat /\ Multiple(chunk)
      /\ cgot \in [0 .. 0 -> Nat \cup {NotRead}]
  BY <1>2, <1>3 DEF WindowInv, Reading
<1>8. cgot' \in [0 .. 0 -> Nat \cup {NotRead}] /\ cgot'[0] = r.got
  BY <1>1, <1>5, <1>6, <1>7
<1>9. WindowInv'
  <2>1. 0 .. nchunk' - 1 = 0 .. 0
    BY <1>2, <1>4
  <2>2. QED
    BY <1>1, <1>2, <1>4, <1>6, <1>7, <1>8, <2>1 DEF WindowInv
<1>10. ASSUME r.got = ref.nbytes PROVE Arrived'
  <2> SUFFICES ASSUME NEW i \in Ps, NEW b \in 0 .. bytes(i) - 1
               PROVE  /\ r.pad + ref.at[i] + b \in DOMAIN slot'
                      /\ slot'[r.pad + ref.at[i] + b] = part(i).off + b
    BY <1>1, <1>4 DEF Arrived
  <2>1. /\ part(i).off \in Nat /\ bytes(i) \in Nat /\ ref.off <= part(i).off
        /\ part(i).off + bytes(i) <= ref.off + ref.nbytes /\ ref.at[i] = part(i).off - ref.off
    BY <1>2, <1>3, PartIs DEF Laid
  <2>2. PICK x \in 0 .. ref.nbytes - 1 : x = ref.at[i] + b /\ ref.off + x = part(i).off + b
    BY <1>5, <2>1
  <2>3. r.pad + x < slot_bytes /\ r.slot[r.pad + x] = ref.off + x
    BY <1>6, <1>10
  <2>4. ALIGN \in Nat
    BY ReadAssumption
  <2>5. ref.at[i] \in Int
    BY <1>5, <2>1
  <2>6. r.pad + ref.at[i] + b = r.pad + x /\ r.pad + x \in 0 .. slot_bytes - 1
    BY <1>5, <1>6, <2>2, <2>3, <2>4, <2>5
  <2>7. DOMAIN slot' = 0 .. slot_bytes - 1
    BY <1>1, <1>6 DEF Image
  <2>8. QED
    BY <1>1, <2>2, <2>3, <2>6, <2>7
<1>11. ReadInv'
  BY <1>2, <1>4, <1>5, <1>6, <1>8, <1>10 DEF ReadInv
<1>12. StageInv' /\ EndInv'
  BY <1>2, <1>3, <1>4 DEF StageInv, Reading, EndInv
<1>13. QED
  BY <1>1, <1>4, <1>6, <1>9, <1>11, <1>12 DEF FetchInv

(* The reads of an expert in parts, one after the other. *)
LEMMA ScatteredStep ==
    ASSUME FetchInv, ReadScattered
    PROVE  FetchInv'
<1>1. PICK g \in [Ps -> 0 .. slot_bytes] :
          /\ \A i \in Ps : g[i] \in Transfers(part(i).off, bytes(i))
          /\ cgot' = [cgot EXCEPT ![0] = Total(g, Len(Parts))] /\ slot' = Filled(g)
  BY DEF ReadScattered
<1>2. /\ stage = "read" /\ ~ref.contiguous /\ cgot[0] = NotRead /\ pad' = 0
      /\ UNCHANGED <<checkpoint, given, stage, ref, chunk, nchunk>>
  BY DEF ReadScattered
<1>3. /\ st = "open" /\ Found /\ Laid(ref) /\ ref.nbytes <= slot_bytes /\ Given /\ Image(slot)
      /\ WindowInv /\ Ready
  BY <1>2 DEF FetchInv, StageInv, IndexInv
<1>4. /\ Given' /\ IndexInv' /\ Found' = Found /\ Laid(ref)' /\ Image(slot)' = Image(slot')
      /\ slot_bytes' = slot_bytes /\ ref' = ref /\ st' = st /\ stage' = stage
      /\ chunk' = chunk /\ nchunk' = nchunk /\ nw' = nw
      /\ \A i : part(i)' = part(i) /\ bytes(i)' = bytes(i)
  BY <1>2, <1>3, Stays, Same DEF given, checkpoint
<1>5. nchunk = 1 /\ nchunk * nw <= ITEMS /\ chunk \in Nat /\ Multiple(chunk)
      /\ cgot \in [0 .. nchunk - 1 -> Nat \cup {NotRead}]
  BY <1>2, <1>3 DEF WindowInv, Reading
<1>6. slot_bytes \in Nat /\ size \in Int /\ ref.nbytes \in Nat
  <2>1. disk[ref.shard].size \in Nat
    BY <1>3, CheckpointAssumption DEF Laid, FetchInv, IndexInv
  <2>2. QED
    BY <1>3, <2>1 DEF Laid, Given, size
<1>7. \A i \in Ps : part(i).off \in Nat /\ bytes(i) \in Nat /\ g[i] \in 0 .. bytes(i)
  BY <1>1, <1>3, <1>6, PartIs, TransfersAre
<1>8. /\ Image(slot')
      /\ \A i \in Ps : \A b \in 0 .. g[i] - 1 :
            ref.at[i] + b < slot_bytes /\ slot'[ref.at[i] + b] = part(i).off + b
  BY <1>1, <1>2, <1>3, <1>6, <1>7, FilledIs
<1> DEFINE N == Len(Parts)
<1>9. N \in Nat \ {0} /\ Ps = 1 .. N
  BY PartsAre
<1>10. /\ \A i \in 1 .. N : Lengths[i] = bytes(i) /\ Lengths[i] \in Nat
       /\ Total(Lengths, N) = ref.nbytes
  BY <1>3, LengthsAre DEF Laid
<1>11. /\ Total(g, N) \in Nat
       /\ \A i \in 1 .. N : Total(g, N) + (bytes(i) - g[i]) <= ref.nbytes
  <2>1. \A i \in 1 .. N : g[i] \in Nat /\ Lengths[i] \in Nat /\ g[i] <= Lengths[i]
    BY <1>7, <1>9, <1>10
  <2>2. Total(g, N) \in Nat
    <3>1. N \in Nat /\ N \in 0 .. N
      BY <1>9
    <3> HIDE DEF N
    <3>2. QED
      BY <2>1, <3>1, TotalGrows
  <2>3. ASSUME NEW i \in 1 .. N PROVE Total(g, N) + (bytes(i) - g[i]) <= ref.nbytes
    <3>1. \A k \in 1 .. N : g[k] \in Int /\ Lengths[k] \in Int /\ g[k] <= Lengths[k]
      BY <2>1
    <3>2. N \in Nat
      BY <1>9
    <3> HIDE DEF N
    <3>3. Total(g, N) + (Lengths[i] - g[i]) <= Total(Lengths, N)
      BY <3>1, <3>2, TotalBelow
    <3>4. QED
      BY <1>10, <3>3
  <2>4. QED
    BY <2>2, <2>3
<1> HIDE DEF N
<1>12. Total(g, N) <= ref.nbytes
  <2>1. 1 \in 1 .. N /\ 1 \in Ps
    BY <1>9
  <2>2. bytes(1) \in Nat /\ g[1] \in 0 .. bytes(1) /\ Total(g, N) + (bytes(1) - g[1]) <= ref.nbytes
    BY <1>7, <1>11, <2>1
  <2>3. QED
    BY <1>6, <1>11, <2>2
<1>13. cgot' \in [0 .. nchunk - 1 -> Nat \cup {NotRead}] /\ cgot'[0] = Total(g, N)
  BY <1>1, <1>5, <1>11 DEF N
<1>14. WindowInv'
  <2>1. 0 \in 0 .. ALIGN - 1
    BY ReadAssumption
  <2>2. QED
    BY <1>2, <1>4, <1>5, <1>13, <2>1 DEF WindowInv
<1>15. ASSUME Total(g, N) = ref.nbytes PROVE Arrived'
  <2> SUFFICES ASSUME NEW i \in Ps, NEW b \in 0 .. bytes(i) - 1
               PROVE  /\ 0 + ref.at[i] + b \in DOMAIN slot'
                      /\ slot'[0 + ref.at[i] + b] = part(i).off + b
    BY <1>2, <1>4 DEF Arrived
  <2>1. bytes(i) \in Nat /\ g[i] \in 0 .. bytes(i) /\ Total(g, N) + (bytes(i) - g[i]) <= ref.nbytes
    BY <1>7, <1>9, <1>11
  <2>2. g[i] = bytes(i)
    BY <1>6, <1>15, <2>1
  <2>3. ref.at[i] + b < slot_bytes /\ slot'[ref.at[i] + b] = part(i).off + b
    BY <1>8, <2>2
  <2>4. ref.at[i] \in Nat
    <3>1. ref.at[i] = Total(Lengths, i - 1) /\ i - 1 \in 0 .. N
      BY <1>2, <1>3, <1>9 DEF Laid
    <3>2. QED
      BY <1>3, <3>1, LengthsAre DEF N
  <2>5. 0 + ref.at[i] + b = ref.at[i] + b /\ ref.at[i] + b \in 0 .. slot_bytes - 1
    BY <1>6, <2>1, <2>3, <2>4
  <2>6. DOMAIN slot' = 0 .. slot_bytes - 1
    BY <1>8 DEF Image
  <2>7. QED
    BY <2>3, <2>5, <2>6
<1>16. ReadInv'
  BY <1>4, <1>5, <1>12, <1>13, <1>15 DEF ReadInv
<1>17. StageInv' /\ EndInv'
  BY <1>2, <1>3, <1>4 DEF StageInv, Reading, EndInv
<1>18. QED
  BY <1>4, <1>8, <1>14, <1>16, <1>17 DEF FetchInv

(* Where the chunks of a divided window lie. *)
LEMMA ChunksAre ==
    ASSUME Divided(len, chunk, nchunk), len \in Nat, NEW k \in 0 .. nchunk - 1
    PROVE  /\ chunk \in Nat \ {0} /\ Multiple(chunk) /\ k \in Nat
           /\ k * chunk \in Nat /\ Multiple(k * chunk) /\ k * chunk < len
           /\ Ask(k) \in Nat /\ Ask(k) <= chunk /\ k * chunk + Ask(k) <= len
           /\ Ask(k) = chunk \/ k * chunk + Ask(k) = len
           /\ \A j \in 0 .. nchunk - 1 : j < k => j * chunk \in Nat /\ j * chunk + chunk <= k * chunk
<1>1. /\ chunk \in Nat \ {0} /\ Multiple(chunk) /\ nchunk \in Nat
      /\ \A j \in 0 .. nchunk - 1 : j * chunk < len
  BY DEF Divided
<1>2. k \in Nat /\ k * chunk \in Nat /\ k * chunk < len
  BY <1>1
<1>3. Multiple(k * chunk)
  <2>1. \A j, x \in Int : Multiple(x) => Multiple(j * x)
    BY Multiples
  <2>2. k \in Int /\ chunk \in Int /\ Multiple(chunk)
    BY <1>1, <1>2
  <2>3. QED
    BY ONLY <2>1, <2>2
<1> DEFINE base == k * chunk
<1>4. Ask(k) = IF len - base <= chunk THEN len - base ELSE chunk
  <2>1. len - base \in Int /\ chunk \in Int
    BY <1>1, <1>2
  <2>2. Ask(k) = Min({len - base, chunk})
    BY DEF Ask
  <2> HIDE DEF base
  <2>3. QED
    BY <2>1, <2>2, MinTwo
<1>5. ASSUME NEW j \in 0 .. nchunk - 1, j < k
      PROVE  j * chunk \in Nat /\ j * chunk + chunk <= k * chunk
  <2>1. j \in Nat /\ j + 1 \in Int /\ j + 1 <= k
    BY <1>1, <1>5
  <2>2. (j + 1) * chunk <= k * chunk
    BY <1>1, <1>2, <2>1, Products
  <2>3. (j + 1) * chunk = j * chunk + chunk /\ j * chunk \in Nat
    BY <1>1, <2>1
  <2>4. QED
    BY <2>2, <2>3
<1>6. base \in Nat /\ base < len
  BY <1>2
<1> HIDE DEF base
<1>7. /\ Ask(k) \in Nat /\ Ask(k) <= chunk /\ base + Ask(k) <= len
      /\ Ask(k) = chunk \/ base + Ask(k) = len
  BY <1>1, <1>4, <1>6
<1>8. QED
  BY <1>1, <1>2, <1>3, <1>5, <1>7 DEF base

(* The read of one chunk leaves what the others have read alone.            *)
LEMMA ChunkStep ==
    ASSUME FetchInv, NEW k \in DOMAIN cgot, ReadChunk(k)
    PROVE  FetchInv'
<1> DEFINE base == k * chunk
           n == Min({len - base, chunk})
<1>1. PICK r \in Aligned(lo + base, n, base, slot_bytes - base) :
          cgot' = [cgot EXCEPT ![k] = r.got] /\ slot' = r.slot
  BY DEF ReadChunk
<1>2. /\ stage = "read" /\ nchunk > 1 /\ cgot[k] = NotRead
      /\ UNCHANGED <<checkpoint, given, stage, ref, pad, chunk, nchunk>>
  BY DEF ReadChunk
<1>3. /\ st = "open" /\ Found /\ Laid(ref) /\ ref.nbytes <= slot_bytes /\ Given /\ Image(slot)
      /\ WindowInv /\ ReadInv
  BY <1>2 DEF FetchInv, StageInv
<1>4. /\ Given' /\ IndexInv' /\ Found' = Found /\ Laid(ref)' /\ Image(slot)' = Image(slot')
      /\ slot_bytes' = slot_bytes /\ ref' = ref /\ st' = st /\ stage' = stage /\ pad' = pad
      /\ chunk' = chunk /\ nchunk' = nchunk /\ nw' = nw
      /\ lo' = lo /\ len' = len /\ size' = size
  BY <1>2, <1>3, Stays DEF given, checkpoint
<1>5. /\ nchunk \in Nat /\ nchunk # 1 /\ nchunk * nw <= ITEMS /\ pad \in 0 .. ALIGN - 1
      /\ cgot \in [0 .. nchunk - 1 -> Nat \cup {NotRead}]
      /\ ref.contiguous /\ pad = ref.off - lo /\ Divided(len, chunk, nchunk)
      /\ chunk \in Nat /\ Multiple(chunk)
  BY <1>2, <1>3 DEF WindowInv, Reading
<1>6. k \in 0 .. nchunk - 1
  BY <1>5
<1>7. lo \in Nat /\ Multiple(lo) /\ len \in Nat /\ Multiple(len)
  BY <1>3, WindowIs
<1>8. slot_bytes \in Nat /\ size \in Int
  <2>1. disk[ref.shard].size \in Nat
    BY <1>3, CheckpointAssumption DEF Laid, FetchInv, IndexInv
  <2>2. QED
    BY <1>3, <2>1 DEF Given, size
<1>9. /\ base \in Nat /\ Multiple(base) /\ n \in Nat /\ n <= chunk /\ n = Ask(k)
      /\ n = chunk \/ base + n = len
  BY <1>5, <1>6, <1>7, ChunksAre DEF Ask
<1>10. Multiple(n)
  <2>1. CASE n = chunk
    BY <1>5, <2>1
  <2>2. CASE base + n = len
    <3>1. n = len - base
      BY <1>7, <1>9, <2>2
    <3>2. Multiple(len - base)
      BY <1>7, <1>9, Multiples
    <3>3. QED
      BY <3>1, <3>2
  <2>3. QED
    BY <1>9, <2>1, <2>2
<1>11. lo + base \in Nat /\ Multiple(lo + base)
  <2>1. \A x, y \in Int : Multiple(x) /\ Multiple(y) => Multiple(x + y)
    BY Multiples
  <2>2. lo \in Nat /\ base \in Nat /\ Multiple(lo) /\ Multiple(base)
    BY <1>7, <1>9
  <2> HIDE DEF base
  <2>3. QED
    BY <2>1, <2>2
<1> DEFINE off == lo + base
<1> HIDE DEF n
<1>12. /\ Image(r.slot) /\ r.got \in 0 .. n
       /\ r.got = n \/ r.got = 0 \/ off + r.got = size \/ (off + r.got) % BLOCK = 0
       /\ \A x \in 0 .. r.got - 1 : base + x < slot_bytes /\ r.slot[base + x] = off + x
       /\ \A p \in 0 .. slot_bytes - 1 : p < base \/ base + n <= p => r.slot[p] = slot[p]
  <2>1. off \in Nat /\ Multiple(off) /\ r \in Aligned(off, n, base, slot_bytes - base)
    BY <1>11
  <2> HIDE DEF off, base
  <2>2. QED
    BY <1>3, <1>8, <1>9, <1>10, <2>1, AlignedChunk
<1>13. cgot' \in [0 .. nchunk - 1 -> Nat \cup {NotRead}] /\ cgot'[k] = r.got
       /\ \A j \in 0 .. nchunk - 1 : j # k => cgot'[j] = cgot[j]
  <2>1. r.got \in Nat
    BY <1>9, <1>12
  <2>2. QED
    BY <1>1, <1>5, <1>6, <2>1
<1>14. WindowInv'
  <2>1. Divided(len, chunk, nchunk)'
    BY <1>4, <1>5 DEF Divided
  <2>2. QED
    BY <1>4, <1>5, <1>13, <2>1 DEF WindowInv
<1>15. \A j : Ask(j)' = Ask(j)
  BY <1>4 DEF Ask
<1>16. ChunkRead(k)'
  <2>1. (lo + k * chunk)' = off /\ (k * chunk)' = base
    BY <1>4
  <2>2. /\ cgot'[k] \in 0 .. Ask(k)'
        /\ cgot'[k] = Ask(k)' \/ cgot'[k] = 0 \/ off + cgot'[k] = size' \/ (off + cgot'[k]) % BLOCK = 0
        /\ \A x \in 0 .. cgot'[k] - 1 : base + x < slot_bytes' /\ slot'[base + x] = off + x
    BY <1>1, <1>4, <1>9, <1>12, <1>13, <1>15
  <2> HIDE DEF off, base
  <2>3. QED
    BY <2>1, <2>2 DEF ChunkRead
<1>17. ASSUME NEW j \in 0 .. nchunk - 1, j # k, cgot[j] # NotRead PROVE ChunkRead(j)'
  <2>1. ChunkRead(j)
    BY <1>2, <1>3, <1>5, <1>17 DEF ReadInv, Reading
  <2> DEFINE pos == j * chunk
  <2>2. pos \in Nat /\ Ask(j) \in Nat /\ Ask(j) <= chunk
    BY <1>5, <1>7, ChunksAre
  <2>3. cgot[j] \in 0 .. Ask(j) /\ cgot[j] <= chunk
    BY <1>5, <2>1, <2>2 DEF ChunkRead
  <2>4. j < k => pos + chunk <= base
    BY <1>5, <1>6, <1>7, ChunksAre
  <2>5. k < j => base + chunk <= pos
    BY <1>5, <1>6, <1>7, ChunksAre
  <2>6. \A x \in 0 .. cgot[j] - 1 : pos + x < slot_bytes /\ slot[pos + x] = lo + pos + x
    BY <2>1 DEF ChunkRead
  <2>7. j < k \/ k < j
    BY <1>6, <1>17
  <2> HIDE DEF pos, base
  <2>8. ASSUME NEW x \in 0 .. cgot[j] - 1
        PROVE  pos + x < slot_bytes /\ slot'[pos + x] = lo + pos + x
    <3>1. pos + x \in 0 .. slot_bytes - 1 /\ x < chunk /\ x \in Nat
      BY <1>5, <1>8, <2>2, <2>3, <2>6
    <3>2. pos + x < base \/ base + n <= pos + x
      BY <1>5, <1>9, <2>2, <2>4, <2>5, <2>7, <3>1
    <3>3. slot'[pos + x] = slot[pos + x]
      BY <1>1, <1>12, <3>1, <3>2
    <3>4. QED
      BY <2>6, <3>3
  <2>9. /\ cgot'[j] = cgot[j] /\ Ask(j)' = Ask(j)
        /\ (lo + j * chunk)' = lo + pos /\ (j * chunk)' = pos
    BY <1>4, <1>13, <1>15, <1>17 DEF pos
  <2>10. cgot[j] = Ask(j) \/ cgot[j] = 0 \/ lo + pos + cgot[j] = size \/ (lo + pos + cgot[j]) % BLOCK = 0
    BY <2>1 DEF ChunkRead, pos
  <2>11. QED
    BY <1>4, <2>3, <2>8, <2>9, <2>10 DEF ChunkRead
<1>18. ReadInv'
  <2>1. ASSUME NEW j \in 0 .. nchunk - 1, cgot'[j] # NotRead PROVE ChunkRead(j)'
    <3>1. CASE j = k
      BY <1>16, <3>1
    <3>2. CASE j # k
      BY <1>13, <1>17, <2>1, <3>2
    <3>3. QED
      BY <3>1, <3>2
  <2>2. QED
    BY <1>4, <1>5, <2>1 DEF ReadInv
<1>19. StageInv' /\ EndInv'
  BY <1>2, <1>3, <1>4 DEF StageInv, Reading, EndInv
<1>20. QED
  BY <1>1, <1>4, <1>12, <1>14, <1>18, <1>19 DEF FetchInv

(* What moves the stage alone, or nothing. *)
LEMMA KeptReads ==
    ASSUME FetchInv, UNCHANGED <<checkpoint, given, ref, pad, chunk, nchunk, cgot, slot>>, Reading, Reading'
    PROVE  WindowInv' /\ ReadInv' /\ Covered' = Covered
<1>1. /\ ref' = ref /\ pad' = pad /\ chunk' = chunk /\ nchunk' = nchunk /\ cgot' = cgot
      /\ slot' = slot /\ slot_bytes' = slot_bytes /\ nw' = nw
      /\ lo' = lo /\ len' = len /\ size' = size
      /\ \A i : part(i)' = part(i) /\ bytes(i)' = bytes(i)
  BY Stays, Same DEF given
<1>2. WindowInv'
  <2>1. Divided(len, chunk, nchunk)' = Divided(len, chunk, nchunk)
    BY <1>1 DEF Divided
  <2>2. QED
    BY <1>1, <2>1 DEF FetchInv, WindowInv
<1>3. ReadInv'
  <2>1. Arrived' = Arrived
    BY <1>1 DEF Arrived
  <2>2. \A k : Ask(k)' = Ask(k)
    BY <1>1 DEF Ask
  <2>3. \A k : ChunkRead(k)' = ChunkRead(k)
    BY <1>1, <2>2 DEF ChunkRead
  <2>4. QED
    BY <1>1, <2>1, <2>3 DEF FetchInv, ReadInv
<1>4. Covered' = Covered
  BY <1>1 DEF Covered, Reported
<1>5. QED
  BY <1>2, <1>3, <1>4

LEMMA JudgeStep ==
    ASSUME FetchInv, Judge
    PROVE  FetchInv'
<1>1. /\ stage = "read" /\ \A k \in DOMAIN cgot : cgot[k] # NotRead
      /\ stage' = IF Covered THEN "served" ELSE "short"
      /\ UNCHANGED <<checkpoint, given, ref, pad, chunk, nchunk, cgot, slot>>
  BY DEF Judge
<1>2. /\ st = "open" /\ Found /\ Laid(ref) /\ ref.nbytes <= slot_bytes /\ Given /\ Image(slot)
      /\ WindowInv /\ Reading /\ Reading'
  BY <1>1 DEF FetchInv, StageInv, Reading
<1>3. /\ Given' /\ IndexInv' /\ Found' = Found /\ Laid(ref)' /\ st' = st /\ Image(slot)'
      /\ slot_bytes' = slot_bytes /\ ref' = ref /\ nchunk' = nchunk /\ cgot' = cgot
  BY <1>1, <1>2, Stays DEF given, checkpoint, Image
<1>4. WindowInv' /\ ReadInv' /\ Covered' = Covered
  BY <1>1, <1>2, KeptReads
<1>5. StageInv'
  BY <1>1, <1>2, <1>3 DEF StageInv
<1>6. EndInv'
  <2>1. DOMAIN cgot = 0 .. nchunk - 1
    BY <1>2 DEF WindowInv
  <2>2. QED
    BY <1>1, <1>3, <1>4, <2>1 DEF EndInv
<1>7. QED
  BY <1>3, <1>4, <1>5, <1>6 DEF FetchInv

LEMMA StutterStep ==
    ASSUME FetchInv, UNCHANGED read_vars
    PROVE  FetchInv'
<1>1. /\ UNCHANGED <<checkpoint, given, ref, pad, chunk, nchunk, cgot, slot>> /\ stage' = stage
  BY DEF read_vars
<1>2. /\ Given' /\ IndexInv' /\ Found' = Found /\ (Laid(ref) => Laid(ref)') /\ Image(slot)'
      /\ st' = st /\ ref' = ref /\ nchunk' = nchunk /\ cgot' = cgot /\ chunk' = chunk /\ pad' = pad
      /\ slot_bytes' = slot_bytes
  BY <1>1, Stays DEF given, checkpoint, FetchInv, Image
<1>3. StageInv'
  BY <1>1, <1>2 DEF FetchInv, StageInv, Reading
<1>4. CASE Reading
  <2>1. Reading'
    BY <1>1, <1>4 DEF Reading
  <2>2. WindowInv' /\ ReadInv' /\ Covered' = Covered
    BY <1>1, <1>4, <2>1, KeptReads
  <2>3. EndInv'
    BY <1>1, <1>2, <2>2 DEF FetchInv, EndInv
  <2>4. QED
    BY <1>2, <1>3, <2>2, <2>3 DEF FetchInv
<1>5. CASE ~Reading
  <2>1. ~Reading'
    BY <1>1, <1>5 DEF Reading
  <2>2. WindowInv' /\ ReadInv'
    BY <2>1 DEF WindowInv, ReadInv
  <2>3. EndInv'
    BY <2>1 DEF Reading, EndInv
  <2>4. QED
    BY <1>2, <1>3, <2>2, <2>3 DEF FetchInv
<1>6. QED
  BY <1>4, <1>5

LEMMA Invariance == ReadSpec => []FetchInv
<1>1. ReadInit => FetchInv
  BY Starts
<1>2. FetchInv /\ [ReadNext]_read_vars => FetchInv'
  <2> SUFFICES ASSUME FetchInv, [ReadNext]_read_vars PROVE FetchInv'
    OBVIOUS
  <2>1. CASE Opens
    BY <2>1, OpensStep
  <2>2. CASE Refer
    BY <2>2, ReferStep
  <2>3. CASE Plan
    BY <2>3, PlanStep
  <2>4. CASE ReadWhole
    BY <2>4, WholeStep
  <2>5. CASE \E k \in DOMAIN cgot : ReadChunk(k)
    BY <2>5, ChunkStep
  <2>6. CASE ReadScattered
    BY <2>6, ScatteredStep
  <2>7. CASE Judge
    BY <2>7, JudgeStep
  <2>8. CASE UNCHANGED read_vars
    BY <2>8, StutterStep
  <2>9. QED
    BY <2>1, <2>2, <2>3, <2>4, <2>5, <2>6, <2>7, <2>8 DEF ReadNext
<1>3. QED
  BY <1>1, <1>2, PTL DEF ReadSpec

-----------------------------------------------------------------------------
(* What the invariant says. *)

LEMMA Typed ==
    ASSUME FetchInv
    PROVE  ReadTypeOK
<1>1. /\ st \in {"closed", "open", "refused"}
      /\ stage \in {"refer", "plan", "read", "served", "short", "dropped"}
      /\ DOMAIN slot = 0 .. slot_bytes - 1
  BY DEF FetchInv, IndexInv, StageInv, Image
<1>2. ALIGN \in Nat \ {0} /\ ITEMS \in Nat /\ nw \in Nat
  BY ReadAssumption DEF FetchInv, Given
<1>3. CASE Reading
  <2>1. /\ nchunk \in Nat /\ nchunk * nw <= ITEMS
        /\ cgot \in [0 .. nchunk - 1 -> Nat \cup {NotRead}]
        /\ pad \in 0 .. ALIGN - 1 /\ chunk \in Nat /\ Multiple(chunk)
    BY <1>3 DEF FetchInv, WindowInv
  <2>2. chunk % ALIGN = 0
    BY <2>1, MultipleIs
  <2>3. Cardinality(0 .. nchunk - 1) = nchunk
    <3>1. nchunk - 1 \in Int /\ 0 \in Int
      BY <2>1
    <3>2. Cardinality(0 .. nchunk - 1) = IF 0 > nchunk - 1 THEN 0 ELSE nchunk - 1 - 0 + 1
      BY <3>1, FS_Interval
    <3>3. QED
      BY <2>1, <3>2
  <2>4. QED
    BY <1>1, <2>1, <2>2, <2>3 DEF ReadTypeOK
<1>4. CASE ~Reading
  <2>1. nchunk = 0 /\ chunk = 0 /\ pad = 0 /\ cgot = <<>>
    BY <1>4 DEF FetchInv, StageInv
  <2>2. nchunk * nw <= ITEMS /\ pad \in 0 .. ALIGN - 1
    BY <1>2, <2>1
  <2>3. chunk % ALIGN = 0
    BY <2>1, Multiples, MultipleIs
  <2>4. DOMAIN cgot = {} /\ Cardinality({}) = 0
    BY <2>1, FS_EmptySet
  <2>5. QED
    BY <1>1, <2>1, <2>2, <2>3, <2>4 DEF ReadTypeOK
<1>5. QED
  BY <1>3, <1>4

(* The chunks of a window ask for no more than it holds. *)
LEMMA AsksFit ==
    ASSUME Divided(len, chunk, nchunk), len \in Nat,
           NEW a, \A k \in 1 .. nchunk : a[k] = Ask(k - 1)
    PROVE  Total(a, nchunk) \in Int /\ Total(a, nchunk) <= len
<1>1. nchunk \in Nat /\ chunk \in Nat \ {0}
  BY DEF Divided
<1>2. ASSUME NEW k \in 1 .. nchunk
      PROVE  /\ a[k] \in Nat /\ a[k] <= chunk /\ (k - 1) * chunk \in Nat
             /\ (k - 1) * chunk + a[k] <= len /\ k * chunk = (k - 1) * chunk + chunk
  <2>1. k - 1 \in 0 .. nchunk - 1 /\ k \in Nat /\ k - 1 \in Nat
    BY <1>1
  <2>2. a[k] = Ask(k - 1)
    OBVIOUS
  <2>3. /\ Ask(k - 1) \in Nat /\ Ask(k - 1) <= chunk /\ (k - 1) * chunk \in Nat
        /\ (k - 1) * chunk + Ask(k - 1) <= len
    BY <2>1, ChunksAre
  <2>4. k * chunk = (k - 1) * chunk + chunk
    BY ONLY <1>1, <2>1
  <2>5. QED
    BY <2>2, <2>3, <2>4
<1>3. /\ Total(a, 0) = 0 /\ \A m \in 0 .. nchunk : Total(a, m) \in Int
      /\ \A m \in 1 .. nchunk : Total(a, m) = Total(a, m - 1) + a[m]
  <2>1. \A k \in 1 .. nchunk : a[k] \in Int
    BY <1>2
  <2>2. QED
    BY <1>1, <2>1, TotalSteps
<1> DEFINE A == {m \in 0 .. nchunk : Total(a, m) <= m * chunk /\ Total(a, m) <= len}
<1>4. 0 \in A
  <2>1. 0 * chunk = 0 /\ 0 \in 0 .. nchunk
    BY <1>1
  <2>2. QED
    BY <1>3, <2>1
<1>5. ASSUME NEW m \in 1 .. nchunk, m - 1 \in A PROVE m \in A
  <2> DEFINE u == (m - 1) * chunk
             v == m * chunk
             x == Total(a, m - 1)
             y == Total(a, m)
  <2>1. x <= u /\ x \in Int /\ y = x + a[m] /\ m - 1 \in 0 .. nchunk
    BY <1>1, <1>3, <1>5
  <2>2. a[m] \in Nat /\ a[m] <= chunk /\ u \in Nat /\ u + a[m] <= len /\ v = u + chunk
    BY <1>2
  <2>3. m \in 0 .. nchunk
    BY <1>1
  <2> HIDE DEF u, v, x, y
  <2>4. y <= v /\ y <= len
    BY <1>1, <2>1, <2>2
  <2>5. QED
    BY <2>3, <2>4 DEF v, y
<1>6. nchunk \in A
  <2>1. nchunk \in 0 .. nchunk
    BY <1>1
  <2> HIDE DEF A
  <2>2. QED
    BY <1>1, <1>4, <1>5, <2>1, Rises
<1>7. QED
  BY <1>3, <1>6

(* When a transfer can stop on the alignment or at the end of the file      *)
(* only, a window of which enough is reported has arrived as far as that.   *)
LEMMA ChunksArrive ==
    ASSUME BLOCK % ALIGN = 0, FetchInv, Reading, nchunk # 1, Covered,
           \A k \in 0 .. nchunk - 1 : cgot[k] # NotRead,
           NEW w \in Nat, w < pad + ref.nbytes
    PROVE  w < slot_bytes /\ slot[w] = lo + w
<1>1. /\ Laid(ref) /\ ref.contiguous /\ pad = ref.off - lo /\ Divided(len, chunk, nchunk)
      /\ \A k \in 0 .. nchunk - 1 : ChunkRead(k)
  BY DEF FetchInv, StageInv, Reading, WindowInv, ReadInv
<1>2. /\ lo \in Nat /\ Multiple(lo) /\ lo <= ref.off /\ len \in Nat /\ Multiple(len)
      /\ ref.off + ref.nbytes <= lo + len /\ lo + len < ref.off + ref.nbytes + ALIGN
  BY <1>1, WindowIs
<1>3. /\ ref.off \in Nat /\ ref.nbytes \in Nat /\ ref.off + ref.nbytes <= size /\ size \in Nat
  <2>1. disk[ref.shard].size \in Nat
    BY <1>1, CheckpointAssumption DEF Laid, FetchInv, IndexInv
  <2>2. QED
    BY <1>1, <2>1 DEF Laid, size
<1>4. chunk \in Nat \ {0} /\ Multiple(chunk) /\ nchunk \in Nat /\ len <= nchunk * chunk
      /\ ALIGN \in Nat \ {0} /\ BLOCK \in Nat \ {0}
  BY <1>1, ReadAssumption DEF Divided
<1>5. w < len /\ lo + w < size /\ pad + ref.nbytes > len - ALIGN
  BY <1>1, <1>2, <1>3, <1>4
<1> DEFINE k == w \div chunk
           base == k * chunk
<1>6. k \in Nat /\ base <= w /\ w < base + chunk /\ base \in Nat
  BY <1>4, Divides
<1>7. k \in 0 .. nchunk - 1
  <2> SUFFICES ASSUME nchunk <= k PROVE FALSE
    BY <1>4, <1>6
  <2>1. nchunk * chunk <= k * chunk
    BY <1>4, <1>6, <2>1, Products
  <2>2. nchunk * chunk \in Nat
    BY <1>4
  <2> HIDE DEF k
  <2>3. QED
    BY <1>2, <1>4, <1>5, <1>6, <2>1, <2>2
<1> HIDE DEF k
<1>8. /\ Multiple(base) /\ Ask(k) \in Nat /\ Ask(k) <= chunk /\ base + Ask(k) <= len
      /\ Ask(k) = chunk \/ base + Ask(k) = len
  BY <1>1, <1>2, <1>7, ChunksAre
<1>9. w < base + Ask(k)
  <2> HIDE DEF base
  <2>1. QED
    BY <1>2, <1>4, <1>5, <1>6, <1>8
<1>10. /\ cgot[k] \in 0 .. Ask(k)
       /\ cgot[k] = Ask(k) \/ cgot[k] = 0 \/ lo + base + cgot[k] = size \/ (lo + base + cgot[k]) % BLOCK = 0
       /\ \A x \in 0 .. cgot[k] - 1 : base + x < slot_bytes /\ slot[base + x] = lo + base + x
  BY <1>1, <1>7 DEF ChunkRead
<1> HIDE DEF base
<1>11. w < base + cgot[k]
  <2> SUFFICES ASSUME base + cgot[k] <= w PROVE FALSE
    BY <1>6, <1>8, <1>10
  <2>1. cgot[k] \in Nat /\ cgot[k] < Ask(k) /\ lo + base + cgot[k] \in Nat /\ lo + base + cgot[k] <= lo + w
    BY <1>2, <1>6, <1>8, <1>9, <1>10
  <2>2. cgot[k] = 0 \/ (lo + base + cgot[k]) % BLOCK = 0
    <3>1. cgot[k] # Ask(k) /\ lo + base + cgot[k] # size
      BY <1>2, <1>3, <1>5, <1>8, <2>1
    <3>2. QED
      BY <1>10, <3>1
  <2>3. Multiple(cgot[k])
    <3>1. \A x, y \in Int : Multiple(x) /\ Multiple(y) => Multiple(x + y) /\ Multiple(x - y)
      BY Multiples
    <3>2. CASE cgot[k] = 0
      BY <3>2, Multiples
    <3>3. CASE (lo + base + cgot[k]) % BLOCK = 0
      <4> DEFINE e == lo + base + cgot[k]
      <4>1. e \in Nat /\ e % BLOCK = 0
        BY <2>1, <3>3
      <4> HIDE DEF e
      <4>2. Multiple(e)
        <5>1. e = (e \div BLOCK) * BLOCK /\ e \div BLOCK \in Nat
          BY <1>4, <4>1
        <5>2. Multiple(BLOCK)
          BY <1>4, MultipleIs
        <5>3. \A j, x \in Int : Multiple(x) => Multiple(j * x)
          BY Multiples
        <5>4. Multiple((e \div BLOCK) * BLOCK)
          BY <1>4, <5>1, <5>2, <5>3
        <5>5. QED
          BY <5>1, <5>4
      <4>3. Multiple(lo + base) /\ lo + base \in Nat
        BY <1>2, <1>6, <1>8, <3>1
      <4>4. Multiple(e - (lo + base))
        BY <3>1, <4>1, <4>2, <4>3
      <4>5. e - (lo + base) = cgot[k]
        BY <1>2, <1>6, <2>1 DEF e
      <4>6. QED
        BY <4>4, <4>5
    <3>4. QED
      BY <2>2, <3>2, <3>3
  <2>4. Multiple(Ask(k))
    <3>1. \A x, y \in Int : Multiple(x) /\ Multiple(y) => Multiple(x - y)
      BY Multiples
    <3>2. CASE Ask(k) = chunk
      BY <1>4, <3>2
    <3>3. CASE base + Ask(k) = len
      <4>1. Multiple(len - base)
        BY <1>2, <1>6, <1>8, <3>1
      <4>2. len - base = Ask(k)
        BY <1>2, <1>6, <1>8, <3>3
      <4>3. QED
        BY <4>1, <4>2
    <3>4. QED
      BY <1>8, <3>2, <3>3
  <2>5. Ask(k) - cgot[k] >= ALIGN
    <3>1. Multiple(Ask(k) - cgot[k])
      <4>1. \A x, y \in Int : Multiple(x) /\ Multiple(y) => Multiple(x - y)
        BY Multiples
      <4>2. QED
        BY <1>8, <2>1, <2>3, <2>4, <4>1
    <3>2. \A x \in Int : Multiple(x) /\ -ALIGN < x /\ x < ALIGN => x = 0
      BY Multiples
    <3> DEFINE d == Ask(k) - cgot[k]
    <3>3. d \in Nat \ {0} /\ Multiple(d)
      BY <1>8, <2>1, <3>1
    <3> HIDE DEF d
    <3>4. d >= ALIGN
      BY <1>4, <3>2, <3>3
    <3>5. QED
      BY <3>4 DEF d
  <2> DEFINE f == [j \in 1 .. nchunk |-> cgot[j - 1]]
             a == [j \in 1 .. nchunk |-> Ask(j - 1)]
  <2>6. ASSUME NEW j \in 1 .. nchunk
        PROVE  f[j] \in Nat /\ a[j] \in Nat /\ f[j] <= a[j] /\ f[j] = cgot[j - 1] /\ a[j] = Ask(j - 1)
    <3>1. j - 1 \in 0 .. nchunk - 1 /\ f[j] = cgot[j - 1] /\ a[j] = Ask(j - 1)
      BY <1>4
    <3>2. Ask(j - 1) \in Nat
      BY <1>1, <1>2, <3>1, ChunksAre
    <3>3. cgot[j - 1] \in 0 .. Ask(j - 1)
      BY <1>1, <3>1 DEF ChunkRead
    <3>4. QED
      BY <3>1, <3>2, <3>3
  <2>7. Reported = Total(f, nchunk)
    BY DEF Reported
  <2>8. k + 1 \in 1 .. nchunk /\ f[k + 1] = cgot[k] /\ a[k + 1] = Ask(k)
    <3>1. PICK j \in 1 .. nchunk : j = k + 1 /\ j - 1 = k
      BY <1>4, <1>7
    <3>2. f[j] = cgot[j - 1] /\ a[j] = Ask(j - 1)
      BY <2>6
    <3>3. QED
      BY <3>1, <3>2
  <2> HIDE DEF f, a
  <2>9. Total(f, nchunk) + (a[k + 1] - f[k + 1]) <= Total(a, nchunk)
    <3>1. \A j \in 1 .. nchunk : f[j] \in Int /\ a[j] \in Int /\ f[j] <= a[j]
      BY <2>6
    <3>2. QED
      BY <1>4, <2>8, <3>1, TotalBelow
  <2>10. Total(a, nchunk) \in Int /\ Total(a, nchunk) <= len
    BY <1>1, <1>2, <2>6, AsksFit
  <2>11. Total(f, nchunk) \in Nat
    <3>1. \A j \in 1 .. nchunk : f[j] \in Nat
      BY <2>6
    <3>2. nchunk \in 0 .. nchunk
      BY <1>4
    <3>3. QED
      BY <1>4, <3>1, <3>2, TotalGrows
  <2>12. Total(f, nchunk) >= pad + ref.nbytes
    BY <2>7 DEF Covered
  <2>13. a[k + 1] - f[k + 1] >= ALIGN /\ a[k + 1] - f[k + 1] \in Int
    BY <1>8, <2>1, <2>5, <2>8
  <2>14. pad + ref.nbytes \in Int
    BY <1>1, <1>2, <1>3
  <2>15. QED
    BY ONLY <1>2, <1>4, <1>5, <2>9, <2>10, <2>11, <2>12, <2>13, <2>14
<1>12. PICK x \in 0 .. cgot[k] - 1 : base + x = w
  <2>1. w - base \in 0 .. cgot[k] - 1 /\ base + (w - base) = w
    BY <1>6, <1>8, <1>10, <1>11
  <2>2. QED
    BY <2>1
<1>13. lo + base + x = lo + w
  BY <1>2, <1>6, <1>12
<1>14. QED
  BY <1>10, <1>12, <1>13

LEMMA Whole ==
    ASSUME BLOCK % ALIGN = 0, FetchInv
    PROVE  ServedWhole
<1> SUFFICES ASSUME stage = "served", NEW i \in Ps, NEW b \in 0 .. bytes(i) - 1
             PROVE  /\ pad + ref.at[i] + b \in DOMAIN slot
                    /\ slot[pad + ref.at[i] + b] = part(i).off + b
  BY DEF ServedWhole
<1>1. /\ Reading /\ Covered /\ \A k \in 0 .. nchunk - 1 : cgot[k] # NotRead
      /\ st = "open" /\ Found /\ Laid(ref) /\ Ready /\ nchunk \in Nat /\ slot_bytes \in Nat
  BY DEF Reading, FetchInv, EndInv, StageInv, WindowInv, IndexInv, Given
<1>2. CASE nchunk = 1
  <2>1. cgot[0] = ref.nbytes /\ cgot[0] # NotRead
    BY <1>1, <1>2 DEF Covered
  <2>2. Arrived
    BY <1>1, <1>2, <2>1 DEF FetchInv, ReadInv
  <2>3. QED
    BY <2>2 DEF Arrived
<1>3. CASE nchunk # 1
  <2>1. ref.contiguous /\ pad = ref.off - lo
    BY <1>1, <1>3 DEF FetchInv, WindowInv
  <2>2. /\ part(i).off \in Nat /\ bytes(i) \in Nat /\ ref.off <= part(i).off
        /\ part(i).off + bytes(i) <= ref.off + ref.nbytes /\ ref.at[i] = part(i).off - ref.off
        /\ ref.off \in Nat /\ ref.nbytes \in Nat
    BY <1>1, <2>1, PartIs DEF Laid
  <2>3. lo \in Nat /\ lo <= ref.off
    BY <1>1, WindowIs
  <2>4. ref.at[i] \in Int /\ pad \in Nat
    BY <2>1, <2>2, <2>3
  <2>5. PICK w \in Nat : w = pad + ref.at[i] + b /\ w < pad + ref.nbytes /\ lo + w = part(i).off + b
    <3> DEFINE w == pad + ref.at[i] + b
    <3>1. w = pad + (part(i).off - ref.off) + b
      BY <2>2
    <3>2. w \in Nat /\ w < pad + ref.nbytes /\ lo + w = part(i).off + b
      BY <2>1, <2>2, <2>3, <2>4, <3>1
    <3>3. QED
      BY <3>2
  <2>6. w < slot_bytes /\ slot[w] = lo + w
    BY <1>1, <1>3, <2>5, ChunksArrive
  <2>7. w \in DOMAIN slot
    <3>1. DOMAIN slot = 0 .. slot_bytes - 1
      BY DEF FetchInv, Image
    <3>2. QED
      BY <1>1, <2>5, <2>6, <3>1
  <2>8. QED
    BY <2>5, <2>6, <2>7
<1>4. QED
  BY <1>2, <1>3

(* Where every chunk read all it was asked for, nothing is missing. *)
LEMMA AllAsked ==
    ASSUME FetchInv, Reading, nchunk # 1,
           \A k \in 0 .. nchunk - 1 : cgot[k] \in Nat /\ Requested(k) <= cgot[k]
    PROVE  Covered
<1>1. /\ Laid(ref) /\ ref.contiguous /\ pad = ref.off - lo /\ Divided(len, chunk, nchunk)
  BY DEF FetchInv, StageInv, Reading, WindowInv
<1>2. /\ lo \in Nat /\ lo <= ref.off /\ len \in Nat /\ ref.off + ref.nbytes <= lo + len
  BY <1>1, WindowIs
<1>3. /\ ref.off \in Nat /\ ref.nbytes \in Nat /\ ref.off + ref.nbytes <= size /\ size \in Nat
  <2>1. disk[ref.shard].size \in Nat
    BY <1>1, CheckpointAssumption DEF Laid, FetchInv, IndexInv
  <2>2. QED
    BY <1>1, <2>1 DEF Laid, size
<1>4. chunk \in Nat \ {0} /\ nchunk \in Nat /\ len <= nchunk * chunk
  BY <1>1 DEF Divided
<1> DEFINE all == pad + ref.nbytes
           f == [k \in 1 .. nchunk |-> cgot[k - 1]]
           A == {m \in 0 .. nchunk : Total(f, m) >= m * chunk \/ Total(f, m) >= all}
<1>5. all \in Nat /\ all <= len /\ all <= size - lo
  BY <1>1, <1>2, <1>3
<1>6. ASSUME NEW k \in 1 .. nchunk
      PROVE  /\ f[k] \in Nat /\ (k - 1) * chunk \in Nat /\ k * chunk = (k - 1) * chunk + chunk
             /\ f[k] >= chunk \/ (k - 1) * chunk + f[k] >= all
  <2>1. PICK j \in 0 .. nchunk - 1 : j = k - 1
    BY <1>4
  <2>2. f[k] = cgot[j] /\ cgot[j] \in Nat /\ Requested(j) <= cgot[j]
    BY <2>1
  <2>3. Requested(j) = Min({chunk, len - j * chunk, size - lo - j * chunk})
    BY DEF Requested
  <2> DEFINE pos == j * chunk
  <2>4. pos \in Nat /\ k * chunk = pos + chunk
    BY <1>4, <2>1
  <2>5. Requested(j) \in {chunk, len - pos, size - lo - pos}
    <3>1. chunk \in Int /\ len - pos \in Int /\ size - lo - pos \in Int
      BY <1>2, <1>3, <1>4, <2>4
    <3> HIDE DEF pos
    <3>2. Min({chunk, len - pos, size - lo - pos}) \in {chunk, len - pos, size - lo - pos}
      BY ONLY <3>1, MinThree
    <3>3. QED
      BY <2>3, <3>2 DEF pos
  <2> HIDE DEF pos, all
  <2>6. f[k] >= chunk \/ pos + f[k] >= all
    BY <1>2, <1>3, <1>4, <1>5, <2>2, <2>4, <2>5
  <2>7. QED
    BY <2>1, <2>2, <2>4, <2>6 DEF pos
<1> HIDE DEF f, all
<1>7. /\ Total(f, 0) = 0 /\ \A m \in 0 .. nchunk : Total(f, m) \in Int
      /\ \A m \in 1 .. nchunk : Total(f, m) = Total(f, m - 1) + f[m]
  <2>1. \A k \in 1 .. nchunk : f[k] \in Int
    BY <1>6
  <2>2. QED
    BY <1>4, <2>1, TotalSteps
<1>8. 0 \in A
  <2>1. 0 * chunk = 0 /\ 0 \in 0 .. nchunk
    BY <1>4
  <2>2. QED
    BY <1>7, <2>1
<1>9. ASSUME NEW m \in 1 .. nchunk, m - 1 \in A PROVE m \in A
  <2> DEFINE u == (m - 1) * chunk
             v == m * chunk
             x == Total(f, m - 1)
             y == Total(f, m)
  <2>1. (x >= u \/ x >= all) /\ x \in Int /\ y = x + f[m] /\ m - 1 \in 0 .. nchunk /\ m \in 0 .. nchunk
    BY <1>4, <1>7, <1>9
  <2>2. f[m] \in Nat /\ u \in Nat /\ v = u + chunk /\ (f[m] >= chunk \/ u + f[m] >= all)
    BY <1>6
  <2> HIDE DEF u, v, x, y
  <2>3. y >= v \/ y >= all
    BY <1>4, <1>5, <2>1, <2>2
  <2>4. QED
    BY <2>1, <2>3 DEF v, y
<1>10. nchunk \in A
  <2>1. nchunk \in 0 .. nchunk
    BY <1>4
  <2> HIDE DEF A
  <2>2. QED
    BY <1>4, <1>8, <1>9, <2>1, Rises
<1>11. Total(f, nchunk) >= all
  <2>1. nchunk * chunk \in Nat /\ Total(f, nchunk) \in Int
    BY <1>4, <1>7
  <2>2. QED
    BY <1>2, <1>4, <1>5, <1>10, <2>1
<1>12. QED
  BY <1>11 DEF Covered, Reported, f, all

LEMMA Lost ==
    ASSUME FetchInv
    PROVE  NothingLost
<1>1. ASSUME stage = "short" PROVE \E k \in DOMAIN cgot : cgot[k] < Requested(k)
  <2>1. /\ Reading /\ ~Covered /\ Laid(ref) /\ nchunk \in Nat
        /\ cgot \in [0 .. nchunk - 1 -> Nat \cup {NotRead}]
        /\ \A k \in 0 .. nchunk - 1 : cgot[k] # NotRead
    BY <1>1 DEF FetchInv, Reading, StageInv, WindowInv, EndInv
  <2>2. \A k \in 0 .. nchunk - 1 : cgot[k] \in Nat
    BY <2>1
  <2>3. CASE nchunk = 1
    <3>1. cgot[0] # ref.nbytes /\ cgot[0] <= ref.nbytes /\ cgot[0] \in Nat /\ ref.nbytes \in Nat
      BY <2>1, <2>2, <2>3 DEF Covered, FetchInv, ReadInv, Laid
    <3>2. Requested(0) = ref.nbytes /\ 0 \in DOMAIN cgot
      BY <2>1, <2>3 DEF Requested
    <3>3. QED
      BY <3>1, <3>2
  <2>4. CASE nchunk # 1
    <3>1. Laid(ref) /\ ref.contiguous /\ Divided(len, chunk, nchunk)
      BY <2>1, <2>4 DEF FetchInv, WindowInv
    <3>2. ASSUME NEW k \in 0 .. nchunk - 1 PROVE Requested(k) \in Int
      <4> DEFINE pos == k * chunk
      <4>1. size \in Nat /\ lo \in Nat /\ len \in Nat
        <5>1. disk[ref.shard].size \in Nat
          BY <3>1, CheckpointAssumption DEF Laid, FetchInv, IndexInv
        <5>2. QED
          BY <3>1, <5>1, WindowIs DEF size
      <4>2. chunk \in Nat /\ pos \in Nat
        BY <2>1, <3>1 DEF Divided
      <4>3. Requested(k) = Min({chunk, len - pos, size - lo - pos})
        BY <2>4 DEF Requested
      <4> HIDE DEF pos
      <4>4. chunk \in Int /\ len - pos \in Int /\ size - lo - pos \in Int
        BY <4>1, <4>2
      <4>5. Min({chunk, len - pos, size - lo - pos}) \in {chunk, len - pos, size - lo - pos}
        BY ONLY <4>4, MinThree
      <4>6. QED
        BY <4>3, <4>4, <4>5
    <3>3. ~(\A k \in 0 .. nchunk - 1 : cgot[k] \in Nat /\ Requested(k) <= cgot[k])
      BY <2>1, <2>4, AllAsked
    <3>4. PICK k \in 0 .. nchunk - 1 : ~(Requested(k) <= cgot[k])
      BY <2>2, <3>3
    <3>5. cgot[k] \in Nat /\ Requested(k) \in Int /\ k \in DOMAIN cgot
      BY <2>1, <2>2, <3>2
    <3>6. QED
      BY <3>4, <3>5
  <2>5. QED
    BY <2>3, <2>4
<1>2. ASSUME stage = "read", up(ref.nbytes + 2 * ALIGN) <= slot_bytes PROVE len <= slot_bytes
  <2>1. Laid(ref) /\ ref.off \in Nat /\ ref.nbytes \in Nat /\ ALIGN \in Nat /\ slot_bytes \in Nat
    BY <1>2, ReadAssumption DEF FetchInv, StageInv, Laid, Given
  <2>2. /\ lo \in Nat /\ len \in Nat /\ ref.off < lo + ALIGN
        /\ lo + len < ref.off + ref.nbytes + ALIGN
    BY <2>1, WindowIs
  <2>3. ref.nbytes + 2 * ALIGN \in Nat
    BY <2>1
  <2>4. up(ref.nbytes + 2 * ALIGN) \in Nat /\ ref.nbytes + 2 * ALIGN <= up(ref.nbytes + 2 * ALIGN)
    BY <2>3, UpIs
  <2>5. QED
    BY <1>2, <2>1, <2>2, <2>4
<1>3. QED
  BY <1>1, <1>2 DEF NothingLost

-----------------------------------------------------------------------------
(* The theorems. *)

(* The reads of an expert are well typed, for every directory, batch and    *)
(* size of chunk: the work items of cache_getmany never outgrow its arrays, *)
(* and the pad in front of an expert is less than the alignment.            *)
THEOREM ReadTyped == ReadSpec => []ReadTypeOK
<1>1. FetchInv => ReadTypeOK
  BY Typed
<1>2. QED
  BY <1>1, Invariance, PTL

(* A checkpoint that k3_st_open accepts finds every one of its tensors by   *)
(* its name, whatever fnv1a makes of the names, and gives each byte of a    *)
(* shard up to its last tensor one owner and no more.                       *)
THEOREM IndexOwns == ReadSpec => []OneOwner
<1>1. FetchInv => OneOwner
  <2>1. st = "open" /\ FetchInv => Ready
    BY DEF FetchInv, IndexInv
  <2>2. st # "open" => OneOwner
    BY DEF OneOwner
  <2>3. QED
    BY <2>1, <2>2, Owned
<1>2. QED
  BY <1>1, Invariance, PTL

(* Where a transfer that fails stops on the alignment of the reads, or at   *)
(* the end of the file, an expert that is published is whole: in one read,  *)
(* in chunks of any size read in any order, or part by part; and one that   *)
(* is not was lost to a read that fell short of what was asked of it.       *)
THEOREM ServesWhole ==
    ASSUME BLOCK % ALIGN = 0
    PROVE  ReadSpec => []ExpertWhole
<1>1. FetchInv => ExpertWhole
  BY Whole, Lost DEF ExpertWhole
<1>2. QED
  BY <1>1, Invariance, PTL

(* Without a word about where a transfer stops, none is lost to the         *)
(* division of its window or to the size of the slot.                       *)
THEOREM LosesNothing == ReadSpec => []NothingLost
<1>1. FetchInv => NothingLost
  BY Lost
<1>2. QED
  BY <1>1, Invariance, PTL

-----------------------------------------------------------------------------
USE CacheAssumption

(* The two markers are told apart, and are no keys. *)
LEMMA Markers ==
    /\ EMPTY # INFLIGHT /\ Torn = EMPTY
    /\ EMPTY \notin Keys /\ INFLIGHT \notin Keys
    /\ None \notin Slots
BY DEF EMPTY, INFLIGHT, Torn, None, Slots

(* Maps, bytes, reservations and pins: what neither the place in a batch    *)
(* nor the counters take part in.                                           *)
Books == MapsAgree /\ RegisteredWhole /\ Reservations /\ ReadsKept /\ PinnedResident

LEMMA InitInv == Init => IInv
<1> SUFFICES ASSUME Init PROVE IInv
  OBVIOUS
<1>1. ids \in Seq(Keys)
  BY DEF Init
<1>2. used_at \in [Slots -> Slots]
  BY DEF Init, Slots
<1>3. TypeOK
  <2>1. key_of \in [Slots -> Keys \cup {EMPTY, INFLIGHT}] /\ slot_of \in [Keys -> Slots \cup {None}]
    BY DEF Init
  <2>2. data \in [Slots -> Keys \cup {Torn}] /\ reads \in [Keys -> Nat]
    BY DEF Init
  <2>3. pinned \in SUBSET Slots /\ work \in SUBSET Work
    BY DEF Init
  <2>4. getmany \in BOOLEAN /\ drops \in BOOLEAN
    BY DEF Init
  <2>5. using \in Slots \cup {None} /\ at \in Nat \ {0} /\ hits \in Nat /\ prefetch_reads \in Nat
        /\ fails \in Nat /\ pc \in {"idle", "reserve", "publish", "get", "use"}
    BY DEF Init
  <2>6. QED
    BY <1>1, <1>2, <2>1, <2>2, <2>3, <2>4, <2>5 DEF TypeOK
<1>4. MapsAgree /\ RegisteredWhole /\ ReadsKept /\ PinnedResident
  BY Markers DEF Init, MapsAgree, RegisteredWhole, ReadsKept, PinnedResident
<1>5. Reservations
  BY Markers DEF Init, Reservations
<1>6. ServesAsked /\ Paced
  BY DEF Init, ServesAsked, Paced
<1>7. QED
  BY <1>3, <1>4, <1>5, <1>6 DEF IInv

-----------------------------------------------------------------------------
(* A victim is neither pinned nor reserved. *)
LEMMA VictimIsFree ==
    ASSUME TypeOK, Books, NEW s \in Slots, pick_victim(s)
    PROVE  /\ key_of[s] \in Keys \cup {EMPTY}
           /\ s \notin pinned
           /\ \A w \in work : w.slot # s
<1>1. key_of[s] = EMPTY \/ (key_of[s] \in Keys /\ s \notin pinned)
  BY DEF pick_victim, Candidates
<1>2. key_of[s] # INFLIGHT
  BY <1>1, Markers
<1>3. \A w \in work : w.slot # s
  BY <1>2 DEF Books, Reservations
<1>4. s \notin pinned
  BY <1>1, Markers DEF Books, PinnedResident
<1>5. QED
  BY <1>1, <1>3, <1>4

(* Evicting takes the slot from whichever expert has it, and from no other. *)
LEMMA Eviction ==
    ASSUME TypeOK, MapsAgree, NEW s \in Slots
    PROVE  /\ evicted(s) \in [Keys -> Slots \cup {None}]
           /\ \A k \in Keys : evicted(s)[k] = IF slot_of[k] = s THEN None ELSE slot_of[k]
<1>1. CASE key_of[s] \in Keys
  <2>1. \A k \in Keys : slot_of[k] = s <=> k = key_of[s]
    BY DEF MapsAgree
  <2>2. evicted(s) = [slot_of EXCEPT ![key_of[s]] = None]
    BY <1>1 DEF evicted
  <2>3. QED
    BY <1>1, <2>1, <2>2 DEF TypeOK
<1>2. CASE key_of[s] \notin Keys
  <2>1. \A k \in Keys : slot_of[k] # s
    BY <1>2 DEF MapsAgree
  <2>2. QED
    BY <1>2, <2>1 DEF TypeOK, evicted
<1>3. QED
  BY <1>1, <1>2

(* The ranks of the slots stay ranks. *)
LEMMA Touching ==
    ASSUME TypeOK, NEW s \in Slots
    PROVE  touched(s) \in [Slots -> Slots]
<1>1. \A q \in Slots : used_at[q] \in Slots
  BY DEF TypeOK
<1>2. \A q \in Slots : used_at[q] > used_at[s] => used_at[q] - 1 \in Slots
  BY <1>1 DEF Slots
<1>3. NSlots - 1 \in Slots
  BY DEF Slots
<1>4. QED
  BY <1>1, <1>2, <1>3 DEF touched

(* A list of experts of one layer is a sequence of keys. *)
LEMMA RoutedKeys ==
    ASSUME NEW L \in Layers, NEW list \in Lists(L)
    PROVE  list \in Seq(Keys)
<1>1. PICK n \in BatchLens : list \in [1 .. n -> {<<L, e>> : e \in Experts}]
  BY DEF Lists
<1>2. n \in Nat /\ {<<L, e>> : e \in Experts} \subseteq Keys
  BY CacheAssumption DEF Keys
<1>3. list \in [1 .. n -> Keys]
  BY <1>1, <1>2
<1>4. QED
  BY <1>2, <1>3

LEMMA BatchKey ==
    ASSUME TypeOK, at <= Len(ids)
    PROVE  ids[at] \in Keys
<1>1. Len(ids) \in Nat /\ at \in 1 .. Len(ids)
  BY LenProperties DEF TypeOK
<1>2. QED
  BY <1>1, ElementOfSeq DEF TypeOK

-----------------------------------------------------------------------------
(* What keeps the books. *)

LEMMA BooksStay ==
    ASSUME Books, UNCHANGED <<key_of, slot_of, data, pinned, work>>
    PROVE  Books'
BY DEF Books, MapsAgree, RegisteredWhole, Reservations, ReadsKept, PinnedResident, resident

(* A read on the caller's own thread, whole or short. *)
LEMMA AdmitKeeps ==
    ASSUME TypeOK, Books, NEW k \in Keys, NEW s \in Slots, NEW short \in BOOLEAN,
           AdmitMiss(k, s, short), work = {}, UNCHANGED <<pinned, work>>
    PROVE  Books'
<1>1. MapsAgree /\ pick_victim(s) /\ slot_of[k] = None
  BY DEF Books, AdmitMiss, resident
<1>2. s \notin pinned
  BY <1>1, VictimIsFree
<1>3. \A j \in Keys : evicted(s)[j] = IF slot_of[j] = s THEN None ELSE slot_of[j]
  BY <1>1, Eviction
<1>4. evicted(s) \in [Keys -> Slots \cup {None}]
  BY <1>1, Eviction
<1>5. CASE short
  <2>1. /\ slot_of' = evicted(s) /\ key_of' = [key_of EXCEPT ![s] = EMPTY]
        /\ data' = [data EXCEPT ![s] = Torn]
    BY <1>5 DEF AdmitMiss
  <2>2. \A q \in Slots : key_of'[q] = IF q = s THEN EMPTY ELSE key_of[q]
    BY <2>1 DEF TypeOK
  <2>3. MapsAgree'
    BY <1>1, <1>3, <2>1, <2>2, Markers DEF MapsAgree
  <2>4. RegisteredWhole'
    BY <2>1, <2>2, Markers DEF Books, RegisteredWhole, TypeOK
  <2>5. Reservations' /\ ReadsKept'
    BY <2>2, Markers DEF Books, Reservations, ReadsKept
  <2>6. PinnedResident'
    BY <1>2, <2>2 DEF Books, PinnedResident, TypeOK
  <2>7. QED
    BY <2>3, <2>4, <2>5, <2>6 DEF Books
<1>6. CASE ~short
  <2>1. /\ slot_of' = [evicted(s) EXCEPT ![k] = s] /\ key_of' = [key_of EXCEPT ![s] = k]
        /\ data' = [data EXCEPT ![s] = k]
    BY <1>6 DEF AdmitMiss
  <2>2. \A q \in Slots : key_of'[q] = IF q = s THEN k ELSE key_of[q]
    BY <2>1 DEF TypeOK
  <2>3. \A j \in Keys : slot_of'[j] = IF j = k THEN s ELSE evicted(s)[j]
    BY <1>4, <2>1
  <2>4. MapsAgree'
    BY <1>1, <1>3, <2>2, <2>3, Markers DEF MapsAgree
  <2>5. RegisteredWhole'
    BY <2>1, <2>2 DEF Books, RegisteredWhole, TypeOK
  <2>6. Reservations' /\ ReadsKept'
    BY <2>2, Markers DEF Books, Reservations, ReadsKept
  <2>7. PinnedResident'
    BY <1>2, <2>2 DEF Books, PinnedResident, TypeOK
  <2>8. QED
    BY <2>4, <2>5, <2>6, <2>7 DEF Books
<1>7. QED
  BY <1>5, <1>6

(* A slot reserved for a read of the batch. *)
LEMMA ReserveKeeps ==
    ASSUME TypeOK, Books, NEW s \in Slots, ReserveTakes(s)
    PROVE  Books'
<1> DEFINE k == ids[at]
           new == [slot |-> s, key |-> k, read |-> "going"]
<1>1. /\ pick_victim(s) /\ slot_of[k] = None /\ \A w \in work : w.key # k
      /\ slot_of' = evicted(s) /\ key_of' = [key_of EXCEPT ![s] = INFLIGHT]
      /\ data' = [data EXCEPT ![s] = Torn] /\ work' = work \cup {new}
      /\ pinned' = pinned
  BY DEF ReserveTakes, Wanted, resident
<1>2. s \notin pinned /\ \A w \in work : w.slot # s
  BY <1>1, VictimIsFree
<1>3. MapsAgree /\ Reservations
  BY DEF Books
<1>4. /\ evicted(s) \in [Keys -> Slots \cup {None}]
      /\ \A j \in Keys : evicted(s)[j] = IF slot_of[j] = s THEN None ELSE slot_of[j]
  BY <1>3, Eviction
<1>5. k \in Keys
  BY BatchKey DEF ReserveTakes, Reserving
<1>6. \A q \in Slots : key_of'[q] = IF q = s THEN INFLIGHT ELSE key_of[q]
  BY <1>1 DEF TypeOK
<1>7. new.slot = s /\ new.key = k /\ new.read = "going"
  OBVIOUS
<1>8. MapsAgree'
  BY <1>1, <1>3, <1>4, <1>6, Markers DEF MapsAgree
<1>9. RegisteredWhole'
  BY <1>1, <1>6, Markers DEF Books, RegisteredWhole, TypeOK
<1>10. Reservations'
  <2>1. \A v, w \in work' : v.slot = w.slot \/ v.key = w.key => v = w
    BY <1>1, <1>2, <1>3, <1>7 DEF Reservations
  <2>2. {q \in Slots : key_of'[q] = INFLIGHT} = {w.slot : w \in work'}
    <3>1. {w.slot : w \in work'} = {w.slot : w \in work} \cup {s}
      BY <1>1, <1>7
    <3>2. {q \in Slots : key_of'[q] = INFLIGHT} = {q \in Slots : key_of[q] = INFLIGHT} \cup {s}
      BY <1>6
    <3>3. QED
      BY <1>3, <3>1, <3>2 DEF Reservations
  <2>3. \A w \in work' : slot_of'[w.key] = None
    BY <1>1, <1>3, <1>4, <1>5, <1>7 DEF Reservations, resident, TypeOK, Work
  <2>4. QED
    BY <2>1, <2>2, <2>3 DEF Reservations, resident
<1>11. ReadsKept'
  BY <1>1, <1>2, <1>7 DEF Books, ReadsKept, TypeOK, Work
<1>12. PinnedResident'
  BY <1>1, <1>2, <1>6 DEF Books, PinnedResident, TypeOK
<1>13. QED
  BY <1>8, <1>9, <1>10, <1>11, <1>12 DEF Books

(* A read of the batch that ends: its slot, and no other's, has its bytes.  *)
LEMMA ReadKeeps ==
    ASSUME TypeOK, Books, NEW w \in work, ReadEnds(w)
    PROVE  Books'
<1>1. PICK short \in BOOLEAN :
         /\ work' = (work \ {w}) \cup {[w EXCEPT !.read = IF short THEN "short" ELSE "whole"]}
         /\ data' = [data EXCEPT ![w.slot] = IF short THEN Torn ELSE w.key]
  BY DEF ReadEnds
<1> DEFINE new == [w EXCEPT !.read = IF short THEN "short" ELSE "whole"]
<1>2. UNCHANGED <<key_of, slot_of, pinned>>
  BY DEF ReadEnds
<1>3. w \in Work /\ \A v \in work : v \in Work
  BY DEF TypeOK
<1>4. new.slot = w.slot /\ new.key = w.key /\ new.read = IF short THEN "short" ELSE "whole"
  BY <1>3 DEF Work
<1>5. work' = (work \ {w}) \cup {new}
  BY <1>1
<1> HIDE DEF new
<1>6. w.slot \in Slots /\ key_of[w.slot] = INFLIGHT
  BY <1>3 DEF Books, Reservations, Work
<1>7. MapsAgree' /\ PinnedResident'
  BY <1>2 DEF Books, MapsAgree, PinnedResident
<1>8. RegisteredWhole'
  BY <1>1, <1>2, <1>6, Markers DEF Books, RegisteredWhole, TypeOK
<1>9. Reservations'
  <2>1. \A u, v \in work' : u.slot = v.slot \/ u.key = v.key => u = v
    BY <1>4, <1>5 DEF Books, Reservations
  <2>2. {v.slot : v \in work'} = {v.slot : v \in work}
    <3>1. \A v \in work' : \E u \in work : u.slot = v.slot
      BY <1>4, <1>5
    <3>2. \A u \in work : \E v \in work' : v.slot = u.slot
      BY <1>4, <1>5
    <3>3. QED
      BY <3>1, <3>2
  <2>3. \A v \in work' : slot_of[v.key] = None
    BY <1>4, <1>5 DEF Books, Reservations, resident
  <2>4. QED
    BY <1>2, <2>1, <2>2, <2>3 DEF Books, Reservations, resident
<1>10. ReadsKept'
  <2>1. \A v \in work' : v # new => v \in work /\ v.slot # w.slot /\ v.slot \in Slots
    BY <1>3, <1>5 DEF Books, Reservations, Work
  <2>2. \A v \in work' : v # new => data'[v.slot] = data[v.slot]
    BY <1>1, <2>1 DEF TypeOK
  <2>3. new.read = "whole" => data'[new.slot] = new.key
    BY <1>1, <1>4, <1>6 DEF TypeOK
  <2>4. QED
    BY <2>1, <2>2, <2>3 DEF Books, ReadsKept
<1>11. QED
  BY <1>7, <1>8, <1>9, <1>10 DEF Books

(* A reservation that is redeemed, or given up. *)
LEMMA PublishKeeps ==
    ASSUME TypeOK, Books, NEW w \in work, Publish(w)
    PROVE  Books'
<1>1. work' = work \ {w} /\ UNCHANGED <<pinned, data>>
  BY DEF Publish
<1>2. w \in Work /\ \A v \in work : v \in Work
  BY DEF TypeOK
<1>3. /\ w.slot \in Slots /\ w.key \in Keys
      /\ key_of[w.slot] = INFLIGHT /\ slot_of[w.key] = None
  BY <1>2 DEF Books, Reservations, Work, resident
<1>4. \A v \in work' : v \in work /\ v.slot # w.slot /\ v.key # w.key /\ v.key \in Keys
  BY <1>1, <1>2 DEF Books, Reservations, Work
<1>5. w.slot \notin pinned
  BY <1>3, Markers DEF Books, PinnedResident
<1>6. ReadsKept'
  BY <1>1 DEF Books, ReadsKept
<1>7. {v.slot : v \in work'} = {v.slot : v \in work} \ {w.slot}
  BY <1>1, <1>4
<1>8. \A u, v \in work' : u.slot = v.slot \/ u.key = v.key => u = v
  BY <1>4 DEF Books, Reservations
<1>9. \A v \in work' : slot_of[v.key] = None
  BY <1>4 DEF Books, Reservations, resident
<1>10. CASE w.read = "whole"
  <2>1. /\ key_of' = [key_of EXCEPT ![w.slot] = w.key]
        /\ slot_of' = [slot_of EXCEPT ![w.key] = w.slot]
    BY <1>10 DEF Publish
  <2>2. \A q \in Slots : key_of'[q] = IF q = w.slot THEN w.key ELSE key_of[q]
    BY <2>1 DEF TypeOK
  <2>3. \A k \in Keys : slot_of'[k] = IF k = w.key THEN w.slot ELSE slot_of[k]
    BY <2>1 DEF TypeOK
  <2>4. MapsAgree'
    BY <1>3, <2>2, <2>3, Markers DEF Books, MapsAgree
  <2>5. data[w.slot] = w.key
    BY <1>10 DEF Books, ReadsKept
  <2>6. RegisteredWhole'
    BY <1>1, <2>2, <2>5 DEF Books, RegisteredWhole
  <2>7. {q \in Slots : key_of'[q] = INFLIGHT} = {q \in Slots : key_of[q] = INFLIGHT} \ {w.slot}
    BY <1>3, <2>2, Markers
  <2>8. \A v \in work' : slot_of'[v.key] = None
    BY <1>4, <1>9, <2>3
  <2>9. Reservations'
    BY <1>7, <1>8, <2>7, <2>8 DEF Books, Reservations, resident
  <2>10. PinnedResident'
    BY <1>1, <1>5, <2>2 DEF Books, PinnedResident, TypeOK
  <2>11. QED
    BY <1>6, <2>4, <2>6, <2>9, <2>10 DEF Books
<1>11. CASE w.read # "whole"
  <2>1. key_of' = [key_of EXCEPT ![w.slot] = EMPTY] /\ slot_of' = slot_of
    BY <1>11 DEF Publish
  <2>2. \A q \in Slots : key_of'[q] = IF q = w.slot THEN EMPTY ELSE key_of[q]
    BY <2>1 DEF TypeOK
  <2>3. MapsAgree'
    BY <1>3, <2>1, <2>2, Markers DEF Books, MapsAgree
  <2>4. RegisteredWhole'
    BY <1>1, <2>2, Markers DEF Books, RegisteredWhole
  <2>5. {q \in Slots : key_of'[q] = INFLIGHT} = {q \in Slots : key_of[q] = INFLIGHT} \ {w.slot}
    BY <1>3, <2>2, Markers
  <2>6. Reservations'
    BY <1>7, <1>8, <1>9, <2>1, <2>5 DEF Books, Reservations, resident
  <2>7. PinnedResident'
    BY <1>1, <1>5, <2>2 DEF Books, PinnedResident, TypeOK
  <2>8. QED
    BY <1>6, <2>3, <2>4, <2>6, <2>7 DEF Books
<1>12. QED
  BY <1>10, <1>11

(* Only a resident expert is pinned, and only its slot. *)
LEMMA PinKeeps ==
    ASSUME TypeOK, Books, NEW k \in Keys, Pin(k) \/ Unpin(k)
    PROVE  Books'
<1>1. UNCHANGED <<key_of, slot_of, data, work>>
  BY DEF Pin, Unpin, maps
<1>2. MapsAgree' /\ RegisteredWhole' /\ Reservations' /\ ReadsKept'
  BY <1>1 DEF Books, MapsAgree, RegisteredWhole, Reservations, ReadsKept, resident
<1>3. slot_of[k] \in Slots /\ key_of[slot_of[k]] = k
  BY DEF Books, MapsAgree, Pin, Unpin, resident, TypeOK
<1>4. pinned' \subseteq pinned \cup {slot_of[k]}
  BY DEF Pin, Unpin
<1>5. PinnedResident'
  BY <1>1, <1>3, <1>4 DEF Books, PinnedResident
<1>6. QED
  BY <1>2, <1>5 DEF Books

(* Every step keeps the books. *)
LEMMA BooksStep ==
    ASSUME IInv, [Next]_vars
    PROVE  Books'
<1> USE DEF maps, count
<1>1. TypeOK /\ Books /\ Paced
  BY DEF IInv, Books
<1>2. ASSUME UNCHANGED <<key_of, slot_of, data, pinned, work>> PROVE Books'
  BY <1>1, <1>2, BooksStay
<1>3. CASE Layer
  BY <1>2, <1>3 DEF Layer, Route
<1>4. CASE Batch
  <2>1. CASE ReserveSkips \/ ReserveEnds \/ PublishEnds
    BY <1>2, <2>1 DEF ReserveSkips, ReserveEnds, PublishEnds
  <2>2. ASSUME NEW s \in Slots, ReserveTakes(s) PROVE Books'
    BY <1>1, <2>2, ReserveKeeps
  <2>3. ASSUME NEW w \in work, ReadEnds(w) PROVE Books'
    BY <1>1, <2>3, ReadKeeps
  <2>4. ASSUME NEW w \in work, Publish(w) PROVE Books'
    BY <1>1, <2>4, PublishKeeps
  <2>5. QED
    BY <1>4, <2>1, <2>2, <2>3, <2>4 DEF Batch
<1>5. CASE Get
  <2>1. ASSUME NEW k \in Keys, GetHit(k) \/ GetRefused(k) PROVE Books'
    BY <1>2, <2>1 DEF GetHit, GetRefused
  <2>2. ASSUME NEW k \in Keys, NEW s \in Slots, GetLoads(k, s) PROVE Books'
    BY <1>1, <2>2, AdmitKeeps DEF GetLoads, Getting, Paced
  <2>3. ASSUME NEW k \in Keys, NEW s \in Slots, GetLoadsShort(k, s) PROVE Books'
    BY <1>1, <2>3, AdmitKeeps DEF GetLoadsShort, Getting, Paced
  <2>4. QED
    BY <1>5, <2>1, <2>2, <2>3 DEF Get
<1>6. CASE Used \/ BatchDone
  BY <1>2, <1>6 DEF Used, BatchDone, vars
<1>7. CASE Api
  <2>1. ASSUME NEW k \in Keys, Pin(k) \/ Unpin(k) PROVE Books'
    BY <1>1, <2>1, PinKeeps
  <2>2. ASSUME NEW k \in Keys, NEW s \in Slots, NEW short \in BOOLEAN,
               PrefetchOne(k, s, short)
        PROVE  Books'
    BY <1>1, <2>2, AdmitKeeps DEF PrefetchOne, Paced
  <2>3. QED
    BY <1>7, <2>1, <2>2 DEF Api
<1>8. CASE UNCHANGED vars
  BY <1>2, <1>8 DEF vars
<1>9. QED
  BY <1>3, <1>4, <1>5, <1>6, <1>7, <1>8 DEF Next

-----------------------------------------------------------------------------
(* Types. *)

LEMMA AdmitTypes ==
    ASSUME TypeOK, MapsAgree, NEW k \in Keys, NEW s \in Slots, NEW short \in BOOLEAN,
           AdmitMiss(k, s, short)
    PROVE  /\ key_of' \in [Slots -> Keys \cup {EMPTY, INFLIGHT}]
           /\ slot_of' \in [Keys -> Slots \cup {None}]
           /\ used_at' \in [Slots -> Slots]
           /\ data' \in [Slots -> Keys \cup {Torn}]
           /\ fails' \in Nat
<1>1. evicted(s) \in [Keys -> Slots \cup {None}] /\ touched(s) \in [Slots -> Slots]
  BY Eviction, Touching
<1>2. fails' \in Nat
  BY DEF AdmitMiss, Load, TypeOK
<1>3. key_of' \in [Slots -> Keys \cup {EMPTY, INFLIGHT}] /\ data' \in [Slots -> Keys \cup {Torn}]
  BY DEF AdmitMiss, TypeOK
<1>4. slot_of' \in [Keys -> Slots \cup {None}]
  BY <1>1 DEF AdmitMiss
<1>5. used_at' \in [Slots -> Slots]
  BY <1>1 DEF AdmitMiss, TypeOK
<1>6. QED
  BY <1>2, <1>3, <1>4, <1>5

LEMMA CountTypes ==
    ASSUME TypeOK, NEW k \in Keys, CountRead(k)
    PROVE  reads' \in [Keys -> Nat]
BY DEF TypeOK, CountRead

LEMMA TypeStep ==
    ASSUME IInv, [Next]_vars
    PROVE  TypeOK'
<1> USE DEF maps, count
<1>1. TypeOK /\ Books /\ MapsAgree
  BY DEF IInv, Books
<1>2. CASE Layer
  <2>1. PICK L \in Layers : \E list \in Lists(L) : Route(list)
    BY <1>2 DEF Layer
  <2>2. PICK list \in Lists(L) : Route(list)
    BY <2>1
  <2>3. list \in Seq(Keys)
    BY RoutedKeys
  <2>4. reads' \in [Keys -> Nat] /\ hits' \in Nat /\ prefetch_reads' \in Nat
    BY <1>1, <2>2 DEF Route, TypeOK
  <2>5. QED
    BY <1>1, <2>2, <2>3, <2>4 DEF Route, TypeOK
<1>3. CASE Batch
  <2>1. CASE ReserveSkips
    BY <1>1, <2>1 DEF ReserveSkips, TypeOK
  <2>2. CASE ReserveEnds
    BY <1>1, <2>2 DEF ReserveEnds, TypeOK
  <2>3. CASE PublishEnds
    BY <1>1, <2>3 DEF PublishEnds, TypeOK
  <2>4. ASSUME NEW s \in Slots, ReserveTakes(s) PROVE TypeOK'
    <3>1. evicted(s) \in [Keys -> Slots \cup {None}] /\ touched(s) \in [Slots -> Slots]
      BY <1>1, Eviction, Touching
    <3>2. ids[at] \in Keys
      BY <1>1, <2>4, BatchKey DEF ReserveTakes, Reserving
    <3>3. work' \in SUBSET Work
      BY <1>1, <2>4, <3>2 DEF ReserveTakes, TypeOK, Work
    <3>4. key_of' \in [Slots -> Keys \cup {EMPTY, INFLIGHT}] /\ data' \in [Slots -> Keys \cup {Torn}]
      BY <1>1, <2>4 DEF ReserveTakes, TypeOK
    <3>5. slot_of' \in [Keys -> Slots \cup {None}] /\ used_at' \in [Slots -> Slots]
      BY <2>4, <3>1 DEF ReserveTakes
    <3>6. QED
      BY <1>1, <2>4, <3>3, <3>4, <3>5 DEF ReserveTakes, TypeOK
  <2>5. ASSUME NEW w \in work, ReadEnds(w) PROVE TypeOK'
    <3>1. w \in Work /\ w.slot \in Slots /\ w.key \in Keys
      BY <1>1 DEF TypeOK, Work
    <3>2. PICK short \in BOOLEAN :
            /\ Load(short)
            /\ work' = (work \ {w}) \cup {[w EXCEPT !.read = IF short THEN "short" ELSE "whole"]}
            /\ data' = [data EXCEPT ![w.slot] = IF short THEN Torn ELSE w.key]
      BY <2>5 DEF ReadEnds
    <3>3. work' \in SUBSET Work
      BY <1>1, <3>1, <3>2 DEF TypeOK, Work
    <3>4. data' \in [Slots -> Keys \cup {Torn}]
      BY <1>1, <3>1, <3>2 DEF TypeOK
    <3>5. reads' \in [Keys -> Nat]
      BY <1>1, <2>5, <3>1, CountTypes DEF ReadEnds
    <3>6. fails' \in Nat
      BY <1>1, <3>2 DEF Load, TypeOK
    <3>7. QED
      BY <1>1, <2>5, <3>3, <3>4, <3>5, <3>6 DEF ReadEnds, TypeOK
  <2>6. ASSUME NEW w \in work, Publish(w) PROVE TypeOK'
    <3>1. w \in Work /\ w.slot \in Slots /\ w.key \in Keys
      BY <1>1 DEF TypeOK, Work
    <3>2. touched(w.slot) \in [Slots -> Slots]
      BY <1>1, <3>1, Touching
    <3>3. work' \in SUBSET Work
      BY <1>1, <2>6 DEF Publish, TypeOK
    <3>4. key_of' \in [Slots -> Keys \cup {EMPTY, INFLIGHT}]
      BY <1>1, <2>6, <3>1 DEF Publish, TypeOK
    <3>5. slot_of' \in [Keys -> Slots \cup {None}]
      BY <1>1, <2>6, <3>1 DEF Publish, TypeOK
    <3>6. used_at' \in [Slots -> Slots] /\ prefetch_reads' \in Nat
      BY <1>1, <2>6, <3>2 DEF Publish, TypeOK
    <3>7. UNCHANGED <<pinned, data, getmany, pc, ids, at, using, reads, hits, drops, fails>>
      BY <2>6 DEF Publish
    <3>8. QED
      BY <1>1, <3>3, <3>4, <3>5, <3>6, <3>7 DEF TypeOK
  <2>7. QED
    BY <1>3, <2>1, <2>2, <2>3, <2>4, <2>5, <2>6 DEF Batch
<1>4. CASE Get
  <2>1. ASSUME NEW k \in Keys, GetHit(k) PROVE TypeOK'
    <3>1. slot_of[k] \in Slots
      BY <1>1, <2>1 DEF GetHit, resident, TypeOK
    <3>2. touched(slot_of[k]) \in [Slots -> Slots]
      BY <1>1, <3>1, Touching
    <3>3. QED
      BY <1>1, <2>1, <3>1, <3>2 DEF GetHit, TypeOK
  <2>2. ASSUME NEW k \in Keys, GetRefused(k) PROVE TypeOK'
    BY <1>1, <2>2 DEF GetRefused, TypeOK
  <2>3. ASSUME NEW k \in Keys, NEW s \in Slots, GetLoads(k, s) PROVE TypeOK'
    <3>1. AdmitMiss(k, s, FALSE) /\ CountRead(k)
      BY <2>3 DEF GetLoads
    <3>2. QED
      BY <1>1, <2>3, <3>1, AdmitTypes, CountTypes DEF GetLoads, TypeOK
  <2>4. ASSUME NEW k \in Keys, NEW s \in Slots, GetLoadsShort(k, s) PROVE TypeOK'
    <3>1. AdmitMiss(k, s, TRUE) /\ CountRead(k)
      BY <2>4 DEF GetLoadsShort
    <3>2. /\ key_of' \in [Slots -> Keys \cup {EMPTY, INFLIGHT}]
          /\ slot_of' \in [Keys -> Slots \cup {None}]
          /\ used_at' \in [Slots -> Slots]
          /\ data' \in [Slots -> Keys \cup {Torn}]
          /\ fails' \in Nat
      BY <1>1, <3>1, AdmitTypes
    <3>3. reads' \in [Keys -> Nat]
      BY <1>1, <3>1, CountTypes
    <3>4. QED
      BY <1>1, <2>4, <3>2, <3>3 DEF GetLoadsShort, TypeOK
  <2>5. QED
    BY <1>4, <2>1, <2>2, <2>3, <2>4 DEF Get
<1>5. CASE Used
  BY <1>1, <1>5 DEF Used, TypeOK
<1>6. CASE BatchDone
  BY <1>1, <1>6 DEF BatchDone, TypeOK
<1>7. CASE Api
  <2>1. ASSUME NEW k \in Keys, Pin(k) \/ Unpin(k) PROVE TypeOK'
    BY <1>1, <2>1 DEF Pin, Unpin, resident, TypeOK
  <2>2. ASSUME NEW k \in Keys, NEW s \in Slots, NEW short \in BOOLEAN,
               PrefetchOne(k, s, short)
        PROVE  TypeOK'
    BY <1>1, <2>2, AdmitTypes DEF PrefetchOne, TypeOK
  <2>3. QED
    BY <1>7, <2>1, <2>2 DEF Api
<1>8. CASE UNCHANGED vars
  BY <1>1, <1>8 DEF vars, TypeOK
<1>9. QED
  BY <1>2, <1>3, <1>4, <1>5, <1>6, <1>7, <1>8 DEF Next

-----------------------------------------------------------------------------
(* The order of a batch, and what the matmul reads. *)

LEMMA PaceStep ==
    ASSUME IInv, [Next]_vars
    PROVE  ServesAsked' /\ Paced'
<1> USE DEF maps, count
<1>1. TypeOK /\ MapsAgree /\ RegisteredWhole /\ ServesAsked /\ Paced
  BY DEF IInv
<1>2. Len(ids) \in Nat /\ at \in Nat \ {0}
  BY <1>1 DEF TypeOK
<1>3. CASE Layer
  <2>1. PICK L \in Layers : \E list \in Lists(L) : Route(list)
    BY <1>3 DEF Layer
  <2>2. PICK list \in Lists(L) : Route(list)
    BY <2>1
  <2>3. Len(list) \in Nat
    BY RoutedKeys, LenProperties
  <2>4. QED
    BY <1>1, <2>2, <2>3 DEF Route, ServesAsked, Paced
<1>4. CASE Batch
  BY <1>2, <1>4 DEF Batch, ReserveSkips, ReserveTakes, ReserveEnds, ReadEnds, Publish, PublishEnds,
     Reserving, AllRead, ServesAsked, Paced
<1>5. CASE Get
  <2>1. ASSUME NEW k \in Keys, GetHit(k) PROVE ServesAsked' /\ Paced'
    <3>1. slot_of[k] \in Slots /\ key_of[slot_of[k]] = k /\ data[slot_of[k]] = k
      BY <1>1, <2>1 DEF GetHit, resident, TypeOK, MapsAgree, RegisteredWhole
    <3>2. QED
      BY <1>1, <2>1, <3>1 DEF GetHit, Getting, ServesAsked, Paced
  <2>2. ASSUME NEW k \in Keys, GetRefused(k) PROVE ServesAsked' /\ Paced'
    BY <1>1, <1>2, <2>2 DEF GetRefused, Getting, ServesAsked, Paced
  <2>3. ASSUME NEW k \in Keys, NEW s \in Slots, GetLoads(k, s) PROVE ServesAsked' /\ Paced'
    <3>1. key_of'[s] = k /\ data'[s] = k
      BY <1>1, <2>3 DEF GetLoads, AdmitMiss, TypeOK
    <3>2. QED
      BY <1>1, <2>3, <3>1 DEF GetLoads, Getting, ServesAsked, Paced
  <2>4. ASSUME NEW k \in Keys, NEW s \in Slots, GetLoadsShort(k, s) PROVE ServesAsked' /\ Paced'
    BY <1>1, <1>2, <2>4 DEF GetLoadsShort, Getting, ServesAsked, Paced
  <2>5. QED
    BY <1>5, <2>1, <2>2, <2>3, <2>4 DEF Get
<1>6. CASE Used \/ BatchDone
  BY <1>1, <1>2, <1>6 DEF Used, BatchDone, ServesAsked, Paced
<1>7. CASE Api
  BY <1>1, <1>7 DEF Api, Pin, Unpin, PrefetchOne, ServesAsked, Paced
<1>8. CASE UNCHANGED vars
  BY <1>1, <1>8 DEF vars, ServesAsked, Paced
<1>9. QED
  BY <1>3, <1>4, <1>5, <1>6, <1>7, <1>8 DEF Next

-----------------------------------------------------------------------------
(* The bookkeeping, the bytes and the pace of a batch hold together, in     *)
(* every state of k3_cache.c.                                               *)
THEOREM InvHolds == Spec => []IInv
<1>1. IInv /\ [Next]_vars => IInv'
  BY TypeStep, BooksStep, PaceStep DEF IInv, Books
<1>2. QED
  BY InitInv, <1>1, PTL DEF Spec

(* The fields of the cache keep their types. *)
THEOREM TypesHold == Spec => []TypeOK
<1>1. IInv => TypeOK
  BY DEF IInv
<1>2. QED
  BY InvHolds, <1>1, PTL

(* Whatever comes back short, the reads of a batch have a buffer each, and  *)
(* no slot stays reserved after it.                                         *)
THEOREM ReservationsHold == Spec => []Reservations
<1>1. IInv => Reservations
  BY DEF IInv
<1>2. QED
  BY InvHolds, <1>1, PTL

(* A slot is registered to an expert only with all of that expert in it.    *)
THEOREM WholeHolds == Spec => []RegisteredWhole
<1>1. IInv => RegisteredWhole
  BY DEF IInv
<1>2. QED
  BY InvHolds, <1>1, PTL

(* The matmul of an expert reads that expert, whatever was evicted since.   *)
THEOREM ServesHold == Spec => []ServesAsked
<1>1. IInv => ServesAsked
  BY DEF IInv
<1>2. QED
  BY InvHolds, <1>1, PTL

(* Pinning protects an expert: its slot changes neither key nor bytes in    *)
(* any step that begins with it pinned.                                     *)
LEMMA PinnedStep ==
    ASSUME IInv, [Next]_vars, NEW q \in pinned
    PROVE  key_of'[q] = key_of[q] /\ data'[q] = data[q]
<1> USE DEF maps, count
<1>1. TypeOK /\ Books
  BY DEF IInv, Books
<1>2. q \in Slots /\ key_of[q] \in Keys
  BY <1>1 DEF TypeOK, Books, PinnedResident
<1>3. ASSUME UNCHANGED <<key_of, data>> PROVE key_of'[q] = key_of[q] /\ data'[q] = data[q]
  BY <1>3
<1>4. ASSUME NEW k \in Keys, NEW s \in Slots, NEW short \in BOOLEAN, AdmitMiss(k, s, short)
      PROVE  key_of'[q] = key_of[q] /\ data'[q] = data[q]
  <2>1. s # q
    BY <1>1, <1>4, VictimIsFree DEF AdmitMiss
  <2>2. QED
    BY <1>1, <1>2, <1>4, <2>1 DEF AdmitMiss, TypeOK
<1>5. CASE Layer \/ Used \/ BatchDone \/ UNCHANGED vars
  BY <1>3, <1>5 DEF Layer, Route, Used, BatchDone, vars
<1>6. CASE Batch
  <2>1. CASE ReserveSkips \/ ReserveEnds \/ PublishEnds
    BY <1>3, <2>1 DEF ReserveSkips, ReserveEnds, PublishEnds
  <2>2. ASSUME NEW s \in Slots, ReserveTakes(s)
        PROVE  key_of'[q] = key_of[q] /\ data'[q] = data[q]
    <3>1. s # q
      BY <1>1, <2>2, VictimIsFree DEF ReserveTakes
    <3>2. QED
      BY <1>1, <1>2, <2>2, <3>1 DEF ReserveTakes, TypeOK
  <2>3. ASSUME NEW w \in work PROVE w.slot # q
    BY <1>1, <1>2, Markers DEF Books, Reservations
  <2>4. ASSUME NEW w \in work, ReadEnds(w)
        PROVE  key_of'[q] = key_of[q] /\ data'[q] = data[q]
    BY <1>1, <1>2, <2>3, <2>4 DEF ReadEnds, TypeOK
  <2>5. ASSUME NEW w \in work, Publish(w)
        PROVE  key_of'[q] = key_of[q] /\ data'[q] = data[q]
    BY <1>1, <1>2, <2>3, <2>5 DEF Publish, TypeOK
  <2>6. QED
    BY <1>6, <2>1, <2>2, <2>4, <2>5 DEF Batch
<1>7. CASE Get
  BY <1>3, <1>4, <1>7 DEF Get, GetHit, GetRefused, GetLoads, GetLoadsShort
<1>8. CASE Api
  BY <1>3, <1>4, <1>8 DEF Api, Pin, Unpin, PrefetchOne
<1>9. QED
  BY <1>5, <1>6, <1>7, <1>8 DEF Next

THEOREM PinsHold == Spec => PinnedStays
<1>1. IInv /\ [Next]_vars => [\A s \in pinned : key_of'[s] = key_of[s] /\ data'[s] = data[s]]_vars
  BY PinnedStep
<1>2. QED
  BY InvHolds, <1>1, PTL DEF Spec, PinnedStays

-----------------------------------------------------------------------------
(* The refinement: a get lends or passes over, a use returns, and the rest  *)
(* of a batch is invisible to the layer.                                    *)

LEMMA LoanStep ==
    ASSUME IInv, [Next]_vars
    PROVE  [Source!Next]_(Source!vars)
<1> USE DEF maps, count
<1>1. TypeOK /\ ServesAsked /\ Paced
  BY DEF IInv
<1>2. /\ Len(ids) \in Nat /\ at \in Nat \ {0} /\ INFLIGHT \notin Keys
      /\ pc \in {"idle", "reserve", "publish", "get", "use"}
      /\ \A i \in 1 .. Len(ids) : ids[i] \in Keys
  BY <1>1, Markers DEF TypeOK
<1>3. /\ pc \in {"get", "use"} => Dealt = at - 1
      /\ pc = "idle" => Dealt = Len(ids)
      /\ pc \in {"reserve", "publish"} => Dealt = 0
      /\ pc = "use" => LentExpert = data[using]
      /\ pc # "use" => LentExpert = INFLIGHT
  BY <1>2 DEF Dealt, LentExpert
<1>4. /\ pc' \in {"get", "use"} => Dealt' = at' - 1
      /\ pc' = "idle" => Dealt' = Len(ids')
      /\ pc' \in {"reserve", "publish"} => Dealt' = 0
      /\ pc' = "use" => LentExpert' = data'[using']
      /\ pc' # "use" => LentExpert' = INFLIGHT
  BY DEF Dealt, LentExpert
<1>5. CASE UNCHANGED <<pc, ids, at, drops>> /\ pc # "use"
  BY <1>2, <1>3, <1>4, <1>5 DEF Source!vars
<1>6. CASE Layer
  <2>1. PICK L \in Layers : \E list \in Lists(L) : Route(list)
    BY <1>6 DEF Layer
  <2>2. PICK list \in Lists(L) : Route(list)
    BY <2>1
  <2>3. list \in Seq(Keys)
    BY RoutedKeys
  <2>4. Source!Ask
    BY <1>3, <1>4, <2>2, <2>3 DEF Route, Source!Ask
  <2>5. QED
    BY <2>4 DEF Source!Next
<1>7. CASE Batch
  <2>1. /\ pc \in {"reserve", "publish"} /\ pc' \in {"reserve", "publish", "get"}
        /\ pc' = "get" => at' = 1
        /\ UNCHANGED <<ids, drops>>
    BY <1>7 DEF Batch, ReserveSkips, ReserveTakes, ReserveEnds, ReadEnds, Publish, PublishEnds,
       Reserving, AllRead
  <2>2. QED
    BY <1>3, <1>4, <2>1 DEF Source!vars
<1>8. CASE Get
  <2>1. PICK k \in Keys : \/ GetHit(k) \/ GetRefused(k)
                          \/ \E s \in Slots : GetLoads(k, s) \/ GetLoadsShort(k, s)
    BY <1>8 DEF Get
  <2>2. Getting(k)
    BY <2>1 DEF GetHit, GetRefused, GetLoads, GetLoadsShort
  <2>3. Source!Due /\ ids[Dealt + 1] = k
    BY <1>2, <1>3, <2>2 DEF Getting, Source!Due
  <2>4. CASE pc' = "use"
    <3>1. data'[using'] = k
      BY PaceStep, <1>1, <2>1, <2>2, <2>4 DEF ServesAsked, Getting, GetHit, GetRefused, GetLoads, GetLoadsShort
    <3>2. UNCHANGED <<ids, at, drops>>
      BY <2>1, <2>2, <2>4 DEF Getting, GetHit, GetRefused, GetLoads, GetLoadsShort
    <3>3. Source!Lend
      BY <1>3, <1>4, <2>2, <2>3, <2>4, <3>1, <3>2 DEF Getting, Source!Lend
    <3>4. QED
      BY <3>3 DEF Source!Next
  <2>5. CASE pc' # "use"
    <3>1. pc' = "get" /\ ids' = ids /\ at' = at + 1 /\ drops' = TRUE
      BY <2>1, <2>2, <2>5 DEF Getting, GetHit, GetRefused, GetLoads, GetLoadsShort
    <3>2. Source!PassOver
      BY <1>2, <1>3, <1>4, <2>2, <2>3, <3>1 DEF Getting, Source!PassOver
    <3>3. QED
      BY <3>2 DEF Source!Next
  <2>6. QED
    BY <2>4, <2>5
<1>9. CASE Used
  <2>1. LentExpert # INFLIGHT
    BY <1>1, <1>2, <1>3, <1>9 DEF Used, ServesAsked, Paced
  <2>2. Source!Return
    BY <1>2, <1>3, <1>4, <1>9, <2>1 DEF Used, Source!Return
  <2>3. QED
    BY <2>2 DEF Source!Next
<1>10. CASE BatchDone
  BY <1>1, <1>2, <1>3, <1>4, <1>10 DEF BatchDone, Paced, Source!vars
<1>11. CASE Api
  BY <1>5, <1>11 DEF Api, Pin, Unpin, PrefetchOne
<1>12. CASE UNCHANGED vars
  BY <1>12 DEF vars, Source!vars, Dealt, LentExpert
<1>13. QED
  BY <1>6, <1>7, <1>8, <1>9, <1>10, <1>11, <1>12 DEF Next

(* The cache implements the abstract source: whatever it reserves, reads,   *)
(* publishes, evicts and loses, a layer is lent the bytes of the experts it *)
(* was routed to, in that order, and passes over only what it could not     *)
(* have.                                                                    *)
THEOREM Refinement == Spec => KeepsSource
<1>1. Init => Source!Init
  BY DEF Init, Source!Init, Dealt, LentExpert
<1>2. IInv /\ [Next]_vars => [Source!Next]_(Source!vars)
  BY LoanStep
<1>3. QED
  BY InvHolds, <1>1, <1>2, PTL DEF Spec, KeepsSource, Source!Spec
-----------------------------------------------------------------------------
(* No expert of a layer is read twice.  The slots a layer has used are the  *)
(* most recent ones and they are fewer than the slots that are not pinned,  *)
(* so that the oldest of the others is always the victim.                   *)

(* No two slots have the same rank.                                         *)
Ranked == \A s, q \in Slots : used_at[s] = used_at[q] => s = q

Asked(k)    == \E i \in 1 .. Len(ids) : ids[i] = k /\ ((pc = "get" /\ i < at) \/ (pc = "use" /\ i <= at))
Served(k)   == reads[k] > 0 \/ Asked(k)
Reserved(s) == \E w \in work : w.slot = s

(* The slots this layer has reserved, read into or been served from.        *)
Recent(s) == Reserved(s) \/ (key_of[s] \in Keys /\ Served(key_of[s]))

(* The reads under way are for listed experts that have not been read.      *)
ReadsDue ==
    \A w \in work :
        /\ w.key \in Listed /\ w.read # "short"
        /\ w.read = "going" => reads[w.key] = 0
        /\ w.read = "whole" => reads[w.key] > 0

(* What has been read was read once, and is in the cache or landing there.  *)
ReadsHad ==
    \A k \in Keys : reads[k] > 0 =>
        k \in Listed /\ reads[k] = 1 /\ (resident(k) \/ \E w \in work : w.key = k)

(* The slots of this layer are more recent than every other.                *)
Order == \A s, q \in Slots : Recent(q) /\ ~Recent(s) => used_at[q] > used_at[s]

Kept == pc # "idle" /\ Roomy => ReadsDue /\ ReadsHad /\ Order

(* Touching a slot puts it last and leaves the order of the others.         *)
LEMMA TouchedLast ==
    ASSUME TypeOK, Ranked, NEW s \in Slots, used_at' = touched(s)
    PROVE  /\ Ranked'
           /\ \A u \in Slots \ {s} : used_at'[s] > used_at'[u]
           /\ \A q, u \in Slots \ {s} : used_at[q] > used_at[u] => used_at'[q] > used_at'[u]
<1>1. \A q \in Slots : used_at[q] \in Int /\ used_at[q] <= NSlots - 1
  BY DEF TypeOK, Slots
<1>2. used_at'[s] = NSlots - 1
  BY DEF touched
<1>3. \A q \in Slots \ {s} :
         /\ used_at'[q] = (IF used_at[q] > used_at[s] THEN used_at[q] - 1 ELSE used_at[q])
         /\ used_at[q] # used_at[s]
  BY DEF touched, Ranked
<1>4. \A u \in Slots \ {s} : used_at'[s] > used_at'[u]
  BY <1>1, <1>2, <1>3
<1>5. \A q, u \in Slots \ {s} : used_at[q] > used_at[u] => used_at'[q] > used_at'[u]
  BY <1>1, <1>3
<1>6. Ranked'
  <2> SUFFICES ASSUME NEW q \in Slots, NEW u \in Slots, q # u PROVE used_at'[q] # used_at'[u]
    BY DEF Ranked
  <2>1. used_at[q] # used_at[u]
    BY DEF Ranked
  <2>2. CASE q # s /\ u # s
    BY <1>1, <1>3, <2>1, <2>2
  <2>3. CASE q = s \/ u = s
    <3>1. \A v \in Slots : used_at'[v] \in Int
      BY <1>1, <1>2, <1>3
    <3>2. QED
      BY <1>4, <2>3, <3>1
  <2>4. QED
    BY <2>2, <2>3
<1>7. QED
  BY <1>4, <1>5, <1>6

(* A slot joins this layer's slots by being touched.                        *)
LEMMA OrderTouched ==
    ASSUME TypeOK, Ranked, Order, NEW s \in Slots, used_at' = touched(s), Recent(s)',
           \A u \in Slots : u # s => (Recent(u)' <=> Recent(u))
    PROVE  Order'
<1> SUFFICES ASSUME NEW u \in Slots, NEW q \in Slots, Recent(q)', ~Recent(u)'
             PROVE  used_at'[q] > used_at'[u]
  BY DEF Order
<1>1. u # s /\ ~Recent(u)
  OBVIOUS
<1>2. CASE q = s
  BY <1>1, <1>2, TouchedLast
<1>3. CASE q # s
  <2>1. used_at[q] > used_at[u]
    BY <1>1, <1>3 DEF Order
  <2>2. QED
    BY <1>1, <1>3, <2>1, TouchedLast
<1>4. QED
  BY <1>2, <1>3

(* The experts of a batch are finitely many.                                *)
LEMMA ListedFew ==
    ASSUME TypeOK
    PROVE  IsFiniteSet(Listed) /\ Cardinality(Listed) \in Nat
<1> DEFINE n == Len(ids)
<1>1. n \in Nat /\ IsFiniteSet(1 .. n)
  <2>1. n \in Nat
    BY LenProperties DEF TypeOK
  <2> HIDE DEF n
  <2>2. QED
    BY <2>1, FS_Interval
<1> DEFINE f == [i \in 1 .. n |-> ids[i]]
<1>2. f \in [1 .. n -> Listed] /\ \A k \in Listed : \E i \in 1 .. n : f[i] = k
  BY DEF Listed
<1>3. f \in Surjection(1 .. n, Listed)
  <2> HIDE DEF f
  <2>1. QED
    BY <1>2 DEF Surjection
<1> HIDE DEF f, n
<1>4. IsFiniteSet(Listed)
  BY <1>1, <1>3, FS_Surjection
<1>5. QED
  BY <1>4, FS_CardinalityType

(* With room, the victim chosen for an expert that is neither resident nor  *)
(* landing is no slot of this layer.                                        *)
LEMMA Spared ==
    ASSUME IInv, Roomy, ReadsDue, ReadsHad, Order,
           NEW k \in Listed, slot_of[k] = None, \A w \in work : w.key # k,
           NEW s \in Slots, pick_victim(s)
    PROVE  ~Recent(s)
<1>t. TypeOK /\ MapsAgree /\ Reservations /\ NSlots \in Nat
  BY CacheAssumption DEF IInv
<1> DEFINE R == {q \in Slots : Recent(q)}
           Owns(q, j) == (\E w \in work : w.slot = q /\ w.key = j) \/ (key_of[q] \in Keys /\ key_of[q] = j)
           L == Listed \ {k}
           owner == [q \in R |-> CHOOSE j \in L : Owns(q, j)]
<1>1. ASSUME NEW q \in R PROVE \E j \in L : Owns(q, j)
  <2>1. CASE Reserved(q)
    <3>1. PICK w \in work : w.slot = q
      BY <2>1 DEF Reserved
    <3>2. w.key \in L
      BY DEF ReadsDue
    <3>3. QED
      BY <3>1, <3>2
  <2>2. CASE key_of[q] \in Keys /\ Served(key_of[q])
    <3>1. key_of[q] \in Listed
      BY <2>2 DEF Served, ReadsHad, Asked, Listed
    <3>2. key_of[q] # k
      BY <1>t, <2>2, Markers DEF MapsAgree
    <3>3. QED
      BY <2>2, <3>1, <3>2
  <2>3. QED
    BY <2>1, <2>2 DEF Recent
<1>2. \A q \in R : owner[q] \in L /\ Owns(q, owner[q])
  BY <1>1
<1>3. ASSUME NEW q \in R, NEW u \in R, owner[q] = owner[u] PROVE q = u
  <2> DEFINE j == owner[q]
  <2>1. Owns(q, j) /\ Owns(u, j)
    BY <1>2, <1>3
  <2> HIDE DEF owner, j
  <2>2. CASE \E w \in work : w.slot = q /\ w.key = j
    BY <1>t, <2>1, <2>2, Markers DEF Reservations, resident, MapsAgree
  <2>3. CASE key_of[q] \in Keys /\ key_of[q] = j
    BY <1>t, <2>1, <2>3, Markers DEF Reservations, resident, MapsAgree
  <2>4. QED
    BY <2>1, <2>2, <2>3
<1>4. owner \in Injection(R, L)
  <2>1. owner = [q \in R |-> owner[q]]
    OBVIOUS
  <2> HIDE DEF owner, R, L, Owns
  <2>2. \A q \in R : owner[q] \in L
    BY <1>2
  <2>3. owner \in [R -> L]
    BY <2>1, <2>2
  <2>4. \A q, u \in R : owner[q] = owner[u] => q = u
    BY <1>3
  <2>5. QED
    BY <2>3, <2>4, SMTT(20) DEF Injection, IsInjective
<1>5. IsFiniteSet(L) /\ Cardinality(L) = Cardinality(Listed) - 1
  BY <1>t, ListedFew, FS_RemoveElement
<1>6. IsFiniteSet(Slots) /\ Cardinality(Slots) = NSlots
  BY <1>t, FS_Interval DEF Slots
<1>7. IsFiniteSet(R) /\ Cardinality(R) <= Cardinality(L)
  <2> HIDE DEF R, L, owner
  <2>1. QED
    BY <1>4, <1>5, FS_Injection
<1>8. IsFiniteSet(pinned)
  BY <1>t, <1>6, FS_Subset DEF TypeOK
<1>9. \E u \in Slots : u \notin R /\ u \notin pinned
  <2> SUFFICES ASSUME Slots \subseteq R \cup pinned PROVE FALSE
    OBVIOUS
  <2> HIDE DEF R, L
  <2>1. /\ IsFiniteSet(R \cup pinned) /\ IsFiniteSet(R \cap pinned)
        /\ Cardinality(R \cup pinned) = Cardinality(R) + Cardinality(pinned) - Cardinality(R \cap pinned)
    BY <1>7, <1>8, FS_Union, FS_Intersection
  <2>2. Cardinality(Slots) <= Cardinality(R \cup pinned)
    BY <2>1, FS_Subset
  <2>3. /\ Cardinality(R) \in Nat /\ Cardinality(pinned) \in Nat /\ Cardinality(R \cap pinned) \in Nat
        /\ Cardinality(Listed) \in Nat
    BY <1>t, <1>7, <1>8, <2>1, FS_CardinalityType, ListedFew
  <2>4. Cardinality(Listed) + Cardinality(pinned) <= NSlots
    BY DEF Roomy
  <2>5. QED
    BY <1>t, <1>5, <1>6, <1>7, <2>1, <2>2, <2>3, <2>4
<1>10. PICK u \in Slots : ~Recent(u) /\ u \notin pinned
  BY <1>9
<1>11. SUFFICES ASSUME Recent(s) PROVE FALSE
  OBVIOUS
<1>12. used_at[s] > used_at[u] /\ used_at[s] \in Int /\ used_at[u] \in Int /\ ~ (used_at[s] <= used_at[u])
  <2>1. used_at[s] > used_at[u]
    BY <1>10, <1>11 DEF Order
  <2>2. used_at \in [Slots -> Slots] /\ Slots \subseteq Int
    BY <1>t DEF TypeOK, Slots
  <2>3. used_at[s] \in Int /\ used_at[u] \in Int
    BY <2>2
  <2>4. QED
    BY <2>1, <2>3
<1>13. key_of[s] # EMPTY
  BY <1>t, <1>11, Markers DEF Recent, Reserved, Reservations
<1>14. key_of[u] # EMPTY /\ u \notin Candidates
  BY <1>12, <1>13 DEF pick_victim
<1>15. key_of[u] = INFLIGHT
  BY <1>t, <1>10, <1>14 DEF Candidates, TypeOK
<1>16. Reserved(u)
  BY <1>t, <1>15 DEF Reservations, Reserved
<1>17. QED
  BY <1>10, <1>16 DEF Recent
(* A step that changes no slot of this layer keeps what it has read.        *)
LEMMA KeptStill ==
    ASSUME ReadsDue, ReadsHad, Order,
           UNCHANGED <<ids, work, reads, slot_of, key_of, used_at>>,
           \A u \in Slots : Recent(u)' <=> Recent(u)
    PROVE  ReadsDue' /\ ReadsHad' /\ Order'
<1>1. ReadsDue' /\ ReadsHad'
  BY DEF ReadsDue, ReadsHad, Listed, resident
<1>2. Order'
  BY DEF Order
<1>3. QED
  BY <1>1, <1>2

(* Which experts have been asked for, from one place of a batch to the next.*)
LEMMA Asking ==
    ASSUME TypeOK, ids' = ids
    PROVE  /\ pc' \in {"reserve", "publish"} => \A k \in Keys : ~Asked(k)'
           /\ pc \in {"reserve", "publish"} => \A k \in Keys : ~Asked(k)
           /\ pc' = "get" /\ at' = 1 => \A k \in Keys : ~Asked(k)'
           /\ pc = "use" /\ pc' = "get" /\ at' = at + 1 => \A k \in Keys : Asked(k)' <=> Asked(k)
           /\ \A j \in Keys : Getting(j) /\ ((pc' = "use" /\ at' = at) \/ (pc' = "get" /\ at' = at + 1)) =>
                 \A k \in Keys : Asked(k)' <=> Asked(k) \/ k = j
<1>1. at \in Nat /\ Len(ids) \in Nat /\ at \in Int /\ at > 0
  BY LenProperties DEF TypeOK
<1>2. ASSUME pc = "use", pc' = "get", at' = at + 1, NEW k \in Keys PROVE Asked(k)' <=> Asked(k)
  BY <1>1, <1>2 DEF Asked
<1>3. ASSUME NEW j \in Keys, Getting(j), (pc' = "use" /\ at' = at) \/ (pc' = "get" /\ at' = at + 1), NEW k \in Keys
      PROVE  Asked(k)' <=> Asked(k) \/ k = j
  <2>1. pc = "get" /\ at \in 1 .. Len(ids) /\ j = ids[at]
    BY <1>1, <1>3 DEF Getting
  <2>2. Asked(k) <=> \E i \in 1 .. Len(ids) : ids[i] = k /\ i < at
    BY <2>1 DEF Asked
  <2>3. Asked(k)' <=> \E i \in 1 .. Len(ids) : ids[i] = k /\ i <= at
    BY <1>1, <1>3 DEF Asked
  <2>4. QED
    BY <1>1, <2>1, <2>2, <2>3
<1>4. pc' = "get" /\ at' = 1 => \A k \in Keys : ~Asked(k)'
  BY <1>1 DEF Asked
<1>5. QED
  BY <1>2, <1>3, <1>4 DEF Asked

(* The reservation of a slot for the next expert of the list. *)
LEMMA TakeKept ==
    ASSUME IInv, Ranked, Roomy, ReadsDue, ReadsHad, Order, NEW s \in Slots, ReserveTakes(s)
    PROVE  ReadsDue' /\ ReadsHad' /\ Order'
<1> USE DEF maps, count
<1> DEFINE k == ids[at]
           new == [slot |-> s, key |-> k, read |-> "going"]
<1>t. TypeOK /\ MapsAgree /\ Reservations /\ at \in Nat /\ at > 0 /\ Len(ids) \in Nat
  BY LenProperties DEF IInv, TypeOK
<1>1. /\ pc = "reserve" /\ pc' = pc /\ pick_victim(s) /\ slot_of[k] = None /\ \A w \in work : w.key # k
      /\ slot_of' = evicted(s) /\ key_of' = [key_of EXCEPT ![s] = INFLIGHT]
      /\ used_at' = touched(s) /\ work' = work \cup {new} /\ UNCHANGED <<ids, reads>>
      /\ at <= Len(ids)
  BY DEF ReserveTakes, Reserving, Wanted, resident
<1>2. k \in Listed /\ k \in Keys
  BY <1>t, <1>1, BatchKey DEF Listed
<1>3. ~Recent(s)
  BY <1>1, <1>2, Spared
<1>4. new.slot = s /\ new.key = k /\ new.read = "going"
  OBVIOUS
<1>5. \A j \in Keys : evicted(s)[j] = IF slot_of[j] = s THEN None ELSE slot_of[j]
  BY <1>t, Eviction
<1>6. \A q \in Slots : key_of'[q] = IF q = s THEN INFLIGHT ELSE key_of[q]
  BY <1>t, <1>1 DEF TypeOK
<1>7. reads[k] = 0
  BY <1>t, <1>1, <1>2, Markers DEF ReadsHad, resident, TypeOK
<1> HIDE DEF new, k
<1>8. ReadsDue'
  BY <1>1, <1>2, <1>4, <1>7 DEF ReadsDue, Listed
<1>9. ASSUME NEW j \in Keys, reads[j] > 0 PROVE slot_of[j] # s
  BY <1>t, <1>3, <1>9 DEF MapsAgree, Recent, Served
<1>10. ReadsHad'
  BY <1>1, <1>5, <1>9 DEF ReadsHad, resident, Listed
<1>11. \A j \in Keys : ~Asked(j) /\ ~Asked(j)'
  BY <1>t, <1>1, Asking
<1>12. Recent(s)'
  BY <1>1, <1>4 DEF Recent, Reserved
<1>13. ASSUME NEW u \in Slots, u # s PROVE Recent(u)' <=> Recent(u)
  <2>1. Reserved(u)' <=> Reserved(u)
    BY <1>1, <1>4, <1>13 DEF Reserved
  <2>2. key_of'[u] = key_of[u]
    BY <1>6, <1>13
  <2>3. \A j \in Keys : Served(j)' <=> Served(j)
    BY <1>1, <1>11 DEF Served
  <2>4. QED
    BY <2>1, <2>2, <2>3 DEF Recent
<1>14. Order'
  BY <1>t, <1>1, <1>12, <1>13, OrderTouched
<1>15. QED
  BY <1>8, <1>10, <1>14

(* A read of the batch that comes back whole. *)
LEMMA ReadKept ==
    ASSUME IInv, Ranked, ReadsDue, ReadsHad, Order, NEW w \in work, ReadEnds(w), fails' = 0
    PROVE  ReadsDue' /\ ReadsHad' /\ Order'
<1> USE DEF maps, count
<1> DEFINE k == w.key
           new == [w EXCEPT !.read = "whole"]
<1>t. TypeOK /\ MapsAgree /\ Reservations /\ fails \in Nat
  BY DEF IInv, TypeOK
<1>v. w \in Work /\ k \in Keys /\ reads \in [Keys -> Nat]
  BY <1>t DEF TypeOK, Work
<1>1. /\ pc = "publish" /\ pc' = pc /\ w.read = "going" /\ work' = (work \ {w}) \cup {new}
      /\ reads' = [reads EXCEPT ![k] = @ + 1]
      /\ UNCHANGED <<ids, slot_of, key_of, used_at>>
  BY <1>t DEF ReadEnds, Load, CountRead
<1>2. new.slot = w.slot /\ new.key = k /\ new.read = "whole"
  BY <1>v DEF Work
<1>3. \A v \in work : v # w => v.key # k
  BY <1>t DEF Reservations
<1>4. \A j \in Keys : reads'[j] = IF j = k THEN reads[k] + 1 ELSE reads[j]
  BY <1>v, <1>1
<1>5. reads[k] = 0 /\ k \in Listed /\ slot_of[k] = None
  BY <1>t, <1>1 DEF ReadsDue, Reservations, resident
<1>6. \A v \in work : v.key \in Keys
  BY <1>t DEF TypeOK, Work
<1> HIDE DEF new, k
<1>7. ReadsDue'
  <2> SUFFICES ASSUME NEW v \in work'
               PROVE  /\ v.key \in Listed' /\ v.read # "short"
                      /\ v.read = "going" => reads'[v.key] = 0
                      /\ v.read = "whole" => reads'[v.key] > 0
    BY DEF ReadsDue
  <2>1. CASE v = new
    BY <1>1, <1>2, <1>4, <1>5, <1>v, <2>1 DEF Listed
  <2>2. CASE v \in work /\ v # w
    BY <1>1, <1>3, <1>4, <1>6, <2>2 DEF ReadsDue, Listed
  <2>3. QED
    BY <1>1, <2>1, <2>2
<1>8. ReadsHad'
  <2> SUFFICES ASSUME NEW j \in Keys, reads'[j] > 0
               PROVE  j \in Listed' /\ reads'[j] = 1 /\ (resident(j)' \/ \E v \in work' : v.key = j)
    BY DEF ReadsHad
  <2>1. CASE j = k
    BY <1>1, <1>2, <1>4, <1>5, <2>1 DEF Listed
  <2>2. CASE j # k
    <3>1. j \in Listed /\ reads[j] = 1 /\ (resident(j) \/ \E v \in work : v.key = j)
      BY <1>4, <2>2 DEF ReadsHad
    <3>2. \A v \in work : v.key = j => v \in work'
      BY <1>1, <2>2 DEF k
    <3>3. QED
      BY <1>1, <1>4, <2>2, <3>1, <3>2 DEF Listed, resident
  <2>3. QED
    BY <2>1, <2>2
<1>9. \A j \in Keys : ~Asked(j) /\ ~Asked(j)'
  BY <1>t, <1>1, Asking
<1>10. ASSUME NEW u \in Slots PROVE Recent(u)' <=> Recent(u)
  <2>1. Reserved(u)' <=> Reserved(u)
    BY <1>1, <1>2 DEF Reserved
  <2>2. key_of[u] # k
    BY <1>t, <1>v, <1>5, Markers DEF MapsAgree
  <2>3. \A j \in Keys : j # k => (Served(j)' <=> Served(j))
    BY <1>4, <1>9 DEF Served
  <2>4. QED
    BY <1>1, <2>1, <2>2, <2>3 DEF Recent
<1>11. Order'
  BY <1>1, <1>10 DEF Order
<1>12. QED
  BY <1>7, <1>8, <1>11

(* The publication of a read that came back whole. *)
LEMMA PublishKept ==
    ASSUME IInv, Ranked, ReadsDue, ReadsHad, Order, NEW w \in work, Publish(w)
    PROVE  ReadsDue' /\ ReadsHad' /\ Order'
<1> USE DEF maps, count
<1> DEFINE k == w.key
           s == w.slot
<1>t. TypeOK /\ MapsAgree /\ Reservations
  BY DEF IInv
<1>v. w \in Work /\ k \in Keys /\ s \in Slots /\ w.read \in {"going", "whole", "short"}
  BY <1>t DEF TypeOK, Work
<1>1. /\ pc = "publish" /\ pc' = pc /\ w.read = "whole" /\ work' = work \ {w}
      /\ key_of' = [key_of EXCEPT ![s] = k] /\ slot_of' = [slot_of EXCEPT ![k] = s]
      /\ used_at' = touched(s) /\ UNCHANGED <<ids, reads>>
  BY <1>v DEF Publish, AllRead, ReadsDue
<1>2. \A v \in work : v # w => v.key # k /\ v.slot # s
  BY <1>t DEF Reservations
<1>3. reads[k] > 0 /\ slot_of[k] = None
  BY <1>t, <1>1 DEF ReadsDue, Reservations, resident
<1>4. /\ \A q \in Slots : key_of'[q] = IF q = s THEN k ELSE key_of[q]
      /\ \A j \in Keys : slot_of'[j] = IF j = k THEN s ELSE slot_of[j]
  BY <1>t, <1>v, <1>1 DEF TypeOK
<1>5. ReadsDue'
  BY <1>1 DEF ReadsDue, Listed
<1>6. ReadsHad'
  <2> SUFFICES ASSUME NEW j \in Keys, reads'[j] > 0
               PROVE  j \in Listed' /\ reads'[j] = 1 /\ (resident(j)' \/ \E v \in work' : v.key = j)
    BY DEF ReadsHad
  <2>1. j \in Listed /\ reads[j] = 1 /\ (resident(j) \/ \E v \in work : v.key = j)
    BY <1>1 DEF ReadsHad
  <2>2. j = k => resident(j)'
    BY <1>v, <1>4, Markers DEF resident
  <2>3. j # k => (resident(j)' <=> resident(j)) /\ \A v \in work : v.key = j => v \in work'
    BY <1>1, <1>4 DEF resident
  <2>4. QED
    BY <1>1, <2>1, <2>2, <2>3 DEF Listed
<1>7. \A j \in Keys : ~Asked(j) /\ ~Asked(j)'
  BY <1>t, <1>1, Asking
<1>8. Recent(s)'
  BY <1>v, <1>1, <1>3, <1>4 DEF Recent, Served
<1>9. ASSUME NEW u \in Slots, u # s PROVE Recent(u)' <=> Recent(u)
  <2>1. Reserved(u)' <=> Reserved(u)
    BY <1>1, <1>9 DEF Reserved
  <2>2. \A j \in Keys : Served(j)' <=> Served(j)
    BY <1>1, <1>7 DEF Served
  <2>3. QED
    BY <1>4, <1>9, <2>1, <2>2 DEF Recent
<1>10. Order'
  BY <1>t, <1>v, <1>1, <1>8, <1>9, OrderTouched
<1>11. QED
  BY <1>5, <1>6, <1>10

(* A get that finds its expert in the cache. *)
LEMMA HitKept ==
    ASSUME IInv, Ranked, ReadsDue, ReadsHad, Order, NEW k \in Keys, GetHit(k)
    PROVE  ReadsDue' /\ ReadsHad' /\ Order'
<1> USE DEF maps, count
<1> DEFINE s == slot_of[k]
<1>t. TypeOK /\ MapsAgree
  BY DEF IInv
<1>1. /\ Getting(k) /\ s # None /\ used_at' = touched(s) /\ pc' = "use" /\ at' = at
      /\ UNCHANGED <<ids, work, reads, slot_of, key_of>>
  BY DEF GetHit, resident
<1>2. s \in Slots /\ key_of[s] = k
  BY <1>t, <1>1 DEF TypeOK, MapsAgree
<1>3. ReadsDue' /\ ReadsHad'
  BY <1>1 DEF ReadsDue, ReadsHad, Listed, resident
<1>4. \A j \in Keys : Asked(j)' <=> Asked(j) \/ j = k
  <2>1. TypeOK /\ ids' = ids /\ Getting(k) /\ pc' = "use" /\ at' = at
    BY <1>t, <1>1
  <2>2. QED
    BY ONLY <2>1, Asking, k \in Keys
<1>5. \A j \in Keys : Served(j)' <=> Served(j) \/ j = k
  BY <1>1, <1>4 DEF Served
<1>6. Recent(s)'
  BY <1>1, <1>2, <1>5 DEF Recent
<1>7. ASSUME NEW u \in Slots, u # s PROVE Recent(u)' <=> Recent(u)
  <2>1. key_of[u] # k
    BY <1>t, <1>7 DEF MapsAgree
  <2>2. QED
    BY <1>1, <1>5, <2>1 DEF Recent, Reserved
<1>8. Order'
  BY <1>t, <1>1, <1>2, <1>6, <1>7, OrderTouched
<1>9. QED
  BY <1>3, <1>8

(* A get that reads its expert on the caller's own thread. *)
LEMMA LoadKept ==
    ASSUME IInv, Ranked, Roomy, ReadsDue, ReadsHad, Order,
           NEW k \in Keys, NEW s \in Slots, GetLoads(k, s)
    PROVE  ReadsDue' /\ ReadsHad' /\ Order'
<1> USE DEF maps, count
<1>t. TypeOK /\ MapsAgree /\ Paced /\ at \in Nat /\ at > 0 /\ Len(ids) \in Nat /\ reads \in [Keys -> Nat]
  BY LenProperties DEF IInv, TypeOK
<1>1. /\ Getting(k) /\ pc = "get" /\ slot_of[k] = None /\ pick_victim(s) /\ pc' = "use" /\ at' = at
      /\ slot_of' = [evicted(s) EXCEPT ![k] = s] /\ key_of' = [key_of EXCEPT ![s] = k]
      /\ used_at' = touched(s) /\ reads' = [reads EXCEPT ![k] = @ + 1] /\ UNCHANGED <<ids, work>>
  BY DEF GetLoads, AdmitMiss, resident, CountRead, Getting
<1>2. work = {} /\ k \in Listed
  BY <1>t, <1>1 DEF Paced, Getting, Listed
<1>3. ~Recent(s)
  BY <1>1, <1>2, Spared
<1>4. /\ evicted(s) \in [Keys -> Slots \cup {None}]
      /\ \A j \in Keys : evicted(s)[j] = IF slot_of[j] = s THEN None ELSE slot_of[j]
  BY <1>t, Eviction
<1>5. /\ \A q \in Slots : key_of'[q] = IF q = s THEN k ELSE key_of[q]
      /\ \A j \in Keys : slot_of'[j] = IF j = k THEN s ELSE evicted(s)[j]
      /\ \A j \in Keys : reads'[j] = IF j = k THEN reads[k] + 1 ELSE reads[j]
  BY <1>t, <1>1, <1>4 DEF TypeOK
<1>6. reads[k] = 0
  BY <1>t, <1>1, <1>2 DEF ReadsHad, resident
<1>7. ReadsDue'
  BY <1>1, <1>2 DEF ReadsDue
<1>8. ReadsHad'
  <2> SUFFICES ASSUME NEW j \in Keys, reads'[j] > 0
               PROVE  j \in Listed' /\ reads'[j] = 1 /\ resident(j)'
    BY DEF ReadsHad
  <2>1. CASE j = k
    BY <1>1, <1>2, <1>5, <1>6, <2>1, Markers DEF Listed, resident
  <2>2. CASE j # k
    <3>1. j \in Listed /\ reads[j] = 1 /\ slot_of[j] # None
      BY <1>2, <1>5, <2>2 DEF ReadsHad, resident
    <3>2. slot_of[j] # s
      BY <1>t, <1>3, <3>1 DEF MapsAgree, Recent, Served
    <3>3. QED
      BY <1>1, <1>4, <1>5, <2>2, <3>1, <3>2 DEF Listed, resident
  <2>3. QED
    BY <2>1, <2>2
<1>9. \A j \in Keys : Asked(j)' <=> Asked(j) \/ j = k
  BY <1>t, <1>1, Asking
<1>10. \A j \in Keys : Served(j)' <=> Served(j) \/ j = k
  BY <1>5, <1>9 DEF Served
<1>11. Recent(s)'
  BY <1>5, <1>10 DEF Recent
<1>12. ASSUME NEW u \in Slots, u # s PROVE Recent(u)' <=> Recent(u)
  <2>1. key_of[u] # k
    BY <1>t, <1>1, Markers DEF MapsAgree
  <2>2. QED
    BY <1>1, <1>5, <1>10, <1>12, <2>1 DEF Recent, Reserved
<1>13. Order'
  BY <1>t, <1>1, <1>11, <1>12, OrderTouched
<1>14. QED
  BY <1>7, <1>8, <1>13

(* A get that gives its expert up. *)
LEMMA RefusalKept ==
    ASSUME IInv, ReadsDue, ReadsHad, Order, NEW k \in Keys, GetRefused(k)
    PROVE  ReadsDue' /\ ReadsHad' /\ Order'
<1> USE DEF maps, count
<1>t. TypeOK /\ MapsAgree
  BY DEF IInv
<1>1. /\ Getting(k) /\ slot_of[k] = None /\ pc' = "get" /\ at' = at + 1
      /\ UNCHANGED <<ids, work, reads, slot_of, key_of, used_at>>
  BY DEF GetRefused, resident, Getting
<1>2. \A j \in Keys : Asked(j)' <=> Asked(j) \/ j = k
  <2>1. TypeOK /\ ids' = ids /\ Getting(k) /\ pc' = "get" /\ at' = at + 1
    BY <1>t, <1>1
  <2>2. QED
    BY ONLY <2>1, Asking, k \in Keys
<1>3. ASSUME NEW u \in Slots PROVE Recent(u)' <=> Recent(u)
  <2>1. key_of[u] # k
    BY <1>t, <1>1, Markers DEF MapsAgree
  <2>2. QED
    BY <1>1, <1>2, <2>1 DEF Recent, Reserved, Served
<1>4. QED
  BY <1>1, <1>3, KeptStill

(* A layer begins having read and used nothing. *)
LEMMA RouteKept ==
    ASSUME IInv, NEW list, Route(list)
    PROVE  ReadsDue' /\ ReadsHad' /\ Order'
<1> USE DEF maps, count
<1>1. /\ work' = {} /\ reads' = [k \in Keys |-> 0] /\ at' = 1 /\ pc' \in {"reserve", "get"}
  BY DEF Route, IInv, Paced
<1>2. \A k \in Keys : ~Asked(k)'
  BY <1>1 DEF Asked
<1>3. \A u : ~Recent(u)'
  BY <1>1, <1>2 DEF Recent, Reserved, Served
<1>4. QED
  BY <1>1, <1>3 DEF ReadsDue, ReadsHad, Order
(* Every step keeps the ranks distinct and what a layer has read.           *)
LEMMA KeptStep ==
    ASSUME IInv, Ranked, Kept, [Next]_vars
    PROVE  Ranked' /\ Kept'
<1> USE DEF maps, count
<1>t. TypeOK /\ MapsAgree /\ Paced /\ fails \in Nat
  BY DEF IInv, TypeOK
<1>r. ASSUME NEW s \in Slots, used_at' = touched(s) PROVE Ranked'
  BY <1>t, <1>r, TouchedLast
<1>s. ASSUME used_at' = used_at PROVE Ranked'
  BY <1>s DEF Ranked
<1>k. ASSUME ids' = ids, pinned' = pinned, pc # "idle", fails' = 0 => fails = 0,
             Roomy /\ ReadsDue /\ ReadsHad /\ Order /\ fails' = 0 => ReadsDue' /\ ReadsHad' /\ Order'
      PROVE  Kept'
  BY <1>k DEF Kept, Roomy, Listed
<1>1. CASE Layer
  <2>1. PICK list : Route(list)
    BY <1>1 DEF Layer
  <2>2. ReadsDue' /\ ReadsHad' /\ Order'
    BY <2>1, RouteKept
  <2>3. QED
    BY <1>s, <2>1, <2>2 DEF Route, Kept
<1>2. CASE Batch
  <2>1. CASE ReserveSkips \/ ReserveEnds \/ PublishEnds
    <3>1. /\ UNCHANGED <<ids, pinned, fails, work, reads, slot_of, key_of, used_at>>
          /\ pc \in {"reserve", "publish"} /\ (pc' \in {"reserve", "publish"} \/ (pc' = "get" /\ at' = 1))
      BY <2>1 DEF ReserveSkips, Reserving, ReserveEnds, PublishEnds
    <3>2. ids' = ids
      BY <3>1
    <3>3. \A j \in Keys : ~Asked(j) /\ ~Asked(j)'
      BY <1>t, <3>1, <3>2, Asking
    <3>4. \A u \in Slots : Recent(u)' <=> Recent(u)
      BY <3>1, <3>3 DEF Recent, Reserved, Served
    <3>5. ReadsDue /\ ReadsHad /\ Order => ReadsDue' /\ ReadsHad' /\ Order'
      BY <3>1, <3>4, KeptStill
    <3>6. QED
      BY <1>s, <1>k, <3>1, <3>5
  <2>2. ASSUME NEW s \in Slots, ReserveTakes(s) PROVE Ranked' /\ Kept'
    <3>1. UNCHANGED <<ids, pinned, fails>> /\ pc = "reserve" /\ used_at' = touched(s)
      BY <2>2 DEF ReserveTakes, Reserving
    <3>2. Roomy /\ ReadsDue /\ ReadsHad /\ Order => ReadsDue' /\ ReadsHad' /\ Order'
      BY <2>2, TakeKept
    <3>3. QED
      BY <1>r, <1>k, <3>1, <3>2
  <2>3. ASSUME NEW w \in work, ReadEnds(w) PROVE Ranked' /\ Kept'
    <3>1. UNCHANGED <<ids, pinned, used_at>> /\ pc = "publish" /\ (fails' = fails \/ fails' = fails + 1)
      BY <2>3 DEF ReadEnds, Load
    <3>2. fails' = 0 => fails = 0
      BY <1>t, <3>1
    <3>3. ReadsDue /\ ReadsHad /\ Order /\ fails' = 0 => ReadsDue' /\ ReadsHad' /\ Order'
      BY <2>3, ReadKept
    <3>4. QED
      BY <1>s, <1>k, <3>1, <3>2, <3>3
  <2>4. ASSUME NEW w \in work, Publish(w) PROVE Ranked' /\ Kept'
    <3>1. UNCHANGED <<ids, pinned, fails>> /\ pc = "publish" /\ w.slot \in Slots
          /\ (used_at' = used_at \/ used_at' = touched(w.slot))
      BY <1>t, <2>4 DEF Publish, AllRead, TypeOK, Work
    <3>2. ReadsDue /\ ReadsHad /\ Order => ReadsDue' /\ ReadsHad' /\ Order'
      BY <2>4, PublishKept
    <3>3. QED
      BY <1>r, <1>s, <1>k, <3>1, <3>2
  <2>5. QED
    BY <1>2, <2>1, <2>2, <2>3, <2>4 DEF Batch
<1>3. CASE Get
  <2>1. ASSUME NEW k \in Keys, GetHit(k) PROVE Ranked' /\ Kept'
    <3>1. UNCHANGED <<ids, pinned, fails>> /\ pc = "get" /\ used_at' = touched(slot_of[k]) /\ slot_of[k] \in Slots
      BY <1>t, <2>1 DEF GetHit, Getting, resident, TypeOK
    <3>2. ReadsDue /\ ReadsHad /\ Order => ReadsDue' /\ ReadsHad' /\ Order'
      BY <2>1, HitKept
    <3>3. QED
      BY <1>r, <1>k, <3>1, <3>2
  <2>2. ASSUME NEW k \in Keys, GetRefused(k) PROVE Ranked' /\ Kept'
    <3>1. UNCHANGED <<ids, pinned, fails, used_at>> /\ pc = "get"
      BY <2>2 DEF GetRefused, Getting
    <3>2. ReadsDue /\ ReadsHad /\ Order => ReadsDue' /\ ReadsHad' /\ Order'
      BY <2>2, RefusalKept
    <3>3. QED
      BY <1>s, <1>k, <3>1, <3>2
  <2>3. ASSUME NEW k \in Keys, NEW s \in Slots, GetLoads(k, s) PROVE Ranked' /\ Kept'
    <3>1. UNCHANGED <<ids, pinned, fails>> /\ pc = "get" /\ used_at' = touched(s)
      BY <2>3 DEF GetLoads, AdmitMiss, Load, Getting
    <3>2. Roomy /\ ReadsDue /\ ReadsHad /\ Order => ReadsDue' /\ ReadsHad' /\ Order'
      BY <2>3, LoadKept
    <3>3. QED
      BY <1>r, <1>k, <3>1, <3>2
  <2>4. ASSUME NEW k \in Keys, NEW s \in Slots, GetLoadsShort(k, s) PROVE Ranked' /\ Kept'
    <3>1. used_at' = used_at /\ fails' = fails + 1
      BY <2>4 DEF GetLoadsShort, AdmitMiss, Load
    <3>2. fails' # 0
      BY <1>t, <3>1
    <3>3. QED
      BY <1>s, <3>1, <3>2 DEF Kept, Roomy
  <2>5. QED
    BY <1>3, <2>1, <2>2, <2>3, <2>4 DEF Get
<1>4. CASE Used
  <2>1. /\ UNCHANGED <<ids, pinned, fails, work, reads, slot_of, key_of, used_at>>
        /\ pc = "use" /\ pc' = "get" /\ at' = at + 1
    BY <1>4 DEF Used
  <2>2. ids' = ids
    BY <2>1
  <2>3. \A j \in Keys : Asked(j)' <=> Asked(j)
    BY <1>t, <2>1, <2>2, Asking
  <2>4. \A u \in Slots : Recent(u)' <=> Recent(u)
    BY <2>1, <2>3 DEF Recent, Reserved, Served
  <2>5. ReadsDue /\ ReadsHad /\ Order => ReadsDue' /\ ReadsHad' /\ Order'
    BY <2>1, <2>4, KeptStill
  <2>6. QED
    BY <1>s, <1>k, <2>1, <2>5
<1>5. CASE BatchDone
  BY <1>s, <1>5 DEF BatchDone, Kept
<1>6. CASE Api
  <2>1. pc' = "idle"
    BY <1>6 DEF Api, Pin, Unpin, PrefetchOne
  <2>2. used_at' = used_at \/ \E s \in Slots : used_at' = touched(s)
    BY <1>6 DEF Api, Pin, Unpin, PrefetchOne, AdmitMiss
  <2>3. QED
    BY <1>r, <1>s, <2>1, <2>2 DEF Kept
<1>7. CASE UNCHANGED vars
  <2>1. /\ UNCHANGED <<ids, pinned, fails, work, reads, slot_of, key_of, used_at>> /\ UNCHANGED <<pc, at>>
    BY <1>7 DEF vars
  <2>2. \A u \in Slots : Recent(u)' <=> Recent(u)
    BY <2>1 DEF Recent, Reserved, Served, Asked
  <2>3. ReadsDue /\ ReadsHad /\ Order => ReadsDue' /\ ReadsHad' /\ Order'
    BY <2>1, <2>2, KeptStill
  <2>4. CASE pc = "idle"
    BY <1>s, <2>1, <2>4 DEF Kept
  <2>5. QED
    BY <1>s, <1>k, <2>1, <2>3, <2>4
<1>8. QED
  BY <1>1, <1>2, <1>3, <1>4, <1>5, <1>6, <1>7 DEF Next

(* With room for its experts beside the pinned ones a layer reads none of   *)
(* them twice: pick_victim finds the oldest slot, and a slot the layer has  *)
(* used is never the oldest, whatever was resident, reserved or skipped     *)
(* (k3_cache.c:49-93, cache_getmany and cache_get).                         *)
THEOREM OnceHolds == Spec => []ReadOnce
<1>1. Init => IInv /\ Ranked /\ Kept
  <2> SUFFICES ASSUME Init PROVE IInv /\ Ranked /\ Kept
    OBVIOUS
  <2>1. IInv
    BY InitInv
  <2>2. Ranked
    BY DEF Init, Ranked
  <2>3. Kept
    BY DEF Init, Kept
  <2>4. QED
    BY <2>1, <2>2, <2>3
<1>2. IInv /\ Ranked /\ Kept /\ [Next]_vars => IInv' /\ Ranked' /\ Kept'
  <2>1. IInv /\ [Next]_vars => IInv'
    BY TypeStep, BooksStep, PaceStep DEF IInv, Books
  <2>2. QED
    BY <2>1, KeptStep
<1>3. IInv /\ Kept => ReadOnce
  <2> SUFFICES ASSUME IInv, Kept, pc # "idle", Roomy, NEW k \in Keys PROVE reads[k] <= 1
    BY DEF ReadOnce
  <2>1. reads[k] \in Nat /\ (reads[k] > 0 => reads[k] = 1)
    BY DEF IInv, TypeOK, Kept, ReadsHad
  <2>2. QED
    BY <2>1
<1>4. QED
  BY <1>1, <1>2, <1>3, PTL DEF Spec
=============================================================================
