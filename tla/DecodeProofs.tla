---------------------------- MODULE DecodeProofs ----------------------------
(***************************************************************************)
(* Proofs about the generate loop, for every exact model, every draft and  *)
(* every draft model, all prompts, budgets and chains of runs in which no  *)
(* run that saves its state drafts past a stop id: the tokens are those of *)
(* serial greedy decoding, and the states carried, rewound and saved are   *)
(* those of the tokens.  The facts about sequences, sweeps and n-gram       *)
(* drafts they rest on come first.                                         *)
(***************************************************************************)
EXTENDS Decode, Facts

-----------------------------------------------------------------------------
(* First tokens of a sequence. *)

LEMMA UptoIs ==
    ASSUME NEW S, NEW s \in Seq(S), NEW n \in 0 .. Len(s)
    PROVE  /\ Upto(s, n) \in Seq(S) /\ Len(Upto(s, n)) = n
           /\ \A i \in 1 .. n : Upto(s, n)[i] = s[i]
BY Firsts DEF Upto

LEMMA UptoUpto ==
    ASSUME NEW S, NEW s \in Seq(S), NEW n \in 0 .. Len(s), NEW i \in 0 .. n
    PROVE  Upto(Upto(s, n), i) = Upto(s, i)
BY FirstsOfFirsts DEF Upto

LEMMA UptoAgrees ==
    ASSUME NEW S, NEW s \in Seq(S), NEW t \in Seq(S), NEW n \in 0 .. Len(s), n <= Len(t),
           \A i \in 1 .. n : s[i] = t[i]
    PROVE  Upto(s, n) = Upto(t, n)
BY FirstsAgree DEF Upto

(* t is what comes behind the first c tokens of s, up to the n-th.          *)
Continued(S, t, s, c, n) ==
    /\ t \in Seq(S) /\ Len(t) = n - c
    /\ \A i \in 1 .. n - c : t[i] = s[c + i]
    /\ \A i \in 0 .. n - c : Upto(s, c) \o Upto(t, i) = Upto(s, c + i)
    /\ Upto(s, c) \o t = Upto(s, n)

LEMMA Longer ==
    ASSUME NEW S, NEW s \in Seq(S), NEW c \in 0 .. Len(s), NEW n \in c .. Len(s)
    PROVE  Continued(S, SubSeq(s, c + 1, n), s, c, n)
<1> DEFINE t == SubSeq(s, c + 1, n)
<1>1. Len(s) \in Nat /\ c \in Nat /\ n \in Nat /\ \A i \in 1 .. Len(s) : s[i] \in S
  BY LenProperties, ElementOfSeq
<1>2. t \in Seq(S) /\ Len(t) = n - c /\ \A i \in 1 .. n - c : t[i] = s[c + i]
  <2>1. \A i \in c + 1 .. n : s[i] \in S
    BY <1>1
  <2>2. QED
    BY <1>1, <2>1, SubSeqProperties
<1> HIDE DEF t
<1> DEFINE a == Upto(s, c)
<1>3. a \in Seq(S) /\ Len(a) = c /\ \A j \in 1 .. c : a[j] = s[j]
  BY <1>1, UptoIs
<1> HIDE DEF a
<1>4. ASSUME NEW i \in 0 .. n - c PROVE a \o Upto(t, i) = Upto(s, c + i)
  <2> DEFINE b == Upto(t, i)
             u == Upto(s, c + i)
  <2>1. b \in Seq(S) /\ Len(b) = i /\ \A j \in 1 .. i : b[j] = t[j]
    <3>1. i \in 0 .. Len(t) /\ t \in Seq(S)
      BY <1>2
    <3>2. QED
      BY ONLY <3>1, UptoIs
  <2>2. u \in Seq(S) /\ Len(u) = c + i /\ \A j \in 1 .. c + i : u[j] = s[j]
    BY <1>1, UptoIs
  <2> HIDE DEF b, u
  <2>3. \A j \in 1 .. Len(a) : u[j] = a[j]
    BY <1>1, <1>3, <2>2
  <2>4. ASSUME NEW j \in 1 .. Len(b) PROVE u[Len(a) + j] = b[j]
    <3>1. c + j \in 1 .. c + i /\ j \in 1 .. n - c /\ j \in 1 .. i
      BY <1>1, <2>1
    <3>2. QED
      BY <1>2, <1>3, <2>1, <2>2, <3>1
  <2>5. a \o b = u
    BY <1>1, <1>3, <2>1, <2>2, <2>3, <2>4, Glued
  <2>6. QED
    BY <2>5 DEF b, u
<1>5. Upto(t, n - c) = t
  BY <1>2, SubSeqFull DEF Upto
<1>6. n - c \in 0 .. n - c /\ c + (n - c) = n
  BY <1>1
<1>7. a \o t = Upto(s, n)
  BY <1>4, <1>5, <1>6
<1>8. QED
  BY <1>2, <1>4, <1>7 DEF t, a, Continued

LEMMA OneMore ==
    ASSUME NEW S, NEW s \in Seq(S), NEW c \in Nat, c < Len(s)
    PROVE  /\ SubSeq(s, c + 1, c + 1) = <<s[c + 1]>>
           /\ Upto(s, c) \o <<s[c + 1]>> = Upto(s, c + 1)
           /\ Append(Upto(s, c), s[c + 1]) = Upto(s, c + 1)
<1>1. Len(s) \in Nat /\ s[c + 1] \in S
  BY LenProperties, ElementOfSeq
<1> DEFINE t == SubSeq(s, c + 1, c + 1)
           o == <<s[c + 1]>>
<1>2. t \in Seq(S) /\ Len(t) = 1 /\ t[1] = s[c + 1] /\ Upto(s, c) \o t = Upto(s, c + 1)
  <2> DEFINE n == c + 1
  <2>1. n \in c .. Len(s) /\ c \in 0 .. Len(s) /\ n - c = 1 /\ 1 \in 1 .. n - c
    BY <1>1
  <2> HIDE DEF n
  <2>2. /\ SubSeq(s, c + 1, n) \in Seq(S) /\ Len(SubSeq(s, c + 1, n)) = n - c
        /\ SubSeq(s, c + 1, n)[1] = s[c + 1]
        /\ Upto(s, c) \o SubSeq(s, c + 1, n) = Upto(s, n)
    <3>1. Continued(S, SubSeq(s, c + 1, n), s, c, n)
      BY <2>1, Longer
    <3>2. QED
      BY <2>1, <3>1 DEF Continued
  <2>3. QED
    BY <2>1, <2>2 DEF n
<1>3. o \in Seq(S) /\ Len(o) = 1 /\ o[1] = s[c + 1]
  BY <1>1
<1> HIDE DEF t, o
<1>4. t = o
  BY <1>2, <1>3, SeqEqual
<1>5. Upto(s, c) \in Seq(S)
  BY <1>1, UptoIs
<1>6. Append(Upto(s, c), s[c + 1]) = Upto(s, c) \o o
  BY <1>1, <1>5, AppendIsConcat DEF o
<1>7. QED
  BY <1>2, <1>4, <1>6 DEF t, o

(* u is the first n tokens of s with t behind them. *)
Placed(S, u, s, n, t) ==
    /\ u \in Seq(S) /\ Len(u) = n + Len(t)
    /\ \A i \in 1 .. n : u[i] = s[i]
    /\ \A i \in 1 .. Len(t) : u[n + i] = t[i]
    /\ \A i \in 0 .. n : Upto(u, i) = Upto(s, i)
    /\ \A i \in 0 .. Len(t) : Upto(u, n + i) = Upto(s, n) \o Upto(t, i)

(* A draft behind the text. *)
LEMMA Behind ==
    ASSUME NEW S, NEW s \in Seq(S), NEW n \in 0 .. Len(s), NEW t \in Seq(S)
    PROVE  Placed(S, Upto(s, n) \o t, s, n, t)
<1> DEFINE a == Upto(s, n)
           u == a \o t
<1>1. Len(s) \in Nat /\ Len(t) \in Nat
  BY LenProperties
<1>2. a \in Seq(S) /\ Len(a) = n /\ \A j \in 1 .. n : a[j] = s[j]
  BY UptoIs
<1> HIDE DEF a
<1>3. /\ u \in Seq(S) /\ Len(u) = Len(a) + Len(t)
      /\ \A i \in 1 .. Len(a) : u[i] = a[i]
      /\ \A i \in 1 .. Len(t) : u[Len(a) + i] = t[i]
  <2>1. a \in Seq(S)
    BY <1>2
  <2>2. QED
    BY <2>1, Joined
<1> HIDE DEF u
<1>n. Len(u) = n + Len(t) /\ n \in Nat /\ n <= Len(s)
  BY <1>1, <1>2, <1>3
<1>4. \A i \in 1 .. n : u[i] = s[i]
  BY <1>2, <1>3
<1>5. ASSUME NEW i \in 0 .. n PROVE Upto(u, i) = Upto(s, i)
  <2>1. i \in 0 .. Len(u) /\ i <= Len(s) /\ \A j \in 1 .. i : u[j] = s[j]
    BY <1>1, <1>n, <1>4
  <2>2. QED
    BY <1>3, <2>1, UptoAgrees
<1>6. ASSUME NEW i \in 0 .. Len(t) PROVE Upto(u, n + i) = a \o Upto(t, i)
  <2> DEFINE b == Upto(t, i)
             v == Upto(u, n + i)
  <2>1. b \in Seq(S) /\ Len(b) = i /\ \A j \in 1 .. i : b[j] = t[j]
    BY <1>1, UptoIs
  <2>2. v \in Seq(S) /\ Len(v) = n + i /\ \A j \in 1 .. n + i : v[j] = u[j]
    <3>1. n + i \in 0 .. Len(u)
      BY <1>1, <1>n
    <3>2. QED
      BY <1>3, <3>1, UptoIs
  <2> HIDE DEF b, v
  <2>3. \A j \in 1 .. Len(a) : v[j] = a[j]
    BY <1>1, <1>2, <1>3, <2>2
  <2>4. ASSUME NEW j \in 1 .. Len(b) PROVE v[Len(a) + j] = b[j]
    <3>1. n + j \in 1 .. n + i /\ j \in 1 .. Len(t) /\ j \in 1 .. i
      BY <1>1, <2>1
    <3>2. QED
      BY <1>2, <1>3, <2>1, <2>2, <3>1
  <2>5. a \o b = v
    BY <1>1, <1>2, <2>1, <2>2, <2>3, <2>4, Glued
  <2>6. QED
    BY <2>5 DEF b, v
<1>7. /\ u \in Seq(S) /\ Len(u) = n + Len(t)
      /\ \A i \in 1 .. Len(t) : u[n + i] = t[i]
  BY <1>2, <1>3, <1>n
<1>8. QED
  BY <1>4, <1>5, <1>6, <1>7 DEF u, a, Placed

LEMMA NoDraftBehind ==
    ASSUME NEW S, NEW s \in Seq(S), NEW n \in 1 .. Len(s), NEW t \in Seq(S), Len(t) = 0
    PROVE  Upto(Upto(s, n) \o t, n - 1 + Len(t)) = Upto(s, n - 1)
<1>1. Len(s) \in Nat
  BY LenProperties
<1>2. n \in 0 .. Len(s) /\ n - 1 \in 0 .. n /\ n - 1 + Len(t) = n - 1
  BY <1>1
<1>3. \A i \in 0 .. n : Upto(Upto(s, n) \o t, i) = Upto(s, i)
  <2>1. Placed(S, Upto(s, n) \o t, s, n, t)
    BY <1>2, Behind
  <2>2. QED
    BY <2>1 DEF Placed
<1>4. QED
  BY <1>2, <1>3

-----------------------------------------------------------------------------
(* One forward over the tokens fed. *)

USE DecodeAssumption

(* The rows before the tokens fed stay, one row is written for each of      *)
(* them, and garbage may lie behind.                                        *)
Rowed(rows, state, c, fed) ==
    /\ rows \in Seq(Seq(Tok))
    /\ c + Len(fed) <= Len(rows)
    /\ Len(rows) = c + Len(fed) \/ Len(rows) = Len(kvc)
    /\ \A i \in 1 .. c : rows[i] = kvc[i]
    /\ \A i \in 1 .. Len(fed) : rows[c + i] = state \o Upto(fed, i)

LEMMA RowsAre ==
    ASSUME kvc \in Seq(Seq(Tok)), NEW state \in Seq(Tok), NEW c \in 0 .. Len(kvc),
           NEW fed \in Seq(Tok), NEW n, n = c + Len(fed)
    PROVE  Rowed(RowsWith(state, c, fed), state, c, fed)
<1> DEFINE S == Seq(Tok)
           a == Upto(kvc, c)
           b == [i \in 1 .. Len(fed) |-> state \o Upto(fed, i)]
           e == SubSeq(kvc, c + Len(fed) + 1, Len(kvc))
           r == (a \o b) \o e
<1>1. Len(kvc) \in Nat /\ Len(fed) \in Nat /\ c \in Nat
  BY LenProperties
<1>2. a \in Seq(S) /\ Len(a) = c /\ \A i \in 1 .. c : a[i] = kvc[i]
  BY UptoIs
<1>3. b \in Seq(S) /\ Len(b) = Len(fed) /\ \A i \in 1 .. Len(fed) : b[i] = state \o Upto(fed, i)
  <2>1. ASSUME NEW i \in 1 .. Len(fed) PROVE state \o Upto(fed, i) \in S
    <3>1. Upto(fed, i) \in Seq(Tok)
      BY <1>1, UptoIs
    <3>2. QED
      BY <3>1, Joined
  <2>2. b \in [1 .. Len(fed) -> S] /\ \A i \in 1 .. Len(fed) : b[i] = state \o Upto(fed, i)
    BY <2>1
  <2> HIDE DEF b, S
  <2>3. QED
    BY <1>1, <2>2, FunIsSeq
<1>4. /\ e \in Seq(S)
      /\ Len(e) = IF n < Len(kvc) THEN Len(kvc) - n ELSE 0
  <2>1. \A i \in n + 1 .. Len(kvc) : kvc[i] \in S
    BY <1>1, ElementOfSeq
  <2>2. QED
    BY <1>1, <2>1, SubSeqProperties
<1> HIDE DEF S, a, b, e
<1>5. /\ a \o b \in Seq(S) /\ Len(a \o b) = Len(a) + Len(b)
      /\ \A i \in 1 .. Len(a) : (a \o b)[i] = a[i]
      /\ \A i \in 1 .. Len(b) : (a \o b)[Len(a) + i] = b[i]
  <2>1. a \in Seq(S) /\ b \in Seq(S)
    BY <1>2, <1>3
  <2>2. QED
    BY <2>1, Joined
<1> DEFINE g == a \o b
<1> HIDE DEF g
<1>6. /\ g \in Seq(S) /\ Len(g) = n
      /\ \A i \in 1 .. c : g[i] = kvc[i]
      /\ \A i \in 1 .. Len(fed) : g[c + i] = state \o Upto(fed, i)
  BY <1>1, <1>2, <1>3, <1>5 DEF g
<1> DEFINE q == g \o e
<1>7. /\ q \in Seq(S) /\ Len(q) = Len(g) + Len(e)
      /\ \A i \in 1 .. Len(g) : q[i] = g[i]
  <2>1. g \in Seq(S) /\ e \in Seq(S)
    BY <1>4, <1>6
  <2>2. QED
    BY <2>1, Joined
<1> HIDE DEF q
<1>8. \A i \in 1 .. n : q[i] = g[i]
  BY <1>6, <1>7
<1>9. n <= Len(q) /\ (Len(q) = n \/ Len(q) = Len(kvc))
  <2>1. n \in Nat /\ Len(q) = n + Len(e)
    BY <1>1, <1>6, <1>7
  <2>2. Len(e) = IF n < Len(kvc) THEN Len(kvc) - n ELSE 0
    BY <1>4
  <2>3. CASE n < Len(kvc)
    BY ONLY <1>1, <2>1, <2>2, <2>3
  <2>4. CASE ~ (n < Len(kvc))
    BY ONLY <1>1, <2>1, <2>2, <2>4
  <2>5. QED
    BY <2>3, <2>4
<1>10. \A i \in 1 .. c : q[i] = kvc[i]
  BY <1>1, <1>6, <1>8
<1>11. ASSUME NEW i \in 1 .. Len(fed) PROVE q[c + i] = state \o Upto(fed, i)
  <2>1. c + i \in 1 .. n
    BY <1>1
  <2>2. QED
    BY <1>6, <1>8, <2>1
<1>12. q = RowsWith(state, c, fed)
  BY DEF q, g, a, b, e, RowsWith
<1>13. QED
  BY <1>7, <1>9, <1>10, <1>11, <1>12 DEF S, Rowed

(* What feeding the tokens of s up to n does to the exact state of the      *)
(* first ones: it is the exact state of these too, and the answers are the  *)
(* exact model's.                                                           *)
FeedsUp(s, n, fed, rows) ==
    /\ fed \in Seq(Tok) /\ Len(fed) = n - cached
    /\ ks \o fed = Upto(s, n)
    /\ rows \in Seq(Seq(Tok)) /\ n <= Len(rows)
    /\ Len(rows) = n \/ Len(rows) = Len(kvc)
    /\ \A i \in 1 .. n : rows[i] = Upto(s, i)
    /\ \A a \in Answers(fed) : \A i \in 1 .. n - cached : a[i] = Greedy(Upto(s, cached + i))

LEMMA Feeds ==
    ASSUME StateTypes, NEW s \in Seq(Tok), ExactFor(s), NEW n \in cached .. Len(s),
           NEW fed, fed = SubSeq(s, cached + 1, n), NEW rows, rows = RowsWith(ks, cached, fed)
    PROVE  FeedsUp(s, n, fed, rows)
<1>1. /\ ks \in Seq(Tok) /\ kvc \in Seq(Seq(Tok)) /\ cached \in 0 .. Len(kvc)
      /\ cached \in 0 .. Len(s) /\ n \in Nat /\ Len(s) \in Nat /\ Len(kvc) \in Nat
  <2>1. ks \in Seq(Tok) /\ kvc \in Seq(Seq(Tok)) /\ cached \in 0 .. Len(kvc) /\ cached <= Len(s)
    BY DEF StateTypes, TypeOK, ExactFor
  <2>2. Len(s) \in Nat /\ Len(kvc) \in Nat
    BY <2>1, LenProperties
  <2>3. QED
    BY <2>1, <2>2
<1>2. ks = Upto(s, cached) /\ \A i \in 1 .. cached : kvc[i] = Upto(s, i)
  BY DEF ExactFor
<1>3. /\ fed \in Seq(Tok) /\ Len(fed) = n - cached
      /\ \A i \in 0 .. n - cached : ks \o Upto(fed, i) = Upto(s, cached + i)
      /\ ks \o fed = Upto(s, n)
  <2>1. cached \in 0 .. Len(s) /\ n \in cached .. Len(s)
    BY <1>1
  <2> DEFINE t == SubSeq(s, cached + 1, n)
             k == Upto(s, cached)
  <2>2. /\ t \in Seq(Tok) /\ Len(t) = n - cached
        /\ \A i \in 0 .. n - cached : k \o Upto(t, i) = Upto(s, cached + i)
        /\ k \o t = Upto(s, n)
    <3>1. Continued(Tok, SubSeq(s, cached + 1, n), s, cached, n)
      BY ONLY <2>1, Longer, s \in Seq(Tok)
    <3>2. QED
      BY <3>1 DEF Continued
  <2>3. ks = k /\ fed = t
    BY <1>2
  <2> HIDE DEF t, k
  <2>4. QED
    BY <2>2, <2>3
<1>4. /\ rows \in Seq(Seq(Tok)) /\ n <= Len(rows)
      /\ Len(rows) = n \/ Len(rows) = Len(kvc)
      /\ \A i \in 1 .. cached : rows[i] = kvc[i]
      /\ \A i \in 1 .. Len(fed) : rows[cached + i] = ks \o Upto(fed, i)
  <2>1. /\ n = cached + Len(fed) /\ fed \in Seq(Tok) /\ ks \in Seq(Tok)
        /\ kvc \in Seq(Seq(Tok)) /\ cached \in 0 .. Len(kvc)
    BY <1>1, <1>3
  <2>2. Rowed(RowsWith(ks, cached, fed), ks, cached, fed)
    BY <2>1, RowsAre
  <2>3. QED
    BY <2>1, <2>2 DEF Rowed
<1>5. ASSUME NEW i \in 1 .. n PROVE rows[i] = Upto(s, i)
  <2>1. CASE i <= cached
    <3>1. i \in 1 .. cached
      BY <1>1, <2>1
    <3>2. QED
      BY <1>2, <1>4, <3>1
  <2>2. CASE i > cached
    <3>1. i - cached \in 1 .. Len(fed) /\ i - cached \in 0 .. n - cached /\ cached + (i - cached) = i
      BY <1>1, <1>3, <2>2
    <3>2. rows[cached + (i - cached)] = ks \o Upto(fed, i - cached)
      BY <1>4, <3>1
    <3>3. ks \o Upto(fed, i - cached) = Upto(s, cached + (i - cached))
      BY <1>3, <3>1
    <3>4. QED
      BY <3>1, <3>2, <3>3
  <2>3. QED
    BY <1>1, <2>1, <2>2
<1>6. Coherent
  <2>1. Len(ks) = cached
    BY <1>1, <1>2, UptoIs
  <2>2. ASSUME NEW i \in 1 .. cached PROVE Upto(ks, i) = Upto(s, i)
    BY <1>1, <1>2, UptoUpto
  <2>3. QED
    BY <1>2, <2>1, <2>2 DEF Coherent
<1>7. ASSUME NEW a \in Answers(fed), NEW i \in 1 .. n - cached
      PROVE  a[i] = Greedy(Upto(s, cached + i))
  <2>1. a = [j \in 1 .. Len(fed) |-> Greedy(ks \o Upto(fed, j))]
    BY <1>6, <1>7 DEF Answers
  <2>2. a[i] = Greedy(ks \o Upto(fed, i))
    BY <1>3, <2>1
  <2>3. i \in 0 .. n - cached
    BY <1>1
  <2>4. QED
    BY <1>3, <2>2, <2>3
<1>8. QED
  BY <1>3, <1>4, <1>5, <1>7 DEF FeedsUp

-----------------------------------------------------------------------------
(* The n-gram draft. *)

LEMMA Stretch ==
    ASSUME NEW S, NEW s \in Seq(S), NEW a \in Nat, NEW b \in Nat, a <= b, b <= Len(s)
    PROVE  /\ SubSeq(s, a + 1, b) \in Seq(S) /\ Len(SubSeq(s, a + 1, b)) = b - a
           /\ \A i \in 1 .. b - a : SubSeq(s, a + 1, b)[i] = s[a + i]
<1>1. a \in 0 .. Len(s) /\ b \in a .. Len(s)
  BY LenProperties
<1>2. Continued(S, SubSeq(s, a + 1, b), s, a, b)
  BY ONLY <1>1, Longer, s \in Seq(S)
<1>3. QED
  BY <1>2 DEF Continued

(* Two stretches of equal length are one if they agree token by token.      *)
Stretches(s, u, a, c, n) ==
    SubSeq(s, a + 1, a + n) = SubSeq(u, c + 1, c + n)
       <=> \A i \in 1 .. n : s[a + i] = u[c + i]

LEMMA SameStretch ==
    ASSUME NEW S, NEW s \in Seq(S), NEW u \in Seq(S), NEW a \in Nat, NEW c \in Nat, NEW n \in Nat,
           a + n <= Len(s), c + n <= Len(u)
    PROVE  Stretches(s, u, a, c, n)
<1> DEFINE x == SubSeq(s, a + 1, a + n)
           y == SubSeq(u, c + 1, c + n)
           b == a + n
           e == c + n
<1>1. b \in Nat /\ e \in Nat /\ a <= b /\ c <= e /\ b - a = n /\ e - c = n
  OBVIOUS
<1>2. x \in Seq(S) /\ Len(x) = n /\ \A i \in 1 .. n : x[i] = s[a + i]
  <2> HIDE DEF b
  <2>1. /\ SubSeq(s, a + 1, b) \in Seq(S) /\ Len(SubSeq(s, a + 1, b)) = b - a
        /\ \A i \in 1 .. b - a : SubSeq(s, a + 1, b)[i] = s[a + i]
    BY <1>1, Stretch DEF b
  <2>2. QED
    BY <1>1, <2>1 DEF b
<1>3. y \in Seq(S) /\ Len(y) = n /\ \A i \in 1 .. n : y[i] = u[c + i]
  <2> HIDE DEF e
  <2>1. /\ SubSeq(u, c + 1, e) \in Seq(S) /\ Len(SubSeq(u, c + 1, e)) = e - c
        /\ \A i \in 1 .. e - c : SubSeq(u, c + 1, e)[i] = u[c + i]
    BY <1>1, Stretch DEF e
  <2>2. QED
    BY <1>1, <2>1 DEF e
<1> HIDE DEF x, y
<1>4. x = y <=> \A i \in 1 .. n : x[i] = y[i]
  BY <1>2, <1>3, SeqEqual
<1>5. QED
  BY <1>2, <1>3, <1>4 DEF x, y, Stretches

LEMMA MatchesBefore ==
    ASSUME NEW S, NEW s \in Seq(S), NEW t \in 0 .. Len(s), NEW n \in Nat \ {0}
    PROVE  Before(Upto(s, t), n) = Matches(s, t, n)
<1> DEFINE u == Upto(s, t)
<1>1. u \in Seq(S) /\ Len(u) = t /\ t \in Nat /\ \A i \in 1 .. t : u[i] = s[i]
  BY UptoIs, LenProperties
<1> HIDE DEF u
<1>2. ASSUME NEW j \in 0 .. t - n - 1
      PROVE  SubSeq(u, j + 1, j + n) = SubSeq(u, t - n + 1, t)
                <=> \A i \in 1 .. n : s[j + i] = s[t - n + i]
  <2> DEFINE c == t - n
  <2>1. c \in Nat /\ c + n = t /\ j \in Nat /\ j + n <= t
    BY <1>1
  <2> HIDE DEF c
  <2>2. SubSeq(u, j + 1, j + n) = SubSeq(u, c + 1, c + n)
           <=> \A i \in 1 .. n : u[j + i] = u[c + i]
    <3>1. c + n <= Len(u) /\ j + n <= Len(u) /\ n \in Nat /\ u \in Seq(S)
      BY <1>1, <2>1
    <3>2. Stretches(u, u, j, c, n)
      BY ONLY <2>1, <3>1, SameStretch
    <3>3. QED
      BY <3>2 DEF Stretches
  <2>3. ASSUME NEW i \in 1 .. n PROVE u[j + i] = s[j + i] /\ u[c + i] = s[c + i]
    <3>1. j + i \in 1 .. t /\ c + i \in 1 .. t
      BY <1>1, <2>1
    <3>2. QED
      BY <1>1, <3>1
  <2>4. QED
    BY <2>1, <2>2, <2>3 DEF c
<1>3. QED
  BY <1>1, <1>2 DEF Before, Matches, u

(* What an n-gram of n tokens proposes. *)
Proposed(u, n, cap, c) ==
    /\ Len(c) <= cap
    /\ Before(u, n) = {} => c = <<>>
    /\ Before(u, n) # {} => Backed(u, n, c)
    /\ \A j \in Before(u, n) : Before(u, n) = {j} => Len(c) = Min({cap, Len(u) - (j + n)})

LEMMA ContinuationIs ==
    ASSUME NEW S, NEW s \in Seq(S), NEW t \in 0 .. Len(s), NEW n \in Nat \ {0}, NEW cap \in Nat
    PROVE  /\ Continuation(s, t, n, cap) \in Seq(S)
           /\ Proposed(Upto(s, t), n, cap, Continuation(s, t, n, cap))
<1> DEFINE M == Matches(s, t, n)
           u == Upto(s, t)
           C == Continuation(s, t, n, cap)
           newer == Max(M)
           older == M \ {newer}
           Confirmed(k) == older = {} \/
               \A i \in 0 .. k - 1 : Agree(s, n, Max(older), newer, i)
           K == {k \in 0 .. cap : newer + n + k <= t /\ Confirmed(k)}
           len == Max(K)
<1>0. Len(s) \in Nat /\ t \in Nat /\ n \in Nat /\ t <= Len(s) /\ t - n - 1 \in Int
  BY LenProperties
<1>u. u \in Seq(S) /\ Len(u) = t /\ \A i \in 1 .. t : u[i] = s[i]
  BY UptoIs
<1>m. Before(u, n) = M
  BY MatchesBefore
<1>1. CASE M = {}
  <2>1. C = <<>>
    BY <1>1 DEF Continuation
  <2>2. C \in Seq(S) /\ Len(C) = 0 /\ 0 <= cap
    BY <2>1, EmptySeq
  <2>3. QED
    BY <1>1, <1>m, <2>1, <2>2 DEF Proposed
<1>2. CASE M # {}
  <2>1. M \subseteq 0 .. t - n - 1
    BY DEF Matches
  <2>3. newer \in 0 .. t - n - 1
    <3> HIDE DEF M
    <3>1. newer \in M
      BY ONLY <1>0, <1>2, <2>1, InInterval
    <3>2. QED
      BY <2>1, <3>1
  <2>o. ASSUME older # {} PROVE Max(older) \in 0 .. t - n - 1
    <3>1. older \subseteq 0 .. t - n - 1
      BY <2>1
    <3> HIDE DEF older
    <3>2. QED
      BY <1>0, <2>o, <3>1, InInterval
  <2>4. Confirmed(0)
    OBVIOUS
  <2>c. C = SubSeq(s, newer + n + 1, newer + n + len)
    BY <1>2 DEF Continuation, Follows
  <2>k. \A k \in 0 .. cap : older = {} /\ newer + n + k <= t => k \in K
    OBVIOUS
  <2>e. \A k \in K : k \in 0 .. cap /\ newer + n + k <= t
                     /\ (older # {} => \A i \in 0 .. k - 1 : Agree(s, n, Max(older), newer, i))
    OBVIOUS
  <2>s. K \subseteq 0 .. cap /\ 0 \in K
    <3> HIDE DEF M, newer, older, Confirmed
    <3>1. 0 \in K
      BY <1>0, <2>3, <2>4
    <3>2. QED
      BY <3>1
  <2>b. Backed(u, n, C) <=>
          /\ newer + n + Len(C) <= Len(u)
          /\ C = SubSeq(u, newer + n + 1, newer + n + Len(C))
          /\ older # {} => C = SubSeq(u, Max(older) + n + 1, Max(older) + n + Len(C))
    BY <1>m DEF Backed
  <2> HIDE DEF u, C, K
  <2>6. len \in K /\ \A k \in K : len >= k
    <3>1. IsFiniteSet(0 .. cap)
      BY FS_Interval
    <3>2. IsFiniteSet(K)
      BY <2>s, <3>1, FS_Subset
    <3>3. \A k \in K : k \in Int
      <4>1. \A k \in 0 .. cap : k \in Int
        OBVIOUS
      <4>2. QED
        BY ONLY <2>s, <4>1
    <3>4. K # {}
      BY <2>s
    <3>5. QED
      BY ONLY <3>2, <3>3, <3>4, MaxExists
  <2>7. len \in 0 .. cap /\ newer + n + len <= t
        /\ (older # {} => \A i \in 0 .. len - 1 : Agree(s, n, Max(older), newer, i))
    BY <2>6, <2>e
  <2> DEFINE a == newer + n
  <2>a. a \in Nat /\ len \in Nat /\ a + len \in Nat /\ a <= a + len /\ a + len <= t /\ a + len <= Len(s)
        /\ (a + len) - a = len
    <3>1. newer \in Nat /\ len \in Nat /\ newer + n + len <= t
      BY <2>3, <2>7
    <3> HIDE DEF M, newer, older, len
    <3>2. QED
      BY ONLY <1>0, <3>1
  <2>8. C \in Seq(S) /\ Len(C) = len
    <3> DEFINE b == a + len
    <3> HIDE DEF a, b
    <3>1. b \in Nat /\ a <= b /\ b <= Len(s) /\ b - a = len
      BY <2>a DEF b
    <3>2. SubSeq(s, a + 1, b) \in Seq(S) /\ Len(SubSeq(s, a + 1, b)) = b - a
      BY ONLY <2>a, <3>1, Stretch, s \in Seq(S)
    <3>3. QED
      BY <2>c, <3>1, <3>2 DEF a, b
  <2>9. C = SubSeq(u, a + 1, a + len)
    <3> HIDE DEF a, len
    <3>1. \A i \in 1 .. len : s[a + i] = u[a + i]
      <4>1. ASSUME NEW i \in 1 .. len PROVE s[a + i] = u[a + i]
        <5>1. a + i \in 1 .. t
          BY <1>0, <2>a
        <5>2. QED
          BY <1>u, <5>1
      <4>2. QED
        BY <4>1
    <3>2. SubSeq(s, a + 1, a + len) = SubSeq(u, a + 1, a + len)
      <4>1. a + len <= Len(u)
        BY <1>u, <2>a
      <4>2. Stretches(s, u, a, a, len)
        BY ONLY <1>u, <2>a, <4>1, SameStretch, s \in Seq(S)
      <4>3. QED
        BY <3>1, <4>2 DEF Stretches
    <3>3. QED
      BY <2>c, <3>2 DEF a
  <2>10. ASSUME older # {} PROVE C = SubSeq(u, Max(older) + n + 1, Max(older) + n + len)
    <3> DEFINE b == Max(older) + n
    <3>1. b \in Nat /\ b < t
      <4> HIDE DEF older
      <4>1. QED
        BY <1>0, <2>o, <2>10
    <3>2. ASSUME NEW i \in 1 .. len PROVE u[b + i] = s[a + i] /\ b + i <= t
      <4> DEFINE k == i - 1
      <4>1. k \in 0 .. len - 1 /\ k + 1 = i
        BY <2>a
      <4> HIDE DEF k
      <4>2. Agree(s, n, Max(older), newer, k)
        BY <2>7, <2>10, <4>1
      <4> HIDE DEF older, newer, len
      <4>3. Max(older) + n + k < newer /\ s[Max(older) + n + k + 1] = s[newer + n + k + 1]
        BY <4>2 DEF Agree
      <4>4. Max(older) \in Int /\ newer \in Int /\ newer <= t
        BY <1>0, <2>3, <2>o, <2>10
      <4>5. Max(older) + n + k + 1 = b + i /\ newer + n + k + 1 = a + i
        BY <1>0, <4>1, <4>4
      <4>6. b + i <= t /\ b + i \in 1 .. t
        <5>1. b + i <= newer
          BY <1>0, <4>1, <4>3, <4>4, <4>5
        <5>2. QED
          BY <1>0, <3>1, <4>4, <5>1
      <4>7. QED
        BY <1>u, <4>3, <4>5, <4>6
    <3> HIDE DEF a, b, older, newer, len
    <3>3. b + len <= t
      <4>1. CASE len = 0
        BY <1>0, <3>1, <4>1
      <4>2. CASE len # 0
        <5>1. len \in 1 .. len
          BY <2>a, <4>2
        <5>2. QED
          BY <3>2, <5>1
      <4>3. QED
        BY <4>1, <4>2
    <3>4. SubSeq(s, a + 1, a + len) = SubSeq(u, b + 1, b + len)
      <4>1. \A i \in 1 .. len : s[a + i] = u[b + i]
        BY <3>2
      <4>2. a + len <= Len(s) /\ b + len <= Len(u) /\ u \in Seq(S) /\ b \in Nat /\ len \in Nat /\ a \in Nat
        BY <1>u, <2>a, <3>1, <3>3
      <4>3. Stretches(s, u, a, b, len)
        BY ONLY <4>2, SameStretch, s \in Seq(S)
      <4>4. QED
        BY <4>1, <4>3 DEF Stretches
    <3>5. QED
      BY <2>c, <3>4 DEF a, b
  <2>11. Backed(u, n, C)
    BY <1>u, <2>7, <2>8, <2>9, <2>10, <2>b
  <2>12. ASSUME NEW j \in M, M = {j} PROVE len = Min({cap, t - (j + n)})
    <3>1. newer = j /\ older = {}
      <4>1. newer \in M
        <5> HIDE DEF M
        <5>1. QED
          BY ONLY <1>0, <1>2, <2>1, InInterval
      <4>2. QED
        BY <2>12, <4>1
    <3>2. \A k \in 0 .. cap : j + n + k <= t => len >= k
      BY <2>k, <2>6, <3>1
    <3>3. len \in 0 .. cap /\ j + n + len <= t /\ j \in Int
      BY <2>3, <2>7, <3>1
    <3> HIDE DEF len, M, newer, older
    <3> DEFINE x == t - (j + n)
    <3>4. x \in Int /\ len <= x /\ len <= cap /\ (x < cap => len >= x) /\ (x >= cap => len >= cap)
      <4>1. x \in Int /\ len <= x /\ len <= cap
        BY <1>0, <3>3
      <4>2. ASSUME x < cap PROVE len >= x
        <5>1. x \in 0 .. cap /\ j + n + x <= t
          BY <1>0, <3>3, <4>1, <4>2
        <5>2. QED
          BY <3>2, <5>1
      <4>3. ASSUME x >= cap PROVE len >= cap
        <5>1. cap \in 0 .. cap /\ j + n + cap <= t
          BY <1>0, <3>3, <4>3
        <5>2. QED
          BY <3>2, <5>1
      <4>4. QED
        BY <4>1, <4>2, <4>3
    <3> HIDE DEF x
    <3>5. len \in {cap, x} /\ \A y \in {cap, x} : len =< y
      BY <3>3, <3>4
    <3>6. \A m1 \in {cap, x} : (\A y \in {cap, x} : m1 =< y) => m1 = len
      BY <3>3, <3>4
    <3>7. Min({cap, x}) = len
      BY <3>5, <3>6 DEF Min
    <3>8. QED
      BY <3>7 DEF x
  <2>13. Len(C) <= cap
    BY <2>7, <2>8
  <2>14. QED
    BY <1>2, <1>m, <1>u, <2>8, <2>11, <2>12, <2>13 DEF Proposed, u, C
<1>3. QED
  BY <1>1, <1>2

(* What spec_draft proposes is what a proposal has to be, for every         *)
(* sequence, length and cap: at most cap tokens, the ones that followed the *)
(* last four or three at their latest earlier occurrence and, if there is   *)
(* one, at the occurrence before that; older ones are not asked.            *)
THEOREM SpecDraftIs ==
    ASSUME NEW S, NEW s \in Seq(S), NEW t \in 0 .. Len(s), NEW cap \in Nat
    PROVE  /\ spec_draft(s, t, cap) \in Seq(S) /\ Len(spec_draft(s, t, cap)) <= cap
           /\ Follow(Upto(s, t), cap, spec_draft(s, t, cap))
<1> DEFINE u == Upto(s, t)
           long == Continuation(s, t, 4, cap)
           short == Continuation(s, t, 3, cap)
<1>1. long \in Seq(S) /\ short \in Seq(S) /\ Proposed(u, 4, cap, long) /\ Proposed(u, 3, cap, short)
  <2>1. \A n \in {3, 4} : /\ Continuation(s, t, n, cap) \in Seq(S)
                           /\ Proposed(Upto(s, t), n, cap, Continuation(s, t, n, cap))
    <3>1. ASSUME NEW n \in {3, 4}
          PROVE  /\ Continuation(s, t, n, cap) \in Seq(S)
                 /\ Proposed(Upto(s, t), n, cap, Continuation(s, t, n, cap))
      <4>1. n \in Nat \ {0}
        OBVIOUS
      <4>2. QED
        BY ONLY <4>1, ContinuationIs, s \in Seq(S), t \in 0 .. Len(s), cap \in Nat
    <3>2. QED
      BY <3>1
  <2>2. QED
    BY <2>1
<1>2. spec_draft(s, t, cap) = IF long # <<>> THEN long ELSE short
  BY DEF spec_draft
<1> HIDE DEF u, long, short
<1>3. CASE long # <<>>
  BY <1>1, <1>2, <1>3 DEF Proposed, Follow, u
<1>4. CASE long = <<>>
  <2>1. Len(long) = 0
    BY <1>4, EmptySeq
  <2>2. Len(short) <= cap /\ Len(short) \in Nat
    BY <1>1, LenProperties DEF Proposed
  <2>3. ASSUME NEW j \in Before(u, 4), Before(u, 4) = {j}
        PROVE  Len(short) = Min({cap, Len(u) - (j + 4)})
    <3>1. Min({cap, Len(u) - (j + 4)}) = 0
      BY <1>1, <2>1, <2>3 DEF Proposed
    <3>2. Len(u) \in Nat /\ j \in 0 .. Len(u) - 5
      <4>1. Len(u) \in Nat
        BY UptoIs, LenProperties DEF u
      <4>2. QED
        BY <4>1 DEF Before
    <3> DEFINE x == Len(u) - (j + 4)
    <3>3. x \in Int /\ x > 0
      BY <3>2
    <3> HIDE DEF x
    <3>4. CASE cap > 0
      <4>1. Min({cap, x}) \in {cap, x}
        <5>1. (cap =< x => \A y \in {cap, x} : cap =< y) /\ (x =< cap => \A y \in {cap, x} : x =< y)
          BY <3>3
        <5>2. \E z \in {cap, x} : \A y \in {cap, x} : z =< y
          BY <3>3, <5>1
        <5>3. QED
          BY <5>2 DEF Min
      <4>2. QED
        BY <3>1, <3>3, <3>4, <4>1 DEF x
    <3>5. CASE cap = 0
      BY <2>2, <3>1, <3>5
    <3>6. QED
      BY <3>4, <3>5
  <2>4. short # <<>> => Before(u, 3) # {} /\ Backed(u, 3, short)
    BY <1>1 DEF Proposed
  <2>5. QED
    BY <1>1, <1>2, <1>4, <2>2, <2>3, <2>4 DEF Follow, u
<1>5. QED
  BY <1>3, <1>4

-----------------------------------------------------------------------------
(* The draft model's state while it proposes. *)

(* Absorbing p, with x proposed, keeps it one token behind its own draft.   *)
Grown(s, n, t, x, p) ==
    Append(Upto(Upto(s, n) \o t, n - 1 + Len(t)), p)
      = Upto(Upto(s, n) \o Append(t, x), n - 1 + Len(Append(t, x)))

LEMMA SweptGrows ==
    ASSUME NEW S, NEW s \in Seq(S), NEW n \in 1 .. Len(s), NEW t \in Seq(S), NEW x \in S,
           NEW p, p = IF Len(t) = 0 THEN s[n] ELSE t[Len(t)]
    PROVE  Grown(s, n, t, x, p)
<1> DEFINE y == Append(t, x)
           u == Upto(s, n) \o t
           v == Upto(s, n) \o y
           k == n + Len(t)
<1>1. /\ Len(s) \in Nat /\ Len(t) \in Nat /\ n \in 0 .. Len(s) /\ n \in Nat
      /\ s \in Seq(S) /\ t \in Seq(S)
  BY LenProperties
<1>2. /\ y \in Seq(S) /\ Len(y) = Len(t) + 1
      /\ \A i \in 1 .. Len(t) : y[i] = t[i]
  BY AppendProperties
<1> HIDE DEF y
<1>a. Placed(S, u, s, n, t) /\ Placed(S, v, s, n, y)
  BY ONLY <1>1, <1>2, Behind
<1>3. /\ u \in Seq(S) /\ Len(u) = n + Len(t)
      /\ \A i \in 1 .. n : u[i] = s[i]
      /\ \A i \in 1 .. Len(t) : u[n + i] = t[i]
  BY <1>a DEF Placed
<1>4. /\ v \in Seq(S) /\ Len(v) = n + Len(y)
      /\ \A i \in 1 .. n : v[i] = s[i]
      /\ \A i \in 1 .. Len(y) : v[n + i] = y[i]
  BY <1>a DEF Placed
<1> HIDE DEF u, v
<1>5. ASSUME NEW i \in 1 .. k PROVE u[i] = v[i]
  <2>1. CASE i <= n
    <3>1. i \in 1 .. n
      BY <1>1, <2>1
    <3>2. QED
      BY <1>3, <1>4, <3>1
  <2>2. CASE i > n
    <3> DEFINE j == i - n
    <3>1. j \in 1 .. Len(t) /\ j \in 1 .. Len(y) /\ n + j = i
      BY <1>1, <1>2, <2>2
    <3> HIDE DEF j
    <3>2. u[n + j] = t[j] /\ v[n + j] = y[j] /\ y[j] = t[j]
      BY ONLY <1>2, <1>3, <1>4, <3>1
    <3>3. QED
      BY <3>1, <3>2
  <2>3. QED
    BY <1>1, <2>1, <2>2
<1>6. Upto(u, k) = Upto(v, k)
  <2>1. k \in 0 .. Len(u) /\ k <= Len(v)
    BY <1>1, <1>2, <1>3, <1>4
  <2> HIDE DEF k
  <2>2. QED
    BY ONLY <1>3, <1>4, <1>5, <2>1, UptoAgrees
<1>7. u[k] = p
  <2>1. CASE Len(t) = 0
    BY <1>1, <1>3, <2>1
  <2>2. CASE Len(t) # 0
    <3>1. Len(t) \in 1 .. Len(t)
      BY <1>1, <2>2
    <3>2. QED
      BY <1>3, <2>2, <3>1
  <2>3. QED
    BY <2>1, <2>2
<1>8. Append(Upto(u, k - 1), u[k]) = Upto(u, k)
  <2> DEFINE c == k - 1
  <2>1. c \in Nat /\ c < Len(u) /\ c + 1 = k
    BY <1>1, <1>3
  <2> HIDE DEF c
  <2>2. Append(Upto(u, c), u[c + 1]) = Upto(u, c + 1)
    BY ONLY <1>3, <2>1, OneMore
  <2>3. QED
    BY <2>1, <2>2 DEF c
<1>9. n - 1 + Len(t) = k - 1 /\ n - 1 + Len(y) = k
  BY <1>1, <1>2
<1> HIDE DEF k
<1>10. Append(Upto(u, n - 1 + Len(t)), p) = Upto(v, n - 1 + Len(y))
  BY <1>6, <1>7, <1>8, <1>9
<1>11. QED
  BY <1>10 DEF u, v, y, Grown

LEMMA WholeAppend ==
    ASSUME NEW q \in Seq(Tok \cup {Torn}), NEW x \in Tok \cup {Torn}, Whole(Append(q, x))
    PROVE  Whole(q) /\ x # Torn
<1> DEFINE a == Append(q, x)
<1>1. Len(q) \in Nat /\ Len(a) = Len(q) + 1 /\ a[Len(q) + 1] = x
      /\ \A i \in 1 .. Len(q) : a[i] = q[i]
  BY AppendProperties, LenProperties
<1>2. \A i \in 1 .. Len(a) : a[i] # Torn
  BY DEF Whole
<1> HIDE DEF a
<1>3. QED
  BY <1>1, <1>2 DEF Whole

(* The parts of a state that is not torn are not torn. *)
LEMMA WholeJoined ==
    ASSUME NEW q \in Seq(Tok \cup {Torn}), NEW r \in Seq(Tok \cup {Torn}), Whole(q \o r)
    PROVE  Whole(q)
<1> DEFINE a == q \o r
<1>1. /\ Len(a) = Len(q) + Len(r) /\ \A i \in 1 .. Len(q) : a[i] = q[i]
      /\ Len(q) \in Nat /\ Len(r) \in Nat
  BY Joined, LenProperties
<1>2. \A i \in 1 .. Len(a) : a[i] # Torn
  BY DEF Whole
<1> HIDE DEF a
<1>3. QED
  BY <1>1, <1>2 DEF Whole

-----------------------------------------------------------------------------
(* Sequences that agree. *)

(* A state exact for s is exact for every sequence that agrees with s as    *)
(* far as the state goes.                                                   *)
LEMMA ExactTransfers ==
    ASSUME NEW s \in Seq(Tok), NEW t \in Seq(Tok), cached \in Nat, ExactFor(s),
           cached <= Len(t), \A i \in 1 .. cached : s[i] = t[i]
    PROVE  /\ ExactFor(t)
           /\ \A i \in 0 .. cached : Upto(s, i) = Upto(t, i)
<1>1. Len(s) \in Nat /\ Len(t) \in Nat /\ cached <= Len(s)
  BY LenProperties DEF ExactFor
<1>2. ASSUME NEW i \in 0 .. cached PROVE Upto(s, i) = Upto(t, i)
  <2>1. i \in 0 .. Len(s) /\ i <= Len(t) /\ \A j \in 1 .. i : s[j] = t[j]
    BY <1>1
  <2>2. QED
    BY <2>1, UptoAgrees
<1>3. QED
  BY <1>1, <1>2 DEF ExactFor

(* The last token of the text and the draft behind it. *)
Swath(s, n, t) == SubSeq(Upto(s, n) \o t, n, n + Len(t)) = <<s[n]>> \o t

LEMMA PendingAndDraft ==
    ASSUME NEW S, NEW s \in Seq(S), NEW n \in 1 .. Len(s), NEW t \in Seq(S)
    PROVE  Swath(s, n, t)
<1> DEFINE u == Upto(s, n) \o t
           c == n - 1
           e == n + Len(t)
           v == SubSeq(u, c + 1, e)
           o == <<s[n]>>
<1>1. /\ Len(s) \in Nat /\ Len(t) \in Nat /\ n \in 0 .. Len(s) /\ n \in Nat
      /\ s[n] \in S
  BY LenProperties, ElementOfSeq
<1>2. Placed(S, u, s, n, t)
  BY <1>1, Behind
<1>3. /\ u \in Seq(S) /\ Len(u) = n + Len(t)
      /\ \A i \in 1 .. n : u[i] = s[i]
      /\ \A i \in 1 .. Len(t) : u[n + i] = t[i]
  BY <1>2 DEF Placed
<1> HIDE DEF u
<1>4. c \in 0 .. Len(u) /\ e \in c .. Len(u) /\ e - c = Len(t) + 1 /\ c + 1 = n
  BY <1>1, <1>3
<1> HIDE DEF c, e
<1>5. /\ v \in Seq(S) /\ Len(v) = e - c
      /\ \A i \in 1 .. e - c : v[i] = u[c + i]
  <2>1. Continued(S, SubSeq(u, c + 1, e), u, c, e)
    BY ONLY <1>3, <1>4, Longer
  <2>2. QED
    BY <2>1 DEF Continued
<1> HIDE DEF v
<1>6. o \in Seq(S) /\ Len(o) = 1 /\ o[1] = s[n]
  BY <1>1
<1> HIDE DEF o
<1>7. \A i \in 1 .. Len(o) : v[i] = o[i]
  <2>1. 1 \in 1 .. e - c /\ n \in 1 .. n
    BY <1>1, <1>4
  <2>2. v[1] = s[n]
    BY <1>3, <1>4, <1>5, <2>1
  <2>3. QED
    BY <1>6, <2>2
<1>8. ASSUME NEW i \in 1 .. Len(t) PROVE v[Len(o) + i] = t[i]
  <2>1. 1 + i \in 1 .. e - c /\ c + (1 + i) = n + i
    BY <1>1, <1>4 DEF c
  <2>2. QED
    BY <1>3, <1>5, <1>6, <2>1
<1>9. Len(v) = Len(o) + Len(t)
  BY <1>1, <1>4, <1>5, <1>6
<1>10. o \o t = v
  BY ONLY <1>3, <1>5, <1>6, <1>7, <1>8, <1>9, Glued, t \in Seq(S)
<1>11. QED
  BY <1>4, <1>10 DEF Swath, u, v, o, e

(* One token in hand. *)
Single(s, n, e) ==
    /\ e \in Seq(Tok) /\ e # <<>> /\ Len(e) = 1
    /\ \A i \in 1 .. Len(e) : Upto(s, n) \o Upto(e, i - 1) = Upto(s, n)

LEMMA OneInHand ==
    ASSUME NEW s \in Seq(Tok), NEW n \in 0 .. Len(s), NEW x \in Tok
    PROVE  Single(s, n, <<x>>)
<1> DEFINE e == <<x>>
<1>1. e \in Seq(Tok) /\ e # <<>> /\ Len(e) = 1 /\ n \in Nat
  BY LenProperties
<1> HIDE DEF e
<1>2. Placed(Tok, Upto(s, n) \o e, s, n, e)
  BY <1>1, Behind
<1>3. 0 \in 0 .. Len(e) /\ n \in 0 .. n /\ n + 0 = n
  BY <1>1
<1>4. Upto(s, n) \o Upto(e, 0) = Upto(s, n)
  BY <1>2, <1>3 DEF Placed
<1>5. \A i \in 1 .. Len(e) : i - 1 = 0
  BY <1>1
<1>6. QED
  BY <1>1, <1>4, <1>5 DEF Single, e

(* A prompt behind the saved sequence. *)
LEMMA FullUpto ==
    ASSUME NEW S, NEW s \in Seq(S)
    PROVE  Upto(s, Len(s)) = s
BY SubSeqFull DEF Upto

-----------------------------------------------------------------------------
(* Steps that feed no model. *)

(* The exact model answers with tokens. *)
Answering == \A c \in Seq(Tok) : Greedy(c) \in Tok

LEMMA Numbers ==
    ASSUME IInv
    PROVE  /\ seq \in Seq(Tok) /\ Len(seq) \in Nat /\ T \in Nat /\ T <= Len(seq)
           /\ ks \in Seq(Tok) /\ kvc \in Seq(Seq(Tok)) /\ cached \in Nat
           /\ Len(kvc) \in Nat /\ cached <= Len(kvc) /\ Len(kvc) <= T - nout + gen + 1
           /\ d \in Seq(Tok) /\ Len(d) \in Nat /\ emit \in Seq(Tok) /\ Len(emit) \in Nat
           /\ nout \in Nat /\ gen \in Nat /\ nout <= gen /\ first \in BOOLEAN
           /\ mode \in Modes /\ mode.spec \in Nat /\ mode.draft \in BOOLEAN
           /\ mode.save \in BOOLEAN /\ mode.stops \subseteq Tok
           /\ dks \in Seq(Tok \cup {Torn}) /\ dsnap \in Seq(Tok \cup {Torn}) /\ dcached \in Nat
<1>1. StateTypes
  BY DEF IInv
<1>2. gen \in Nat /\ nout \in Nat /\ nout <= gen
  <2>1. gen \in Gens \cup {0} /\ nout \in 0 .. gen
    BY <1>1 DEF StateTypes, TypeOK
  <2>2. gen \in Nat
    BY <2>1
  <2>3. QED
    BY <2>1, <2>2
<1>3. mode \in Modes
  BY <1>1 DEF StateTypes, TypeOK
<1>4. Len(seq) \in Nat /\ Len(kvc) \in Nat /\ Len(d) \in Nat /\ Len(emit) \in Nat
  BY <1>1, LenProperties DEF StateTypes, TypeOK
<1>5. QED
  BY <1>1, <1>2, <1>3, <1>4 DEF StateTypes, TypeOK, kv_cap, Tmax

LEMMA LeaveStep ==
    ASSUME IInv, LoopEnds \/ Interrupted
    PROVE  IInv'
<1> USE DEF opts, exact, draft, loop
<1>1. StateTypes'
  BY DEF IInv, StateTypes, TypeOK, LoopEnds, Interrupted, kv_cap, Tmax
<1>2. Places'
  BY DEF IInv, Places, LoopEnds, Interrupted, GoesOn, Pending, Answered, Absorbed
<1>3. Carried'
  BY DEF IInv, Carried, LoopEnds, Interrupted, GoesOn, Pending, Absorbed, ExactFor
<1>4. InHand' /\ SavedExact' /\ Lockstep'
  BY DEF IInv, InHand, SavedExact, Lockstep, LoopEnds, Interrupted, Answered, Absorbed
<1>5. QED
  BY <1>1, <1>2, <1>3, <1>4 DEF IInv

LEMMA DraftFillStep ==
    ASSUME IInv, DraftFill
    PROVE  IInv'
<1> USE DEF opts, exact, draft, loop
<1>1. StateTypes'
  <2>1. Upto(seq, cached) \in Seq(Tok)
    BY UptoIs DEF IInv, StateTypes, TypeOK, Carried, DraftFill, Absorbed, ExactFor
  <2>2. Upto(seq, cached) \in Seq(Tok \cup {Torn})
    BY <2>1, SeqMonotonic
  <2>3. QED
    BY <2>2 DEF IInv, StateTypes, TypeOK, DraftFill, kv_cap, Tmax
<1>2. Places'
  BY DEF IInv, Places, DraftFill, Pending, Answered, Absorbed, hit_stop
<1>3. Carried'
  BY DEF IInv, Carried, DraftFill, Pending, Absorbed, ExactFor
<1>4. InHand' /\ SavedExact'
  BY DEF IInv, InHand, SavedExact, DraftFill, Answered, Absorbed
<1>5. Lockstep'
  BY DEF Lockstep, DraftFill
<1>6. QED
  BY <1>1, <1>2, <1>3, <1>4, <1>5 DEF IInv

LEMMA ProposeStep ==
    ASSUME IInv, NGramProposes \/ NoDraft \/ DraftBegins
    PROVE  IInv'
<1> USE DEF opts, exact, draft, loop
<1>0. /\ GoesOn /\ ~first /\ d' \in Seq(Tok) /\ Len(d') \in Nat
      /\ pc' = "plain" => d' = <<>> /\ dsnap' = dsnap
      /\ pc' = "verify" => /\ MaySpeculate /\ ~mode.draft /\ d' # <<>>
                           /\ Len(d') <= mode.spec /\ dsnap' = dsnap
      /\ pc' = "draft" => MaySpeculate /\ mode.draft /\ d' = <<>> /\ dsnap' = dks /\ Len(d') = 0
      /\ pc' \in {"plain", "verify", "draft"}
      /\ UNCHANGED <<opts, exact, draft, loop, spec_snap, file, runs>>
  <2>1. CASE NGramProposes
    <3>1. d' \in Seq(Tok) /\ Len(d') <= mode.spec
      BY <2>1, SpecDraftIs DEF NGramProposes, IInv, StateTypes, TypeOK
    <3>2. QED
      BY <2>1, <3>1 DEF NGramProposes
  <2>2. CASE NoDraft \/ DraftBegins
    BY <2>2, EmptySeq DEF NoDraft, DraftBegins
  <2>3. QED
    BY <2>1, <2>2
<1>1. StateTypes'
  BY <1>0 DEF IInv, StateTypes, TypeOK, kv_cap, Tmax
<1>2. /\ nout \in Nat /\ gen \in Nat /\ T \in Nat /\ mode.spec \in Nat /\ nout > 0 /\ nout < gen
      /\ T > 0 /\ Len(seq) \in Nat /\ T <= Len(seq) /\ seq \in Seq(Tok) /\ mode.draft \in BOOLEAN
  BY <1>0, Numbers DEF IInv, Places, GoesOn
<1>3. MaySpeculate => mode.spec > 0 /\ nout + mode.spec < gen
  BY <1>2 DEF MaySpeculate, Tmax
<1>4. Places'
  BY <1>0, <1>2, <1>3 DEF IInv, Places, GoesOn, Pending, Answered, Absorbed, hit_stop
<1>5. Carried'
  BY <1>0, <1>2 DEF IInv, Carried, GoesOn, Pending, Absorbed, ExactFor
<1>6. InHand' /\ SavedExact'
  BY <1>0 DEF IInv, InHand, SavedExact, Answered, Absorbed
<1>7. Lockstep'
  <2>1. mode.draft /\ Whole(dks) => dcached = T - 1 /\ dks = Upto(seq, T - 1)
    BY <1>0, <1>2 DEF IInv, Lockstep, Carried, GoesOn
  <2>2. T \in 1 .. Len(seq) /\ d' \in Seq(Tok)
    BY <1>0, <1>2
  <2>3. Len(d') = 0 => Upto(Upto(seq, T) \o d', T - 1 + Len(d')) = Upto(seq, T - 1)
    BY <1>2, <2>2, NoDraftBehind
  <2>4. CASE pc' = "plain"
    BY <1>0, <2>1, <2>4 DEF Lockstep, Whole
  <2>5. CASE pc' = "verify"
    BY <1>0, <2>5 DEF Lockstep
  <2>6. CASE pc' = "draft"
    <3>1. Whole(dks) => /\ dcached = T - 1 + Len(d')
                        /\ dks = Upto(Upto(seq, T) \o d', T - 1 + Len(d'))
      BY <1>0, <1>2, <2>1, <2>3, <2>6
    <3>2. QED
      BY <1>0, <2>1, <2>6, <3>1 DEF Lockstep, Swept, Whole
  <2>7. QED
    BY <1>0, <2>4, <2>5, <2>6
<1>8. QED
  BY <1>1, <1>4, <1>5, <1>6, <1>7 DEF IInv

-----------------------------------------------------------------------------
(* The draft model proposes. *)

(* What the three draft actions share: they change the draft model, the     *)
(* draft and the place only.                                                *)
LEMMA DraftStep ==
    ASSUME IInv, DraftSteps \/ DraftEnds \/ DraftFails
    PROVE  IInv'
<1> USE DEF opts, exact, draft, loop
<1>1. /\ pc = "draft" /\ cached = T - 1 /\ T > 0 /\ ~first /\ mode.draft /\ ~hit_stop
      /\ mode.spec > 0 /\ nout + mode.spec < gen /\ nout # 0 /\ nout < gen /\ ExactFor(seq)
      /\ Len(d) <= mode.spec
  <2>1. pc = "draft"
    BY DEF DraftSteps, DraftEnds, DraftFails
  <2>2. /\ ~hit_stop /\ ~first /\ (first <=> nout = 0) /\ (nout > 0 => nout < gen) /\ T > 0
        /\ mode.spec > 0 /\ nout + mode.spec < gen /\ Len(d) <= mode.spec /\ mode.draft
    BY <2>1 DEF IInv, Places, Pending
  <2>3. cached = T - 1 /\ ExactFor(seq)
    BY <2>1 DEF IInv, Carried, Pending
  <2>4. nout \in Nat
    BY Numbers
  <2>5. QED
    BY <2>1, <2>2, <2>3, <2>4
<1>2. UNCHANGED <<opts, exact, loop, spec_snap, dsnap, file, runs>>
  BY DEF DraftSteps, DraftEnds, DraftFails
<1>3. T \in 1 .. Len(seq) /\ T \in Nat
  BY <1>1, Numbers
<1>4. /\ pc' \in {"draft", "verify", "plain"}
      /\ d' \in Seq(Tok) /\ Len(d') <= mode.spec /\ Len(d') \in Nat
      /\ pc' = "plain" => d' = <<>>
      /\ pc' = "verify" => d' # <<>>
      /\ dks' \in Seq(Tok \cup {Torn}) /\ dcached' \in Nat
      /\ Whole(dks') => dcached' = T - 1 + Len(d') /\ dks' = Upto(Upto(seq, T) \o d', T - 1 + Len(d'))
  <2>0. /\ Whole(dks) => dcached = T - 1 + Len(d) /\ dks = Upto(Upto(seq, T) \o d, T - 1 + Len(d))
    BY <1>1 DEF IInv, Lockstep, Swept
  <2>1. CASE DraftSteps
    <3>1. PICK x \in Tok : d' = Append(d, x)
      BY <2>1 DEF DraftSteps
    <3>2. d' \in Seq(Tok) /\ Len(d') = Len(d) + 1
      BY <3>1, Numbers, AppendProperties
    <3>3. Previous = (IF Len(d) = 0 THEN seq[T] ELSE d[Len(d)]) /\ Previous \in Tok
      <4>1. d = <<>> <=> Len(d) = 0
        BY Numbers, EmptySeq
      <4>2. base + 1 = T
        BY <1>1, <1>3 DEF base
      <4>3. seq[T] \in Tok
        BY <1>3, Numbers, ElementOfSeq
      <4>4. Len(d) # 0 => d[Len(d)] \in Tok
        BY Numbers, ElementOfSeq
      <4>5. QED
        BY <4>1, <4>2, <4>3, <4>4 DEF Previous
    <3>4. dks' = Append(dks, Previous) /\ dcached' = dcached + 1 /\ pc' = "draft" /\ Len(d) < mode.spec
      BY <2>1 DEF DraftSteps
    <3>5. dks' \in Seq(Tok \cup {Torn}) /\ dcached' \in Nat
      <4>1. Previous \in Tok \cup {Torn} /\ dks \in Seq(Tok \cup {Torn}) /\ dcached \in Nat
        BY <3>3, Numbers
      <4>2. Append(dks, Previous) \in Seq(Tok \cup {Torn})
        BY ONLY <4>1, AppendProperties
      <4>3. QED
        BY <3>4, <4>1, <4>2
    <3>6. ASSUME Whole(dks')
          PROVE  dcached' = T - 1 + Len(d') /\ dks' = Upto(Upto(seq, T) \o d', T - 1 + Len(d'))
      <4>1. Whole(dks)
        BY <3>3, <3>4, <3>6, Numbers, WholeAppend
      <4>2. dcached = T - 1 + Len(d) /\ dks = Upto(Upto(seq, T) \o d, T - 1 + Len(d))
        BY <2>0, <4>1
      <4>3. Append(Upto(Upto(seq, T) \o d, T - 1 + Len(d)), Previous)
              = Upto(Upto(seq, T) \o Append(d, x), T - 1 + Len(Append(d, x)))
        <5>1. seq \in Seq(Tok) /\ d \in Seq(Tok) /\ x \in Tok
          BY Numbers
        <5>2. Grown(seq, T, d, x, Previous)
          BY ONLY <1>3, <3>3, <5>1, SweptGrows
        <5>3. QED
          BY <5>2 DEF Grown
      <4>4. dcached' = T - 1 + Len(d')
        BY <1>3, <3>2, <3>4, <4>2, Numbers
      <4>5. QED
        BY <3>1, <3>4, <4>2, <4>3, <4>4
    <3>7. Len(d') <= mode.spec /\ Len(d') \in Nat
      <4>1. Len(d) \in Nat /\ mode.spec \in Nat
        BY Numbers
      <4>2. QED
        BY ONLY <3>2, <3>4, <4>1
    <3>8. QED
      BY <3>2, <3>4, <3>5, <3>6, <3>7
  <2>2. CASE DraftEnds
    <3>1. d # <<>>
      <4>1. Len(d) = mode.spec /\ mode.spec > 0 /\ Len(<<>>) = 0
        BY <1>1, <2>2 DEF DraftEnds
      <4>2. QED
        BY <4>1
    <3>2. QED
      BY <1>1, <2>0, <2>2, <3>1, Numbers DEF DraftEnds
  <2>3. CASE DraftFails
    <3>1. Torn \in Tok \cup {Torn}
      OBVIOUS
    <3>2. dks' \in Seq(Tok \cup {Torn}) /\ (Whole(dks') => dks' = dks)
      <4>1. dks \in Seq(Tok \cup {Torn})
        BY Numbers
      <4>2. Append(dks, Torn) \in Seq(Tok \cup {Torn}) /\ ~ Whole(Append(dks, Torn))
        BY ONLY <3>1, <4>1, AppendProperties, WholeAppend
      <4>3. QED
        BY <2>3, <4>1, <4>2 DEF DraftFails
    <3>3. QED
      BY <1>1, <2>0, <2>3, <3>2, Numbers DEF DraftFails
  <2>4. QED
    BY <2>1, <2>2, <2>3
<1>5. StateTypes'
  BY <1>1, <1>2, <1>4 DEF IInv, StateTypes, TypeOK, kv_cap, Tmax
<1>6. Places'
  BY <1>1, <1>2, <1>4, Numbers DEF Places, Pending, Answered, Absorbed, hit_stop
<1>7. Carried'
  BY <1>1, <1>2, <1>4 DEF Carried, Pending, Absorbed, ExactFor
<1>8. InHand' /\ SavedExact'
  BY <1>2, <1>4 DEF IInv, InHand, SavedExact, Answered, Absorbed
<1>9. Lockstep'
  <2>1. Whole(dsnap) => dsnap = Upto(seq, T - 1)
    BY <1>1 DEF IInv, Lockstep
  <2>2. CASE pc' = "plain"
    <3>1. Len(d') = 0 /\ seq \in Seq(Tok)
      BY <1>4, <2>2, Numbers, EmptySeq
    <3>2. Upto(Upto(seq, T) \o d', T - 1 + Len(d')) = Upto(seq, T - 1)
      <4>1. d' \in Seq(Tok)
        BY <1>4
      <4>2. QED
        BY ONLY <1>3, <3>1, <4>1, NoDraftBehind
    <3>3. Whole(dks') => dcached' = T - 1 /\ dks' = Upto(seq, T - 1)
      BY <1>3, <1>4, <3>1, <3>2
    <3>4. QED
      BY <1>2, <2>2, <3>3 DEF Lockstep
  <2>3. CASE pc' \in {"draft", "verify"}
    BY <1>2, <1>4, <2>1, <2>3 DEF Lockstep, Swept, Whole
  <2>4. QED
    BY <1>4, <2>2, <2>3
<1>10. QED
  BY <1>5, <1>6, <1>7, <1>8, <1>9 DEF IInv

-----------------------------------------------------------------------------
(* Starting a run. *)

LEMMA StartStep ==
    ASSUME IInv, Start
    PROVE  IInv'
<1> USE DEF opts, exact, draft, loop
<1>1. PICK from \in {file, NoFile}, p \in Prompts :
         /\ gen' \in Gens
         /\ from.cached <= Len(from.seq) + Len(p) + gen' + 1
         /\ seq' = from.seq \o p /\ T' = Len(seq')
         /\ ks' = from.ks /\ kvc' = from.kvc /\ cached' = from.cached
  BY DEF Start
<1>2. /\ pc = "off" /\ runs < MaxRuns /\ mode' \in Modes /\ pc' = "top" /\ runs' = runs + 1
      /\ UNCHANGED <<draft, spec_snap, dsnap, d, emit, nout, first, file>>
  BY DEF Start
<1>3. /\ from.seq \in Seq(Tok) /\ from.ks \in Seq(Tok) /\ from.kvc \in Seq(Seq(Tok))
      /\ from.cached \in Nat /\ Len(from.kvc) = from.cached /\ from.cached <= Len(from.seq)
      /\ from.ks = Upto(from.seq, from.cached)
      /\ \A i \in 1 .. from.cached : from.kvc[i] = Upto(from.seq, i)
  <2>1. CASE from = file
    BY <2>1 DEF IInv, StateTypes, SavedExact
  <2>2. CASE from = NoFile
    <3>1. from.seq = <<>> /\ from.ks = <<>> /\ from.kvc = <<>> /\ from.cached = 0
      BY <2>2 DEF NoFile
    <3>2. Upto(<<>>, 0) = <<>>
      BY SubSeqEmpty DEF Upto
    <3>3. QED
      BY <3>1, <3>2, EmptySeq
  <2>3. QED
    BY <2>1, <2>2
<1> DEFINE s == from.seq
           c == from.cached
<1>4. p \in Seq(Tok) /\ Len(p) > 0 /\ Len(p) \in Nat /\ Len(s) \in Nat
  <2>1. p \in Seq(Tok) /\ p # <<>>
    BY <1>1
  <2>2. Len(p) # 0
    BY <2>1, EmptySeq
  <2>3. QED
    BY <1>3, <2>1, <2>2, LenProperties
<1>a. /\ s \in Seq(Tok) /\ c \in Nat /\ c <= Len(s) /\ cached' = c
      /\ seq' = s \o p /\ T' = Len(seq') /\ gen' \in Gens
      /\ ks' \in Seq(Tok) /\ kvc' \in Seq(Seq(Tok)) /\ Len(kvc') = c
      /\ ks' = Upto(s, c) /\ \A i \in 1 .. c : kvc'[i] = Upto(s, i)
      /\ c <= Len(s) + Len(p) + gen' + 1
  BY <1>1, <1>3
<1> HIDE DEF s, c
<1>5. /\ seq' \in Seq(Tok) /\ Len(seq') = Len(s) + Len(p) /\ \A i \in 1 .. Len(s) : seq'[i] = s[i]
  BY <1>4, <1>a, Joined
<1>6. \A i \in 0 .. c : Upto(s, i) = Upto(seq', i)
  <2>1. ASSUME NEW i \in 0 .. c PROVE Upto(s, i) = Upto(seq', i)
    <3>1. i \in 0 .. Len(s) /\ i <= Len(seq') /\ \A j \in 1 .. i : s[j] = seq'[j]
      BY <1>4, <1>5, <1>a
    <3>2. s \in Seq(Tok) /\ seq' \in Seq(Tok)
      BY <1>5, <1>a
    <3>3. QED
      BY ONLY <3>1, <3>2, UptoAgrees
  <2>2. QED
    BY <2>1
<1>7. /\ nout' = 0 /\ first' = TRUE /\ emit' = <<>> /\ d' = <<>> /\ nout = 0 /\ runs \in Nat
      /\ gen' \in Nat /\ Len(emit') \in Nat /\ emit' \in Seq(Tok) /\ d' \in Seq(Tok)
  BY <1>1, <1>2, EmptySeq DEF IInv, Places, StateTypes, TypeOK
<1>8. StateTypes'
  <2>1. /\ T' \in 0 .. Len(seq') /\ Len(seq') <= Tmax' + 7 /\ cached' \in 0 .. Len(kvc')
        /\ Len(kvc') <= kv_cap' /\ nout' \in 0 .. gen' /\ runs' \in 0 .. MaxRuns
    BY <1>2, <1>4, <1>5, <1>7, <1>a DEF Tmax, kv_cap
  <2>2. QED
    BY <1>2, <1>5, <1>7, <1>a, <2>1 DEF IInv, StateTypes, TypeOK
<1>9. Places'
  BY <1>2, <1>4, <1>5, <1>7, <1>a DEF Places, Pending, Absorbed, Answered
<1>10. Carried'
  <2>1. /\ cached' <= Len(seq') /\ cached' < T' /\ cached' <= T'
        /\ ks' = Upto(seq', cached')
        /\ \A i \in 1 .. cached' : kvc'[i] = Upto(seq', i)
    BY <1>4, <1>5, <1>6, <1>a
  <2>2. QED
    BY <1>2, <1>7, <2>1 DEF Carried, ExactFor, Pending, Absorbed
<1>11. InHand' /\ SavedExact'
  BY <1>2 DEF IInv, InHand, SavedExact, Answered, Absorbed
<1>12. Lockstep'
  BY <1>2, <1>7 DEF Lockstep
<1>13. QED
  BY <1>8, <1>9, <1>10, <1>11, <1>12 DEF IInv

-----------------------------------------------------------------------------
(* One answer: the rest of the text is fed. *)

-----------------------------------------------------------------------------
(* One answer: the rest of the text is fed. *)

RestIsFed ==
    /\ ks' \in Seq(Tok) /\ kvc' \in Seq(Seq(Tok)) /\ cached' \in 0 .. Len(kvc')
    /\ Len(kvc') <= kv_cap /\ emit' \in Seq(Tok) /\ Len(emit') = 1 /\ emit' # <<>>
    /\ cached' = T /\ ks' = Upto(seq, T)
    /\ \A i \in 1 .. T : kvc'[i] = Upto(seq, i)
    /\ \A i \in 1 .. 1 : emit'[i] = Greedy(Upto(seq, T) \o Upto(emit', i - 1))

LEMMA RestFed ==
    ASSUME IInv, Answering, ExactFor(seq), cached < T, T > 0,
           NEW fed, fed = SubSeq(seq, cached + 1, T), Absorbs(ks, cached, fed),
           NEW answers \in Answers(fed), emit' = <<answers[T - cached]>>, cached' = T
    PROVE  RestIsFed
<1>1. StateTypes
  BY DEF IInv
<1>2. /\ seq \in Seq(Tok) /\ Len(seq) \in Nat /\ T \in Nat /\ T <= Len(seq) /\ cached \in Nat
      /\ Len(kvc) \in Nat /\ nout \in Nat /\ gen \in Nat /\ nout <= gen
      /\ Len(kvc) <= kv_cap /\ kv_cap = T - nout + gen + 1
  BY Numbers DEF kv_cap, Tmax
<1>3. T \in cached .. Len(seq)
  BY <1>2
<1> DEFINE rows == RowsWith(ks, cached, fed)
<1>4. FeedsUp(seq, T, fed, rows)
  BY ONLY <1>1, <1>2, <1>3, Feeds, ExactFor(seq), fed = SubSeq(seq, cached + 1, T)
<1>5. ks' = ks \o fed /\ kvc' = rows
  BY DEF Absorbs
<1> HIDE DEF rows
<1>6. /\ ks' = Upto(seq, T) /\ kvc' \in Seq(Seq(Tok)) /\ T <= Len(kvc')
      /\ Len(kvc') = T \/ Len(kvc') = Len(kvc)
      /\ \A i \in 1 .. T : kvc'[i] = Upto(seq, i)
      /\ \A i \in 1 .. T - cached : answers[i] = Greedy(Upto(seq, cached + i))
  BY <1>4, <1>5 DEF FeedsUp
<1> DEFINE x == answers[T - cached]
<1>7. x = Greedy(Upto(seq, T))
  <2>1. T - cached \in 1 .. T - cached /\ cached + (T - cached) = T
    BY <1>2
  <2>2. QED
    BY <1>6, <2>1
<1>8. T \in 0 .. Len(seq) /\ Upto(seq, T) \in Seq(Tok)
  BY <1>2, UptoIs
<1>9. x \in Tok
  BY <1>7, <1>8 DEF Answering
<1> HIDE DEF x
<1>10. Single(seq, T, <<x>>)
  BY ONLY <1>2, <1>8, <1>9, OneInHand
<1>11. emit' = <<x>>
  BY DEF x
<1>12. /\ emit' \in Seq(Tok) /\ emit' # <<>> /\ Len(emit') = 1
       /\ \A i \in 1 .. Len(emit') : Upto(seq, T) \o Upto(emit', i - 1) = Upto(seq, T)
  BY <1>10, <1>11 DEF Single
<1>13. ASSUME NEW i \in 1 .. 1
       PROVE  emit'[i] = Greedy(Upto(seq, T) \o Upto(emit', i - 1))
  <2>1. i = 1 /\ emit'[1] = x
    BY <1>11
  <2>2. Upto(seq, T) \o Upto(emit', i - 1) = Upto(seq, T)
    BY <1>12
  <2>3. QED
    BY <1>7, <2>1, <2>2
<1>14. Len(kvc') <= kv_cap /\ cached' \in 0 .. Len(kvc')
  <2>1. Len(kvc') \in Nat
    BY <1>6, LenProperties
  <2>2. QED
    BY <1>2, <1>6, <2>1
<1>15. ks' \in Seq(Tok)
  BY <1>6, <1>8
<1>16. QED
  BY <1>6, <1>12, <1>13, <1>14, <1>15 DEF RestIsFed

LEMMA AnswerStep ==
    ASSUME IInv, RestIsFed, T > 0, ~hit_stop, d = <<>>,
           first <=> nout = 0, nout > 0 => nout < gen,
           pc' = "draftfill" => first /\ mode.draft,
           pc' = "plaindraft" => ~first /\ mode.draft,
           pc' \in {"draftfill", "plaindraft", "emit"},
           pc' = "emit" => ~mode.draft,
           pc' = "plaindraft" /\ Whole(dks) => dcached = T - 1 /\ dks = Upto(seq, T - 1),
           UNCHANGED <<opts, draft, seq, T, nout, first, spec_snap, dsnap, d, file, runs>>
    PROVE  IInv'
<1> USE DEF opts, draft
<1>1. StateTypes'
  BY DEF IInv, StateTypes, TypeOK, RestIsFed, kv_cap, Tmax
<1>2. Places'
  BY DEF Places, Pending, Answered, Absorbed, hit_stop
<1>3. Carried'
  <2>1. Len(emit') = 1 /\ cached' = T' + Len(emit') - 1 /\ cached' <= Len(seq')
    BY Numbers DEF RestIsFed
  <2>2. ExactFor(seq)'
    BY <2>1 DEF RestIsFed, ExactFor
  <2>3. QED
    BY <2>1, <2>2 DEF Carried, Pending, Absorbed
<1>4. InHand'
  <2>1. T + Len(emit') - 1 <= Len(seq) /\ \A i \in 1 .. Len(emit') - 1 : seq[T + i] = emit'[i]
    BY Numbers DEF RestIsFed
  <2>2. QED
    BY <2>1 DEF InHand, RestIsFed
<1>5. SavedExact'
  BY DEF IInv, SavedExact
<1>6. Lockstep'
  BY DEF Lockstep, Whole
<1>7. QED
  BY <1>1, <1>2, <1>3, <1>4, <1>5, <1>6 DEF IInv

LEMMA PrefillStep ==
    ASSUME IInv, Answering, Prefill
    PROVE  IInv'
<1>1. /\ pc = "top" /\ first /\ ~hit_stop /\ nout = 0 /\ d = <<>> /\ ExactFor(seq) /\ cached < T
      /\ T > 0 /\ T \in Nat /\ cached \in Nat
  BY Numbers DEF Prefill, GoesOn, IInv, Places, Carried
<1>2. base + Unread = T /\ Unread = T - cached /\ Fed(Unread) = SubSeq(seq, cached + 1, T)
  BY <1>1 DEF base, Unread, Fed
<1>3. PICK answers \in Answers(Fed(Unread)) : emit' = <<answers[Unread]>>
  BY DEF Prefill
<1>4. RestIsFed
  <2> DEFINE fed == Fed(Unread)
  <2>1. /\ Absorbs(ks, cached, fed) /\ cached' = T /\ fed = SubSeq(seq, cached + 1, T)
        /\ answers \in Answers(fed) /\ emit' = <<answers[T - cached]>>
    BY <1>2, <1>3 DEF Prefill, base
  <2> HIDE DEF fed
  <2>2. QED
    BY ONLY <1>1, <2>1, RestFed, IInv, Answering
<1>5. /\ pc' = IF mode.draft THEN "draftfill" ELSE "emit"
      /\ UNCHANGED <<opts, draft, seq, T, nout, first, spec_snap, dsnap, d, file, runs>>
  BY DEF Prefill
<1>6. QED
  BY <1>1, <1>4, <1>5, AnswerStep

LEMMA PlainStep ==
    ASSUME IInv, Answering, Plain
    PROVE  IInv'
<1>1. /\ pc = "plain" /\ ~first /\ ~hit_stop /\ nout > 0 /\ nout < gen /\ d = <<>>
      /\ ExactFor(seq) /\ cached < T /\ cached = T - 1 /\ T > 0 /\ T \in Nat /\ cached \in Nat
      /\ mode.draft /\ Whole(dks) => dcached = T - 1 /\ dks = Upto(seq, T - 1)
  <2>1. pc = "plain"
    BY DEF Plain
  <2>2. /\ ~hit_stop /\ ~first /\ (first <=> nout = 0) /\ (nout > 0 => nout < gen) /\ T > 0
        /\ d = <<>>
    BY <2>1 DEF IInv, Places, Pending
  <2>3. cached = T - 1 /\ ExactFor(seq)
    BY <2>1 DEF IInv, Carried, Pending
  <2>4. mode.draft /\ Whole(dks) => dcached = T - 1 /\ dks = Upto(seq, T - 1)
    BY <2>1 DEF IInv, Lockstep
  <2>5. T \in Nat /\ cached \in Nat /\ nout \in Nat
    BY Numbers
  <2>6. QED
    BY <2>1, <2>2, <2>3, <2>4, <2>5
<1>2. base + 1 = T /\ T - cached = 1 /\ Fed(1) = SubSeq(seq, cached + 1, T)
  <2>1. cached = T - 1 /\ T \in Nat
    BY <1>1
  <2>2. cached + 1 = T /\ T - cached = 1
    BY ONLY <2>1
  <2>3. QED
    BY ONLY <2>2 DEF base, Fed
<1>3. PICK answers \in Answers(Fed(1)) : emit' = <<answers[1]>>
  BY DEF Plain
<1>4. RestIsFed
  <2> DEFINE fed == Fed(1)
  <2>1. /\ Absorbs(ks, cached, fed) /\ cached' = T /\ fed = SubSeq(seq, cached + 1, T)
        /\ answers \in Answers(fed) /\ emit' = <<answers[T - cached]>>
    BY <1>2, <1>3 DEF Plain, base
  <2> HIDE DEF fed
  <2>2. QED
    BY ONLY <1>1, <2>1, RestFed, IInv, Answering
<1>5. /\ pc' = IF mode.draft THEN "plaindraft" ELSE "emit"
      /\ UNCHANGED <<opts, draft, seq, T, nout, first, spec_snap, dsnap, d, file, runs>>
  BY DEF Plain
<1>6. QED
  BY <1>1, <1>4, <1>5, AnswerStep

LEMMA PlainDraftStep ==
    ASSUME IInv, PlainDraft
    PROVE  IInv'
<1> USE DEF opts, exact, draft, loop
<1>1. /\ pc = "plaindraft" /\ mode.draft /\ ~first /\ ~hit_stop /\ Len(emit) = 1 /\ d = <<>>
      /\ ExactFor(seq) /\ cached = T /\ T > 0 /\ T \in Nat /\ T <= Len(seq)
      /\ Whole(dks) => dcached = T - 1 /\ dks = Upto(seq, T - 1)
      /\ nout > 0 => nout < gen
  <2>1. pc = "plaindraft"
    BY DEF PlainDraft
  <2>2. /\ mode.draft /\ ~first /\ ~hit_stop /\ d = <<>> /\ T > 0 /\ (nout > 0 => nout < gen)
    BY <2>1 DEF IInv, Places, Absorbed, Answered
  <2>3. Len(emit) = 1
    BY <2>1 DEF IInv, InHand, Absorbed, Answered
  <2>4. ExactFor(seq) /\ cached = T + Len(emit) - 1
    BY <2>1 DEF IInv, Carried, Absorbed
  <2>5. Whole(dks) => dcached = T - 1 /\ dks = Upto(seq, T - 1)
    BY <2>1, <2>2 DEF IInv, Lockstep
  <2>6. QED
    BY <2>1, <2>2, <2>3, <2>4, <2>5, Numbers
<1>2. /\ pc' = "emit" /\ dks' = Append(dks, seq[T]) /\ dcached' = T
      /\ UNCHANGED <<opts, exact, loop, spec_snap, dsnap, d, file, runs>>
  BY <1>1 DEF PlainDraft, base
<1>3. /\ seq[T] \in Tok /\ seq[T] \in Tok \cup {Torn} /\ T - 1 \in Nat /\ T - 1 < Len(seq)
      /\ (T - 1) + 1 = T /\ seq \in Seq(Tok) /\ dks \in Seq(Tok \cup {Torn})
  BY <1>1, Numbers, ElementOfSeq
<1>4. dks' \in Seq(Tok \cup {Torn})
  BY <1>2, <1>3, AppendProperties
<1>5. Whole(dks') => dks' = Upto(seq, T)
  <2> SUFFICES ASSUME Whole(dks') PROVE dks' = Upto(seq, T)
    OBVIOUS
  <2>1. Whole(dks)
    BY <1>2, <1>3, WholeAppend
  <2> DEFINE c == T - 1
  <2>2. c \in Nat /\ c < Len(seq) /\ c + 1 = T
    BY <1>3
  <2> HIDE DEF c
  <2>3. Append(Upto(seq, c), seq[c + 1]) = Upto(seq, c + 1)
    BY ONLY <1>3, <2>2, OneMore
  <2>4. QED
    BY <1>1, <1>2, <2>1, <2>2, <2>3 DEF c
<1>6. StateTypes'
  BY <1>1, <1>2, <1>4 DEF IInv, StateTypes, TypeOK, kv_cap, Tmax
<1>7. Places'
  BY <1>1, <1>2 DEF IInv, Places, Pending, Answered, Absorbed, hit_stop
<1>8. Carried'
  BY <1>1, <1>2 DEF IInv, Carried, Pending, Absorbed, ExactFor
<1>9. InHand' /\ SavedExact'
  BY <1>1, <1>2 DEF IInv, InHand, SavedExact, Answered, Absorbed
<1>10. Lockstep'
  BY <1>1, <1>2, <1>5 DEF Lockstep
<1>11. QED
  BY <1>6, <1>7, <1>8, <1>9, <1>10 DEF IInv

-----------------------------------------------------------------------------
(* One sweep over the pending token and the draft. *)

(* What the sweep answers, over a text u of which the first T tokens are    *)
(* the text so far and the rest the draft.                                  *)
Judged(u, answers, a) ==
    /\ a \in 0 .. Len(d)
    /\ \A i \in 1 .. a : answers[i] = d[i]
    /\ \A i \in 1 .. Len(d) + 1 : answers[i] = Greedy(Upto(u, T - 1 + i)) /\ answers[i] \in Tok

(* The accepted tokens and the one behind them are those of serial          *)
(* decoding.                                                                *)
GoesInHand(u, e, a) ==
    /\ e \in Seq(Tok) /\ e # <<>> /\ Len(e) = a + 1
    /\ \A i \in 1 .. a : e[i] = d[i]
    /\ \A i \in 1 .. Len(e) : e[i] = Greedy(Upto(u, T) \o Upto(e, i - 1))

LEMMA InHandIs ==
    ASSUME IInv, NEW u, u = Upto(seq, T) \o d, NEW answers, NEW a, Judged(u, answers, a),
           NEW e, e = Upto(d, a) \o <<answers[a + 1]>>
    PROVE  GoesInHand(u, e, a)
<1>1. /\ T \in 0 .. Len(seq) /\ seq \in Seq(Tok) /\ d \in Seq(Tok) /\ Len(d) \in Nat
      /\ T \in Nat
  BY Numbers
<1>2. Placed(Tok, u, seq, T, d)
  BY <1>1, Behind
<1>3. a \in 0 .. Len(d) /\ a \in Nat /\ answers[a + 1] \in Tok
  BY <1>1 DEF Judged
<1> DEFINE o == <<answers[a + 1]>>
<1>4. o \in Seq(Tok) /\ Len(o) = 1 /\ o[1] = answers[a + 1]
  BY <1>3
<1>5. Placed(Tok, e, d, a, o)
  <2> HIDE DEF o
  <2>1. Placed(Tok, Upto(d, a) \o o, d, a, o)
    BY ONLY <1>1, <1>3, <1>4, Behind
  <2>2. QED
    BY <2>1 DEF o
<1> HIDE DEF o
<1>6. /\ e \in Seq(Tok) /\ Len(e) = a + 1 /\ e[a + 1] = answers[a + 1]
      /\ \A i \in 1 .. a : e[i] = d[i]
      /\ \A i \in 0 .. a : Upto(e, i) = Upto(d, i)
  <2>1. 1 \in 1 .. Len(o)
    BY <1>4
  <2>2. QED
    BY <1>4, <1>5, <2>1 DEF Placed
<1>7. ASSUME NEW i \in 1 .. Len(e)
      PROVE  e[i] = Greedy(Upto(u, T) \o Upto(e, i - 1))
  <2>1. i - 1 \in 0 .. a /\ i - 1 \in 0 .. Len(d) /\ i \in 1 .. Len(d) + 1
        /\ (i \in 1 .. a \/ i = a + 1) /\ T - 1 + i = T + (i - 1) /\ T \in 0 .. T
    BY <1>1, <1>3, <1>6
  <2>2. e[i] = answers[i]
    BY <1>6, <2>1 DEF Judged
  <2>3. answers[i] = Greedy(Upto(u, T + (i - 1)))
    BY <2>1 DEF Judged
  <2>4. Upto(u, T + (i - 1)) = Upto(seq, T) \o Upto(d, i - 1) /\ Upto(u, T) = Upto(seq, T)
    BY <1>2, <2>1 DEF Placed
  <2>5. Upto(e, i - 1) = Upto(d, i - 1)
    BY <1>6, <2>1
  <2>6. QED
    BY <2>2, <2>3, <2>4, <2>5
<1>8. e # <<>>
  BY <1>3, <1>6
<1>9. QED
  BY <1>6, <1>7, <1>8 DEF GoesInHand

(* The sweep feeds the exact model the pending token and the draft.         *)
SweptOver(u, fed, rows) ==
    /\ u \in Seq(Tok) /\ Len(u) = T + Len(d)
    /\ \A i \in 1 .. T : u[i] = seq[i]
    /\ \A i \in 1 .. Len(d) : u[T + i] = d[i]
    /\ \A i \in 0 .. T : Upto(u, i) = Upto(seq, i)
    /\ ExactFor(u)
    /\ FeedsUp(u, T + Len(d), fed, rows)

LEMMA Sweeps ==
    ASSUME IInv, ExactFor(seq), cached = T - 1, T > 0,
           NEW u, u = Upto(seq, T) \o d, NEW fed, fed = <<seq[T]>> \o d,
           NEW rows, rows = RowsWith(ks, cached, fed)
    PROVE  SweptOver(u, fed, rows)
<1>1. /\ T \in 0 .. Len(seq) /\ T \in 1 .. Len(seq) /\ seq \in Seq(Tok) /\ d \in Seq(Tok)
      /\ Len(d) \in Nat /\ T \in Nat /\ cached \in Nat
  <2>1. /\ T \in Nat /\ Len(seq) \in Nat /\ T <= Len(seq) /\ seq \in Seq(Tok) /\ d \in Seq(Tok)
        /\ Len(d) \in Nat /\ cached \in Nat
    BY Numbers
  <2>2. QED
    BY ONLY <2>1, T > 0
<1>2. Placed(Tok, u, seq, T, d)
  BY <1>1, Behind
<1>3. /\ u \in Seq(Tok) /\ Len(u) = T + Len(d)
      /\ \A i \in 1 .. T : u[i] = seq[i]
      /\ \A i \in 1 .. Len(d) : u[T + i] = d[i]
      /\ \A i \in 0 .. T : Upto(u, i) = Upto(seq, i)
  BY <1>2 DEF Placed
<1>4. ExactFor(u)
  <2>1. cached <= Len(u) /\ \A i \in 1 .. cached : seq[i] = u[i]
    BY <1>1, <1>3
  <2>2. QED
    BY ONLY <1>1, <1>3, <2>1, ExactTransfers, ExactFor(seq)
<1>5. fed = SubSeq(u, T, T + Len(d))
  <2>1. Swath(seq, T, d)
    BY ONLY <1>1, PendingAndDraft
  <2>2. QED
    BY <2>1 DEF Swath
<1> DEFINE n == T + Len(d)
<1>6. n \in cached .. Len(u) /\ fed = SubSeq(u, cached + 1, n)
  <2>1. /\ cached = T - 1 /\ T \in Nat /\ cached \in Nat /\ Len(d) \in Nat /\ Len(u) = T + Len(d)
    BY <1>1, <1>3
  <2>2. n \in cached .. Len(u) /\ cached + 1 = T
    BY ONLY <2>1
  <2>3. QED
    BY ONLY <1>5, <2>2
<1>7. StateTypes
  BY DEF IInv
<1> HIDE DEF n
<1>8. FeedsUp(u, n, fed, rows)
  BY ONLY <1>3, <1>4, <1>6, <1>7, Feeds, rows = RowsWith(ks, cached, fed)
<1>9. QED
  BY <1>3, <1>4, <1>8 DEF SweptOver, n

LEMMA VerifyStep ==
    ASSUME IInv, Answering, Verify
    PROVE  IInv'
<1> USE DEF opts, draft
<1>1. /\ pc = "verify" /\ ~first /\ ~hit_stop /\ nout > 0 /\ nout < gen /\ T > 0
      /\ cached = T - 1 /\ ExactFor(seq) /\ mode.spec > 0 /\ nout + mode.spec < gen
      /\ Len(d) <= mode.spec /\ d # <<>>
  <2>1. pc = "verify"
    BY DEF Verify
  <2>2. /\ ~first /\ ~hit_stop /\ (first <=> nout = 0) /\ (nout > 0 => nout < gen) /\ T > 0
        /\ mode.spec > 0 /\ nout + mode.spec < gen /\ Len(d) <= mode.spec /\ d # <<>>
    BY <2>1 DEF IInv, Places, Pending
  <2>3. cached = T - 1 /\ ExactFor(seq)
    BY <2>1 DEF IInv, Carried, Pending
  <2>4. nout \in Nat
    BY Numbers
  <2>5. QED
    BY <2>1, <2>2, <2>3, <2>4
<1>2. /\ seq \in Seq(Tok) /\ d \in Seq(Tok) /\ Len(d) \in Nat /\ Len(seq) \in Nat /\ T \in Nat
      /\ T <= Len(seq) /\ ks \in Seq(Tok) /\ kvc \in Seq(Seq(Tok)) /\ cached \in Nat
      /\ nout \in Nat /\ gen \in Nat /\ mode.spec \in Nat /\ mode.draft \in BOOLEAN
      /\ Len(kvc) \in Nat /\ cached <= Len(kvc) /\ Len(kvc) <= T - nout + gen + 1
  BY Numbers
<1> DEFINE u == Upto(seq, T) \o d
           fed == <<seq[T]>> \o d
           rows == RowsWith(ks, cached, fed)
<1>3. PICK answers \in Answers(fed) :
         /\ emit' = Upto(d, Accepted(answers)) \o <<answers[Accepted(answers) + 1]>>
         /\ kvc' = rows
         /\ IF Accepted(answers) = Len(d)
            THEN /\ ks' = ks \o fed /\ cached' = base + nd + 1
                 /\ pc' = IF mode.draft THEN "resync" ELSE "emit"
            ELSE /\ ks' = Restored(ks \o fed) /\ cached' = base
                 /\ pc' = "replay"
  <2>1. base + 1 = T
    BY <1>1, <1>2 DEF base
  <2>2. QED
    BY <2>1 DEF Verify, base, nd
<1>4. /\ seq' = u /\ spec_snap' = ks
      /\ UNCHANGED <<opts, draft, T, nout, first, dsnap, d, file, runs>>
  BY DEF Verify
<1> DEFINE a == Accepted(answers)
<1>5. /\ a \in 0 .. Len(d) /\ \A i \in 1 .. a : answers[i] = d[i]
  <2> DEFINE K == {k \in 0 .. Len(d) : \A i \in 1 .. k : answers[i] = d[i]}
  <2>1. K \subseteq 0 .. Len(d) /\ 0 \in K /\ Len(d) \in Int /\ a = Max(K)
    <3>1. Len(d) \in Int /\ 0 \in 0 .. Len(d)
      BY <1>2
    <3>2. 0 \in K
      BY <3>1
    <3>3. a = Max(K)
      BY DEF Accepted, nd
    <3>4. QED
      BY <3>1, <3>2, <3>3
  <2>2. K # {}
    BY <2>1
  <2>3. Max(K) \in K
    <3> HIDE DEF K
    <3>1. QED
      BY ONLY <2>1, <2>2, InInterval
  <2>4. QED
    BY <2>1, <2>3
<1>6. SweptOver(u, fed, rows)
  BY ONLY <1>1, Sweeps, IInv
<1>7. /\ emit' = Upto(d, a) \o <<answers[a + 1]>> /\ kvc' = rows
      /\ a = Len(d) => /\ ks' = ks \o fed /\ cached' = T + Len(d)
                       /\ pc' = IF mode.draft THEN "resync" ELSE "emit"
      /\ a # Len(d) => ks' = ks /\ cached' = T - 1 /\ pc' = "replay"
  <2> HIDE DEF u, fed, rows
  <2>1. emit' = Upto(d, a) \o <<answers[a + 1]>> /\ kvc' = rows
    BY <1>3
  <2>2. CASE a = Len(d)
    <3>1. /\ ks' = ks \o fed /\ cached' = base + nd + 1
          /\ pc' = IF mode.draft THEN "resync" ELSE "emit"
      BY <1>3, <2>2
    <3>2. base + nd + 1 = T + Len(d)
      BY <1>1, <1>2 DEF base, nd
    <3>3. QED
      BY <2>1, <2>2, <3>1, <3>2
  <2>3. CASE a # Len(d)
    <3>1. ks' = spec_snap' /\ cached' = base /\ pc' = "replay"
      BY <1>3, <2>3 DEF Restored
    <3>2. QED
      BY <1>1, <1>4, <2>1, <2>3, <3>1 DEF base
  <2>4. QED
    BY <2>2, <2>3
<1> HIDE DEF u, fed, rows, a
<1>8. /\ u \in Seq(Tok) /\ Len(u) = T + Len(d)
      /\ \A i \in 1 .. T : u[i] = seq[i]
      /\ \A i \in 1 .. Len(d) : u[T + i] = d[i]
      /\ \A i \in 0 .. T : Upto(u, i) = Upto(seq, i)
      /\ ExactFor(u)
  BY <1>6 DEF SweptOver
<1> DEFINE n == T + Len(d)
<1>9. /\ ks \o fed = Upto(u, n) /\ rows \in Seq(Seq(Tok)) /\ n <= Len(rows)
      /\ Len(rows) = n \/ Len(rows) = Len(kvc)
      /\ \A i \in 1 .. n : rows[i] = Upto(u, i)
      /\ \A i \in 1 .. n - cached : answers[i] = Greedy(Upto(u, cached + i))
  BY <1>6 DEF SweptOver, FeedsUp
<1>10. Judged(u, answers, a)
  <2>1. ASSUME NEW i \in 1 .. Len(d) + 1
        PROVE  answers[i] = Greedy(Upto(u, T - 1 + i)) /\ answers[i] \in Tok
    <3>1. i \in 1 .. n - cached /\ cached + i = T - 1 + i /\ T - 1 + i \in 0 .. Len(u)
      <4>1. T \in Nat /\ T > 0 /\ Len(d) \in Nat /\ cached = T - 1 /\ Len(u) = T + Len(d)
        BY <1>1, <1>2, <1>8
      <4>2. QED
        BY ONLY <4>1, i \in 1 .. Len(d) + 1
    <3>2. Upto(u, T - 1 + i) \in Seq(Tok)
      BY <1>8, <3>1, UptoIs
    <3>3. QED
      BY <1>9, <3>1, <3>2 DEF Answering
  <2>2. QED
    BY <1>5, <2>1 DEF Judged
<1>11. GoesInHand(u, emit', a)
  <2>1. u = Upto(seq, T) \o d
    BY DEF u
  <2>2. QED
    BY ONLY <1>7, <1>10, <2>1, InHandIs, IInv
<1>12. /\ emit' \in Seq(Tok) /\ emit' # <<>> /\ Len(emit') = a + 1
       /\ \A i \in 1 .. a : emit'[i] = d[i]
       /\ \A i \in 1 .. Len(emit') : emit'[i] = Greedy(Upto(u, T) \o Upto(emit', i - 1))
  BY <1>11 DEF GoesInHand
<1>13. /\ pc' \in {"resync", "emit", "replay"} /\ (pc' = "resync" => mode.draft)
       /\ pc' = "emit" => ~mode.draft
  BY <1>7
<1>14. T \in 1 .. T /\ T \in 0 .. T /\ T - 1 \in 0 .. T
  BY <1>1, <1>2
<1>15. hit_stop' = hit_stop
  <2>1. seq'[T] = seq[T]
    BY <1>4, <1>8, <1>14
  <2>2. QED
    BY <1>4, <2>1 DEF hit_stop
<1>16. StateTypes'
  <2>1. ks' \in Seq(Tok)
    <3>1. n \in 0 .. Len(u)
      BY <1>2, <1>8
    <3>2. Upto(u, n) \in Seq(Tok)
      BY <1>8, <3>1, UptoIs
    <3>3. QED
      BY <1>2, <1>7, <1>9, <3>2
  <2>2. cached' \in 0 .. Len(kvc') /\ Len(kvc') <= T - nout + gen + 1
    <3>1. Len(rows) \in Nat
      BY <1>9, LenProperties
    <3>2. n \in Nat /\ n <= T - nout + gen + 1 /\ cached' \in Nat /\ cached' <= n
      <4> DEFINE k == mode.spec
      <4>1. /\ T \in Nat /\ T > 0 /\ Len(d) \in Nat /\ nout \in Nat /\ gen \in Nat /\ k \in Nat
            /\ nout + k < gen /\ Len(d) <= k
        BY <1>1, <1>2
      <4>2. cached' = n \/ cached' = T - 1
        BY <1>7
      <4> HIDE DEF k
      <4>3. n \in Nat /\ n <= T - nout + gen + 1
        BY ONLY <4>1
      <4>4. cached' \in Nat /\ cached' <= n
        BY ONLY <4>1, <4>2
      <4>5. QED
        BY <4>3, <4>4
    <3>3. Len(rows) <= T - nout + gen + 1 /\ cached' <= Len(rows)
      <4>1. /\ T \in Nat /\ nout \in Nat /\ gen \in Nat /\ Len(kvc) \in Nat
            /\ Len(kvc) <= T - nout + gen + 1 /\ n <= Len(rows)
            /\ Len(rows) = n \/ Len(rows) = Len(kvc)
        BY <1>2, <1>9
      <4> HIDE DEF n
      <4>2. QED
        BY ONLY <3>1, <3>2, <4>1
    <3>4. QED
      BY <1>7, <3>1, <3>2, <3>3
  <2>3. T \in 0 .. Len(u) /\ Len(u) <= T - nout + gen + 8
    <3> DEFINE k == mode.spec
    <3>1. /\ T \in Nat /\ Len(d) \in Nat /\ nout \in Nat /\ gen \in Nat /\ k \in Nat
          /\ nout + k < gen /\ Len(d) <= k /\ Len(u) = T + Len(d)
      BY <1>1, <1>2, <1>8
    <3> HIDE DEF k
    <3>2. QED
      BY ONLY <3>1
  <2>4. QED
    BY <1>2, <1>4, <1>7, <1>8, <1>9, <1>12, <1>13, <2>1, <2>2, <2>3
       DEF IInv, StateTypes, TypeOK, kv_cap, Tmax
<1>17. Places'
  BY <1>1, <1>4, <1>13, <1>15 DEF Places, Pending, Answered, Absorbed
<1>18. Carried'
  <2>1. CASE a = Len(d)
    <3>1. cached' = n /\ n = T + Len(emit') - 1 /\ n <= Len(u) /\ pc' \in {"resync", "emit"}
          /\ ks' = Upto(u, n)
      <4>1. /\ T \in Nat /\ Len(d) \in Nat /\ Len(u) = T + Len(d) /\ Len(emit') = Len(d) + 1
        BY <1>2, <1>8, <1>12, <2>1
      <4>2. n = T + Len(emit') - 1 /\ n <= Len(u)
        BY ONLY <4>1
      <4>3. cached' = n /\ pc' \in {"resync", "emit"} /\ ks' = Upto(u, n)
        BY <1>7, <1>9, <2>1
      <4>4. QED
        BY <4>2, <4>3
    <3>2. ExactFor(seq)'
      BY <1>4, <1>7, <1>9, <3>1 DEF ExactFor
    <3>3. QED
      BY <1>4, <3>1, <3>2 DEF Carried, Pending, Absorbed
  <2>2. CASE a # Len(d)
    <3>1. cached' = T - 1 /\ cached' = cached /\ ks' = ks /\ pc' = "replay"
      BY <1>1, <1>7, <2>2
    <3>2. /\ cached <= Len(u) /\ ks = Upto(u, cached)
          /\ \A i \in 1 .. cached : i \in 1 .. n
      BY <1>1, <1>2, <1>8 DEF ExactFor
    <3>3. ExactFor(seq)'
      BY <1>4, <1>7, <1>9, <3>1, <3>2 DEF ExactFor
    <3>4. QED
      BY <1>4, <3>1, <3>3 DEF Carried, Pending, Absorbed
  <2>3. QED
    BY <2>1, <2>2
<1>19. InHand'
  <2>1. /\ nout + Len(emit') <= gen /\ T + Len(emit') - 1 <= Len(u)
        /\ Len(emit') - 1 = a /\ a <= Len(d)
    <3> DEFINE k == mode.spec
    <3>1. /\ T \in Nat /\ Len(d) \in Nat /\ nout \in Nat /\ gen \in Nat /\ k \in Nat
          /\ nout + k < gen /\ Len(d) <= k /\ Len(u) = T + Len(d)
          /\ a \in 0 .. Len(d) /\ Len(emit') = a + 1
      BY <1>1, <1>2, <1>5, <1>8, <1>12
    <3> HIDE DEF k
    <3>2. QED
      BY ONLY <3>1
  <2>2. \A i \in 1 .. Len(emit') - 1 : u[T + i] = emit'[i]
    <3>1. \A i \in 1 .. a : i \in 1 .. Len(d)
      BY <1>2, <1>5
    <3>2. QED
      BY <1>8, <1>12, <2>1, <3>1
  <2>3. QED
    BY <1>1, <1>4, <1>8, <1>12, <1>13, <2>1, <2>2 DEF InHand
<1>20. SavedExact'
  BY <1>4 DEF IInv, SavedExact
<1>21. Lockstep'
  <2>1. Upto(seq', T') = Upto(seq, T) /\ Upto(seq', T' - 1) = Upto(seq, T - 1)
    BY <1>4, <1>8, <1>14
  <2>2. mode.draft => /\ Whole(dks) => dcached = T - 1 + Len(d) /\ dks = Upto(Swept, T - 1 + Len(d))
                      /\ Whole(dsnap) => dsnap = Upto(seq, T - 1)
    BY <1>1 DEF IInv, Lockstep
  <2>3. QED
    BY <1>4, <1>13, <2>1, <2>2 DEF Lockstep, Swept, Whole
<1>22. QED
  BY <1>16, <1>17, <1>18, <1>19, <1>20, <1>21 DEF IInv

LEMMA ReplayStep ==
    ASSUME IInv, Replay
    PROVE  IInv'
<1> USE DEF opts, draft, loop
<1>1. /\ pc = "replay" /\ ~first /\ ~hit_stop /\ nout > 0 /\ nout < gen /\ T > 0
      /\ cached = T - 1 /\ ExactFor(seq)
  <2>1. pc = "replay"
    BY DEF Replay
  <2>2. /\ ~hit_stop /\ ~first /\ (first <=> nout = 0) /\ (nout > 0 => nout < gen) /\ T > 0
    BY <2>1 DEF IInv, Places, Pending
  <2>3. cached = T - 1 /\ ExactFor(seq)
    BY <2>1 DEF IInv, Carried, Pending
  <2>4. nout \in Nat
    BY Numbers
  <2>5. QED
    BY <2>1, <2>2, <2>3, <2>4
<1>2. /\ seq \in Seq(Tok) /\ emit \in Seq(Tok) /\ Len(emit) \in Nat /\ Len(seq) \in Nat
      /\ T \in Nat /\ T <= Len(seq) /\ cached \in Nat /\ nout \in Nat /\ gen \in Nat
      /\ mode.draft \in BOOLEAN /\ Len(kvc) \in Nat /\ Len(kvc) <= T - nout + gen + 1
  BY Numbers
<1>3. /\ emit # <<>> /\ (Len(emit) = 1 \/ nout + Len(emit) <= gen)
      /\ T + Len(emit) - 1 <= Len(seq)
  BY <1>1 DEF IInv, InHand, Answered
<1>4. Len(emit) > 0
  BY <1>2, <1>3, EmptySeq
<1> DEFINE n == T + Len(emit) - 1
           fed == Fed(m + 1)
           rows == RowsWith(ks, cached, fed)
<1>5. n \in cached .. Len(seq) /\ fed = SubSeq(seq, cached + 1, n) /\ cached + m + 1 = n
  BY <1>1, <1>2, <1>3, <1>4 DEF Fed, base, m
<1>6. /\ ks' = ks \o fed /\ kvc' = rows /\ cached' = n
      /\ pc' = IF mode.draft THEN "resync" ELSE "emit"
      /\ UNCHANGED <<opts, draft, loop, spec_snap, dsnap, d, file, runs>>
  BY <1>5 DEF Replay, Absorbs, base
<1>7. FeedsUp(seq, n, fed, rows)
  <2>1. StateTypes
    BY DEF IInv
  <2> HIDE DEF n, fed
  <2>2. QED
    BY ONLY <1>1, <1>2, <1>5, <2>1, Feeds
<1> HIDE DEF fed, rows
<1>8. /\ ks' = Upto(seq, n) /\ kvc' \in Seq(Seq(Tok)) /\ n <= Len(kvc')
      /\ Len(kvc') = n \/ Len(kvc') = Len(kvc)
      /\ \A i \in 1 .. n : kvc'[i] = Upto(seq, i)
  BY <1>6, <1>7 DEF FeedsUp
<1>9. StateTypes'
  <2>1. ks' \in Seq(Tok)
    <3>1. n \in 0 .. Len(seq)
      BY <1>2, <1>3, <1>5
    <3>2. QED
      BY <1>2, <1>8, <3>1, UptoIs
  <2>2. Len(kvc') <= T - nout + gen + 1 /\ cached' \in 0 .. Len(kvc')
    <3>1. Len(kvc') \in Nat
      BY <1>8, LenProperties
    <3>2. n \in Nat /\ n <= T - nout + gen + 1
      <4>1. T \in Nat /\ T > 0 /\ Len(emit) \in Nat /\ Len(emit) > 0 /\ nout \in Nat /\ gen \in Nat
        BY <1>1, <1>2, <1>4
      <4>2. CASE Len(emit) = 1
        <5>1. nout < gen
          BY <1>1
        <5>2. QED
          BY ONLY <4>1, <4>2, <5>1
      <4>3. CASE nout + Len(emit) <= gen
        BY ONLY <4>1, <4>3
      <4>4. QED
        BY <1>3, <4>2, <4>3
    <3>3. Len(kvc') <= T - nout + gen + 1 /\ n <= Len(kvc')
      BY <1>2, <1>8, <3>1, <3>2
    <3>4. QED
      BY <1>6, <3>1, <3>2, <3>3
  <2>3. pc' \in {"resync", "emit"}
    BY <1>6
  <2>4. QED
    BY <1>6, <1>8, <2>1, <2>2, <2>3 DEF IInv, StateTypes, TypeOK, kv_cap, Tmax
<1>10. Places'
  BY <1>1, <1>2, <1>6 DEF Places, Pending, Answered, Absorbed, hit_stop
<1>11. Carried'
  <2>1. ExactFor(seq)' /\ cached' = (T + Len(emit) - 1)'
    <3>1. n <= Len(seq)
      BY <1>2, <1>5
    <3>2. seq' = seq /\ T' = T /\ emit' = emit /\ cached' = n
      BY <1>6
    <3>3. ExactFor(seq)'
      BY <1>8, <3>1, <3>2 DEF ExactFor
    <3>4. QED
      BY <3>2, <3>3
  <2>2. QED
    BY <1>6, <2>1 DEF Carried, Pending, Absorbed
<1>12. InHand' /\ SavedExact'
  BY <1>1, <1>6 DEF IInv, InHand, SavedExact, Answered, Absorbed
<1>13. Lockstep'
  BY <1>1, <1>6 DEF IInv, Lockstep, Swept, Whole
<1>14. QED
  BY <1>9, <1>10, <1>11, <1>12, <1>13 DEF IInv

LEMMA ResyncStep ==
    ASSUME IInv, Resync
    PROVE  IInv'
<1> USE DEF opts, exact, loop
<1> DEFINE TT == Tok \cup {Torn}
<1>1. /\ pc = "resync" /\ ~first /\ ~hit_stop /\ nout < gen /\ T > 0 /\ mode.draft
  <2>1. pc = "resync"
    BY DEF Resync
  <2>2. QED
    BY <2>1, Numbers DEF IInv, Places, Absorbed, Answered
<1>2. /\ seq \in Seq(Tok) /\ emit \in Seq(Tok) /\ Len(emit) \in Nat /\ Len(seq) \in Nat
      /\ T \in Nat /\ T <= Len(seq) /\ cached \in Nat /\ d \in Seq(Tok) /\ Len(d) \in Nat
      /\ dks \in Seq(TT) /\ dsnap \in Seq(TT) /\ dcached \in Nat
  BY Numbers
<1>3. cached = T + Len(emit) - 1 /\ ExactFor(seq)
  BY <1>1 DEF IInv, Carried, Absorbed
<1>4. /\ emit # <<>> /\ Len(seq) = T + Len(d) /\ d # <<>> /\ Len(emit) - 1 <= Len(d)
      /\ \A i \in 1 .. Len(d) : seq[T + i] = d[i]
  BY <1>1 DEF IInv, InHand, Answered, Absorbed
<1>5. /\ Whole(dks) => dcached = T - 1 + Len(d) /\ dks = Upto(Swept, T - 1 + Len(d))
      /\ Whole(dsnap) => dsnap = Upto(seq, T - 1)
  BY <1>1 DEF IInv, Lockstep
<1>6. Len(emit) > 0 /\ Len(d) > 0
  BY <1>2, <1>4, EmptySeq
<1>7. Swept = seq
  <2> DEFINE s == Upto(seq, T)
  <2>1. T \in 0 .. Len(seq)
    BY <1>2
  <2>2. s \in Seq(Tok) /\ Len(s) = T /\ \A i \in 1 .. T : s[i] = seq[i]
    BY <1>2, <2>1, UptoIs
  <2> HIDE DEF s
  <2>3. /\ Len(seq) = Len(s) + Len(d) /\ \A i \in 1 .. Len(s) : seq[i] = s[i]
        /\ \A i \in 1 .. Len(d) : seq[Len(s) + i] = d[i]
    BY <1>4, <2>2
  <2>4. s \o d = seq
    BY ONLY <1>2, <2>2, <2>3, Glued
  <2>5. QED
    BY <2>4 DEF Swept, s
<1>8. /\ pc' = "emit"
      /\ IF m = nd
         THEN dks' = Append(dks, d[nd]) /\ dcached' = dcached + 1
         ELSE dks' = dsnap \o SubSeq(seq, base - m, base) /\ dcached' = base
      /\ UNCHANGED <<opts, exact, loop, spec_snap, dsnap, d, file, runs>>
  BY DEF Resync, Rewound
<1>9. /\ dks' \in Seq(TT) /\ dcached' \in Nat
      /\ Whole(dks') => dcached' = cached /\ dks' = Upto(seq, cached)
  <2>1. CASE m = nd
    <3>1. /\ dks' = Append(dks, d[Len(d)]) /\ dcached' = dcached + 1
          /\ Len(emit) - 1 = Len(d)
      BY <1>8, <2>1 DEF m, nd
    <3> DEFINE c == T - 1 + Len(d)
    <3>2. /\ c \in Nat /\ c < Len(seq) /\ c + 1 = cached /\ Len(d) \in 1 .. Len(d)
          /\ c + 1 = T + Len(d)
      <4>1. /\ T \in Nat /\ T > 0 /\ Len(d) \in Nat /\ Len(d) > 0 /\ Len(seq) = T + Len(d)
            /\ Len(emit) \in Nat /\ cached = T + Len(emit) - 1 /\ Len(emit) - 1 = Len(d)
        BY <1>1, <1>2, <1>3, <1>4, <1>6, <3>1
      <4>2. QED
        BY ONLY <4>1
    <3>3. seq[c + 1] = d[Len(d)] /\ d[Len(d)] \in Tok /\ d[Len(d)] \in TT
      BY <1>2, <1>4, <3>2, ElementOfSeq
    <3> HIDE DEF c, TT
    <3>4. dks' \in Seq(TT)
      BY <1>2, <3>1, <3>3, AppendProperties
    <3>5. ASSUME Whole(dks') PROVE dcached' = cached /\ dks' = Upto(seq, cached)
      <4>1. Whole(dks)
        BY <1>2, <3>1, <3>3, <3>5, WholeAppend DEF TT
      <4>2. dcached = c /\ dks = Upto(seq, c)
        BY <1>5, <1>7, <4>1 DEF c
      <4>3. Append(Upto(seq, c), seq[c + 1]) = Upto(seq, c + 1)
        BY ONLY <1>2, <3>2, OneMore
      <4>4. QED
        BY <3>1, <3>2, <3>3, <4>2, <4>3
    <3>6. dcached' \in Nat
      BY <1>2, <3>1
    <3>7. QED
      BY <3>4, <3>5, <3>6
  <2>2. CASE m # nd
    <3> DEFINE c == T - 1
               r == SubSeq(seq, c + 1, cached)
    <3>1. /\ c \in 0 .. Len(seq) /\ cached \in c .. Len(seq) /\ base - m = c + 1 /\ base = cached
      BY <1>1, <1>2, <1>3, <1>4, <1>6 DEF base, m
    <3>2. dks' = dsnap \o r /\ dcached' = cached
      BY <1>8, <2>2, <3>1
    <3> HIDE DEF c
    <3>3. r \in Seq(Tok) /\ Upto(seq, c) \o r = Upto(seq, cached)
      <4>1. Continued(Tok, SubSeq(seq, c + 1, cached), seq, c, cached)
        BY ONLY <1>2, <3>1, Longer
      <4>2. QED
        BY <4>1 DEF Continued
    <3> HIDE DEF r, TT
    <3>4. r \in Seq(TT)
      BY <3>3, SeqMonotonic DEF TT
    <3>5. dks' \in Seq(TT)
      BY <1>2, <3>2, <3>4, Joined
    <3>6. ASSUME Whole(dks') PROVE dks' = Upto(seq, cached)
      <4>1. Whole(dsnap)
        BY <1>2, <3>2, <3>4, <3>6, WholeJoined DEF TT
      <4>2. dsnap = Upto(seq, c)
        BY <1>5, <4>1 DEF c
      <4>3. QED
        BY <3>2, <3>3, <4>2
    <3>7. QED
      BY <1>2, <3>2, <3>5, <3>6
  <2>3. QED
    BY <2>1, <2>2
<1>10. StateTypes'
  BY <1>1, <1>8, <1>9 DEF IInv, StateTypes, TypeOK, kv_cap, Tmax
<1>11. Places'
  BY <1>1, <1>8 DEF IInv, Places, Pending, Answered, Absorbed, hit_stop
<1>12. Carried'
  BY <1>1, <1>3, <1>8 DEF Carried, Pending, Absorbed, ExactFor
<1>13. InHand' /\ SavedExact'
  BY <1>1, <1>8 DEF IInv, InHand, SavedExact, Answered, Absorbed
<1>14. Lockstep'
  BY <1>8, <1>9 DEF Lockstep
<1>15. QED
  BY <1>10, <1>11, <1>12, <1>13, <1>14 DEF IInv

-----------------------------------------------------------------------------
(* Tokens leave. *)

(* How many: none only when none are asked for; otherwise all in hand, as   *)
(* far as the budget goes, up to and with the first stop id.                *)
TakenIs(k) ==
    /\ k \in 0 .. Len(emit) /\ k <= gen - nout
    /\ k = 0 => gen = 0 /\ nout = 0 /\ Len(emit) = 1
    /\ \A i \in 1 .. k - 1 : emit[i] \notin mode.stops
    /\ k = Len(emit) \/ k = 0 \/ (k > 0 /\ mode.spec > 0 /\ emit[k] \in mode.stops)

LEMMA TakenRight ==
    ASSUME IInv, pc = "emit"
    PROVE  TakenIs(Taken)
<1>1. /\ emit \in Seq(Tok) /\ Len(emit) \in Nat /\ nout \in Nat /\ gen \in Nat /\ nout <= gen
  BY Numbers
<1>2. /\ emit # <<>>
      /\ nout > 0 => nout < gen
      /\ Len(emit) = 1 \/ (nout > 0 /\ nout + Len(emit) <= gen /\ mode.spec > 0)
  BY DEF IInv, Places, InHand, Answered, Absorbed
<1>3. Len(emit) > 0
  BY <1>1, <1>2, EmptySeq
<1> DEFINE M == {Len(emit), gen - nout} \cup {i \in 1 .. Len(emit) : emit[i] \in mode.stops}
           k == Taken
<1>4. k = Min(M)
  BY DEF Taken
<1>5. /\ M # {} /\ IsFiniteSet(M) /\ \A x \in M : x \in Int
  <2> DEFINE top == Len(emit) + gen
  <2>1. M \subseteq 0 .. top /\ top \in Int
    BY <1>1
  <2> HIDE DEF top
  <2>2. IsFiniteSet(0 .. top)
    BY <2>1, FS_Interval
  <2>3. IsFiniteSet(M)
    BY <2>1, <2>2, FS_Subset
  <2>4. QED
    BY <2>1, <2>3
<1>6. k \in M /\ \A y \in M : k <= y
  <2> HIDE DEF M
  <2>1. Min(M) \in M /\ \A y \in M : Min(M) =< y
    BY ONLY <1>5, MinExists
  <2>2. QED
    BY <1>4, <2>1
<1> HIDE DEF k
<1>7. /\ k \in Int /\ k <= Len(emit) /\ k <= gen - nout
      /\ \A i \in 1 .. Len(emit) : emit[i] \in mode.stops => k <= i
      /\ k = Len(emit) \/ k = gen - nout \/ (k \in 1 .. Len(emit) /\ emit[k] \in mode.stops)
  BY <1>5, <1>6
<1>8. k \in 0 .. Len(emit)
  BY <1>1, <1>7
<1>9. \A i \in 1 .. k - 1 : emit[i] \notin mode.stops
  <2>1. ASSUME NEW i \in 1 .. k - 1 PROVE emit[i] \notin mode.stops
    <3>1. i \in 1 .. Len(emit) /\ ~ (k <= i)
      BY <1>1, <1>7
    <3>2. QED
      BY <1>7, <3>1
  <2>2. QED
    BY <2>1
<1>10. k = 0 => gen = 0 /\ nout = 0 /\ Len(emit) = 1
  BY <1>1, <1>2, <1>3, <1>7
<1>11. k = Len(emit) \/ k = 0 \/ (k > 0 /\ mode.spec > 0 /\ emit[k] \in mode.stops)
  <2>1. CASE Len(emit) = 1
    BY <1>8, <2>1
  <2>2. CASE nout > 0 /\ nout + Len(emit) <= gen /\ mode.spec > 0
    BY <1>1, <1>7, <2>2
  <2>3. QED
    BY <1>2, <2>1, <2>2
<1>12. QED
  BY <1>7, <1>8, <1>9, <1>10, <1>11 DEF TakenIs, k

(* The text with the first k tokens in hand behind it. *)
Emitted(u, k) ==
    /\ u \in Seq(Tok) /\ Len(u) = T + k
    /\ \A i \in 1 .. T : u[i] = seq[i]
    /\ \A i \in 1 .. k : u[T + i] = emit[i]
    /\ Upto(u, T) = Upto(seq, T)
    /\ \A i \in 1 .. k : u[T + i] = Greedy(Upto(u, T + i - 1))

LEMMA EmittedRight ==
    ASSUME IInv, pc = "emit", NEW k \in 0 .. Len(emit), NEW u, u = Upto(seq, T) \o Upto(emit, k)
    PROVE  Emitted(u, k)
<1>1. /\ T \in 0 .. Len(seq) /\ T \in Nat /\ T \in 0 .. T /\ seq \in Seq(Tok) /\ emit \in Seq(Tok)
      /\ Len(emit) \in Nat /\ k \in Nat
  BY Numbers
<1> DEFINE t == Upto(emit, k)
<1>2. t \in Seq(Tok) /\ Len(t) = k /\ \A i \in 1 .. k : t[i] = emit[i]
  BY <1>1, UptoIs
<1> HIDE DEF t
<1>3. Placed(Tok, Upto(seq, T) \o t, seq, T, t)
  BY ONLY <1>1, <1>2, Behind
<1>4. Placed(Tok, u, seq, T, t)
  BY <1>3 DEF t
<1>5. /\ u \in Seq(Tok) /\ Len(u) = T + k
      /\ \A i \in 1 .. T : u[i] = seq[i]
      /\ \A i \in 1 .. k : u[T + i] = t[i]
      /\ Upto(u, T) = Upto(seq, T)
      /\ \A i \in 0 .. k : Upto(u, T + i) = Upto(seq, T) \o Upto(t, i)
  BY <1>1, <1>2, <1>4 DEF Placed
<1>6. ASSUME NEW i \in 1 .. k PROVE u[T + i] = emit[i] /\ u[T + i] = Greedy(Upto(u, T + i - 1))
  <2>1. i - 1 \in 0 .. k /\ T + (i - 1) = T + i - 1 /\ i \in 1 .. Len(emit)
    BY <1>1
  <2>2. u[T + i] = emit[i]
    BY <1>2, <1>5
  <2>3. emit[i] = Greedy(Upto(seq, T) \o Upto(emit, i - 1))
    BY <2>1 DEF IInv, InHand, Answered, Absorbed
  <2>4. Upto(t, i - 1) = Upto(emit, i - 1)
    <3>1. k \in 0 .. Len(emit)
      OBVIOUS
    <3>2. Upto(Upto(emit, k), i - 1) = Upto(emit, i - 1)
      BY ONLY <1>1, <2>1, <3>1, UptoUpto
    <3>3. QED
      BY <3>2 DEF t
  <2>5. Upto(u, T + (i - 1)) = Upto(seq, T) \o Upto(t, i - 1)
    BY <1>5, <2>1
  <2>6. QED
    BY <2>1, <2>2, <2>3, <2>4, <2>5
<1>7. QED
  BY <1>5, <1>6 DEF Emitted

(* What Emit does, in these terms. *)
EmitsAs(k) ==
    /\ TakenIs(k) /\ Emitted(seq', k)
    /\ T' = T + k /\ nout' = nout + k /\ first' = FALSE /\ emit' = <<>> /\ d' = <<>> /\ pc' = "top"
    /\ hit_stop' <=> (k > 0 /\ emit[k] \in mode.stops)
    /\ UNCHANGED <<opts, exact, draft, spec_snap, dsnap, file, runs>>

LEMMA EmitIs ==
    ASSUME IInv, Emit
    PROVE  \E k \in 0 .. Len(emit) : EmitsAs(k)
<1> DEFINE k == Taken
<1>1. /\ pc = "emit" /\ seq' = Upto(seq, T) \o Upto(emit, k)
      /\ T' = T + k /\ nout' = nout + k /\ first' = FALSE /\ emit' = <<>> /\ d' = <<>> /\ pc' = "top"
      /\ UNCHANGED <<opts, exact, draft, spec_snap, dsnap, file, runs>>
  BY DEF Emit
<1>2. TakenIs(k)
  BY <1>1, TakenRight
<1> HIDE DEF k
<1>3. k \in 0 .. Len(emit)
  BY <1>2 DEF TakenIs
<1>4. Emitted(seq', k)
  BY ONLY <1>1, <1>3, EmittedRight, IInv
<1>5. hit_stop' <=> (k > 0 /\ emit[k] \in mode.stops)
  <2>1. /\ ~hit_stop /\ T \in Nat /\ T > 0 /\ nout \in Nat /\ Len(emit) \in Nat /\ k \in Nat
    BY <1>1, <1>3, Numbers DEF IInv, Places, Answered, Absorbed
  <2>2. mode' = mode
    BY <1>1 DEF opts
  <2>3. CASE k = 0
    <3>1. T \in 1 .. T /\ T' = T /\ nout' = nout
      BY <1>1, <2>1, <2>3
    <3>2. seq'[T] = seq[T]
      BY <1>4, <3>1 DEF Emitted
    <3>3. QED
      BY <2>1, <2>2, <2>3, <3>1, <3>2 DEF hit_stop
  <2>4. CASE k > 0
    <3>1. k \in 1 .. k /\ nout' > 0 /\ T' = T + k
      BY <1>1, <2>1, <2>4
    <3>2. seq'[T + k] = emit[k]
      BY <1>4, <3>1 DEF Emitted
    <3>3. QED
      BY <2>2, <2>4, <3>1, <3>2 DEF hit_stop
  <2>5. QED
    BY <2>1, <2>3, <2>4
<1>6. EmitsAs(k)
  BY <1>1, <1>2, <1>4, <1>5 DEF EmitsAs
<1>7. QED
  BY <1>3, <1>6

LEMMA EmitStep ==
    ASSUME IInv, SaveStops, Emit
    PROVE  IInv'
<1> USE DEF opts, exact, draft
<1>1. PICK k \in 0 .. Len(emit) : EmitsAs(k)
  BY EmitIs
<1>2. /\ T' = T + k /\ nout' = nout + k /\ first' = FALSE /\ emit' = <<>> /\ d' = <<>> /\ pc' = "top"
      /\ (hit_stop' <=> (k > 0 /\ emit[k] \in mode.stops))
      /\ UNCHANGED <<opts, exact, draft, spec_snap, dsnap, file, runs>>
  BY <1>1 DEF EmitsAs
<1>3. /\ k <= gen - nout
      /\ k = 0 => gen = 0 /\ nout = 0 /\ Len(emit) = 1
      /\ k = Len(emit) \/ k = 0 \/ (k > 0 /\ mode.spec > 0 /\ emit[k] \in mode.stops)
  BY <1>1 DEF EmitsAs, TakenIs
<1>4. /\ seq' \in Seq(Tok) /\ Len(seq') = T + k
      /\ \A i \in 1 .. T : seq'[i] = seq[i]
      /\ \A i \in 1 .. k : seq'[T + i] = emit[i]
  BY <1>1 DEF EmitsAs, Emitted
<1>5. /\ seq \in Seq(Tok) /\ Len(seq) \in Nat /\ T \in Nat /\ T <= Len(seq) /\ cached \in Nat
      /\ Len(emit) \in Nat /\ nout \in Nat /\ gen \in Nat /\ k \in Nat /\ Len(kvc) \in Nat
      /\ Len(kvc) <= T - nout + gen + 1
  BY Numbers
<1>6. /\ pc = "emit" /\ T > 0 /\ ExactFor(seq) /\ cached = T + Len(emit) - 1
      /\ T + Len(emit) - 1 <= Len(seq) /\ \A i \in 1 .. Len(emit) - 1 : seq[T + i] = emit[i]
  BY DEF Emit, IInv, Places, Carried, InHand, Answered, Absorbed
<1>7. StateTypes'
  <2>1. /\ T' \in 0 .. Len(seq') /\ Len(seq') <= Tmax' + 7 /\ nout' \in 0 .. gen'
        /\ Len(kvc') <= kv_cap'
    <3>1. /\ T' = T + k /\ nout' = nout + k /\ gen' = gen /\ kvc' = kvc /\ Len(seq') = T + k
          /\ T \in Nat /\ nout \in Nat /\ gen \in Nat /\ k \in Nat /\ k <= gen - nout
          /\ Len(kvc) \in Nat /\ Len(kvc) <= T - nout + gen + 1
      BY <1>2, <1>3, <1>4, <1>5
    <3>2. /\ T' \in 0 .. Len(seq') /\ nout' \in 0 .. gen'
          /\ Len(seq') <= (T' - nout' + gen' + 1) + 7
          /\ Len(kvc') <= T' - nout' + gen' + 1
      BY ONLY <3>1
    <3>3. QED
      BY <3>2 DEF Tmax, kv_cap
  <2>2. emit' \in Seq(Tok) /\ d' \in Seq(Tok)
    BY <1>2, EmptySeq
  <2>3. QED
    BY <1>2, <1>4, <2>1, <2>2 DEF IInv, StateTypes, TypeOK
<1>8. Places'
  BY <1>2, <1>3, <1>5, <1>6 DEF Places, Pending, Answered, Absorbed
<1>9. mode.save \/ ~hit_stop' =>
        /\ ExactFor(seq)' /\ cached <= T' /\ (nout' > 0 => cached = T' - 1)
        /\ Upto(seq', cached) = Upto(seq, cached)
  <2> SUFFICES ASSUME mode.save \/ ~hit_stop'
               PROVE  /\ ExactFor(seq)' /\ cached <= T' /\ (nout' > 0 => cached = T' - 1)
                      /\ Upto(seq', cached) = Upto(seq, cached)
    OBVIOUS
  <2>1. k = Len(emit) \/ (k = 0 /\ gen = 0 /\ nout = 0 /\ Len(emit) = 1)
    <3>1. ASSUME k > 0, mode.spec > 0, emit[k] \in mode.stops PROVE FALSE
      <4>1. mode.save /\ mode \in Modes
        BY <1>2, <3>1, Numbers
      <4>2. mode.stops = {}
        BY <3>1, <4>1 DEF SaveStops
      <4>3. QED
        BY <3>1, <4>2
    <3>2. QED
      BY <1>3, <3>1
  <2>2. cached <= T' /\ (nout' > 0 => cached = T' - 1) /\ cached <= Len(seq')
    <3>1. /\ T' = T + k /\ nout' = nout + k /\ Len(seq') = T + k /\ cached = T + Len(emit) - 1
          /\ T \in Nat /\ nout \in Nat /\ k \in Nat /\ Len(emit) \in Nat /\ cached \in Nat
      BY <1>2, <1>4, <1>5, <1>6
    <3>2. CASE k = Len(emit)
      BY ONLY <3>1, <3>2
    <3>3. CASE k = 0 /\ nout = 0 /\ Len(emit) = 1
      BY ONLY <3>1, <3>3
    <3>4. QED
      BY <2>1, <3>2, <3>3
  <2>3. ASSUME NEW i \in 1 .. cached PROVE seq[i] = seq'[i]
    <3>1. CASE i <= T
      <4>1. i \in 1 .. T
        BY <1>5, <3>1
      <4>2. QED
        BY <1>4, <4>1
    <3>2. CASE i > T
      <4> DEFINE j == i - T
      <4>1. j \in 1 .. Len(emit) - 1 /\ j \in 1 .. k /\ T + j = i
        <5>1. /\ cached = T + Len(emit) - 1 /\ T \in Nat /\ k \in Nat /\ Len(emit) \in Nat
              /\ cached \in Nat
          BY <1>5, <1>6
        <5>2. CASE k = Len(emit)
          BY ONLY <3>2, <5>1, <5>2, i \in 1 .. cached
        <5>3. CASE k = 0 /\ Len(emit) = 1
          BY ONLY <3>2, <5>1, <5>3, i \in 1 .. cached
        <5>4. QED
          BY <2>1, <5>2, <5>3
      <4> HIDE DEF j
      <4>2. seq[T + j] = emit[j] /\ seq'[T + j] = emit[j]
        BY <1>4, <1>6, <4>1
      <4>3. QED
        BY <4>1, <4>2
    <3>3. QED
      BY <1>5, <3>1, <3>2
  <2>4. /\ ExactFor(seq') /\ \A i \in 0 .. cached : Upto(seq, i) = Upto(seq', i)
    BY ONLY <1>4, <1>5, <1>6, <2>2, <2>3, ExactTransfers
  <2>5. ExactFor(seq)'
    BY <1>2, <2>4 DEF ExactFor
  <2>6. cached \in 0 .. cached
    BY <1>5
  <2>7. QED
    BY <2>2, <2>4, <2>5, <2>6
<1>10. Carried'
  BY <1>2, <1>9 DEF Carried, Pending, Absorbed
<1>11. InHand' /\ SavedExact'
  BY <1>2 DEF IInv, InHand, SavedExact, Answered, Absorbed
<1>12. Lockstep'
  <2>1. mode.draft /\ Whole(dks) => dcached = cached /\ dks = Upto(seq, cached)
    BY <1>6 DEF IInv, Lockstep
  <2>2. QED
    BY <1>2, <1>9, <2>1 DEF Lockstep
<1>13. QED
  BY <1>7, <1>8, <1>10, <1>11, <1>12 DEF IInv

-----------------------------------------------------------------------------
(* The run ends. *)

LEMMA ExitStep ==
    ASSUME IInv, Saves \/ EndsUnsaved
    PROVE  IInv'
<1>1. /\ pc' = "off"
      /\ seq' = <<>> /\ T' = 0 /\ nout' = 0 /\ first' = TRUE /\ gen' = 0
      /\ ks' = <<>> /\ kvc' = <<>> /\ cached' = 0
      /\ dks' = <<>> /\ dcached' = 0
      /\ spec_snap' = <<>> /\ dsnap' = <<>> /\ d' = <<>> /\ emit' = <<>>
      /\ UNCHANGED <<mode, runs>>
  BY DEF Saves, EndsUnsaved, Exit
<1>2. /\ file' \in [seq : Seq(Tok), ks : Seq(Tok), kvc : Seq(Seq(Tok)), cached : Nat]
      /\ Len(file'.kvc) = file'.cached
      /\ SavedExact'
  <2>1. CASE EndsUnsaved
    BY <2>1 DEF EndsUnsaved, IInv, StateTypes, SavedExact
  <2>2. CASE Saves
    <3>1. pc = "save" /\ mode.save /\ file' = [seq |-> Upto(seq, T), ks |-> ks,
                                             kvc |-> Upto(kvc, cached), cached |-> cached]
      BY <2>2 DEF Saves
    <3>2. ExactFor(seq) /\ cached <= T
      BY <3>1 DEF IInv, Carried
    <3>3. /\ seq \in Seq(Tok) /\ T \in 0 .. Len(seq) /\ T \in Nat /\ ks \in Seq(Tok)
          /\ kvc \in Seq(Seq(Tok)) /\ cached \in 0 .. Len(kvc) /\ cached \in Nat
          /\ cached \in 0 .. T
      BY <3>2, Numbers
    <3> DEFINE s == Upto(seq, T)
               r == Upto(kvc, cached)
    <3>4. s \in Seq(Tok) /\ Len(s) = T
      BY <3>3, UptoIs
    <3>5. r \in Seq(Seq(Tok)) /\ Len(r) = cached /\ \A i \in 1 .. cached : r[i] = kvc[i]
      <4> DEFINE S == Seq(Tok)
      <4>1. kvc \in Seq(S)
        BY <3>3
      <4> HIDE DEF S
      <4>2. r \in Seq(S) /\ Len(r) = cached /\ \A i \in 1 .. cached : r[i] = kvc[i]
        BY <3>3, <4>1, UptoIs
      <4>3. QED
        BY <4>2 DEF S
    <3>6. \A i \in 0 .. cached : Upto(s, i) = Upto(seq, i)
      <4>1. ASSUME NEW i \in 0 .. cached PROVE Upto(s, i) = Upto(seq, i)
        <5>1. i \in 0 .. T
          BY <3>3
        <5>2. QED
          BY <3>3, <5>1, UptoUpto
      <4>2. QED
        BY <4>1
    <3> HIDE DEF s, r
    <3>7. file' = [seq |-> s, ks |-> ks, kvc |-> r, cached |-> cached]
      BY <3>1 DEF s, r
    <3>8. /\ file'.seq = s /\ file'.ks = ks /\ file'.kvc = r /\ file'.cached = cached
      BY <3>7
    <3>9. ks = Upto(s, cached) /\ \A i \in 1 .. cached : r[i] = Upto(s, i)
      <4>1. cached \in 0 .. cached /\ \A i \in 1 .. cached : i \in 0 .. cached
        BY <3>3
      <4>2. ks = Upto(seq, cached) /\ \A i \in 1 .. cached : kvc[i] = Upto(seq, i)
        BY <3>2 DEF ExactFor
      <4>3. QED
        BY ONLY <3>5, <3>6, <4>1, <4>2
    <3>10. SavedExact'
      BY <3>2, <3>4, <3>8, <3>9 DEF SavedExact
    <3>11. QED
      BY <3>3, <3>4, <3>5, <3>7, <3>8, <3>10
  <2>3. QED
    BY <2>1, <2>2
<1>3. StateTypes'
  <2>1. /\ <<>> \in Seq(Tok) /\ Len(<<>>) = 0 /\ <<>> \in Seq(Seq(Tok))
        /\ <<>> \in Seq(Tok \cup {Torn})
    BY EmptySeq
  <2>2. mode \in Modes /\ runs \in 0 .. MaxRuns
    BY DEF IInv, StateTypes, TypeOK
  <2>3. QED
    BY <1>1, <1>2, <2>1, <2>2 DEF StateTypes, TypeOK, kv_cap, Tmax
<1>4. Places' /\ Carried' /\ InHand' /\ Lockstep'
  BY <1>1 DEF Places, Carried, InHand, Lockstep, Pending, Answered, Absorbed
<1>5. QED
  BY <1>2, <1>3, <1>4 DEF IInv

-----------------------------------------------------------------------------
(* The theorems. *)

LEMMA InitRight == Init => IInv
<1> SUFFICES ASSUME Init PROVE IInv
  OBVIOUS
<1>1. /\ <<>> \in Seq(Tok) /\ Len(<<>>) = 0 /\ <<>> \in Seq(Seq(Tok))
      /\ <<>> \in Seq(Tok \cup {Torn})
  BY EmptySeq
<1>2. /\ NoFile \in [seq : Seq(Tok), ks : Seq(Tok), kvc : Seq(Seq(Tok)), cached : Nat]
      /\ NoFile.cached = 0 /\ NoFile.seq = <<>> /\ NoFile.ks = <<>> /\ NoFile.kvc = <<>>
  BY <1>1 DEF NoFile
<1>3. Upto(<<>>, 0) = <<>>
  BY SubSeqEmpty DEF Upto
<1>4. StateTypes
  BY <1>1, <1>2 DEF Init, StateTypes, TypeOK, kv_cap, Tmax
<1>5. SavedExact
  BY <1>1, <1>2, <1>3 DEF Init, SavedExact
<1>6. Places /\ Carried /\ InHand /\ Lockstep
  BY DEF Init, Places, Carried, InHand, Lockstep, Pending, Answered, Absorbed
<1>7. QED
  BY <1>4, <1>5, <1>6 DEF IInv

LEMMA NextRight ==
    ASSUME SaveStops, Answering, IInv, [Next]_vars
    PROVE  IInv'
<1>1. CASE UNCHANGED vars
  BY <1>1 DEF vars, opts, exact, draft, loop, IInv, StateTypes, TypeOK, Places, Carried, ExactFor,
              InHand, SavedExact, Lockstep, Swept, Whole, hit_stop, kv_cap, Tmax
<1>2. CASE Start
  BY <1>2, StartStep
<1>3. CASE LoopEnds \/ Interrupted
  BY <1>3, LeaveStep
<1>4. CASE Prefill
  BY <1>4, PrefillStep
<1>5. CASE DraftFill
  BY <1>5, DraftFillStep
<1>6. CASE NGramProposes \/ NoDraft \/ DraftBegins
  BY <1>6, ProposeStep
<1>7. CASE DraftSteps \/ DraftEnds \/ DraftFails
  BY <1>7, DraftStep
<1>8. CASE Verify
  BY <1>8, VerifyStep
<1>9. CASE Replay
  BY <1>9, ReplayStep
<1>10. CASE Resync
  BY <1>10, ResyncStep
<1>11. CASE Plain
  BY <1>11, PlainStep
<1>12. CASE PlainDraft
  BY <1>12, PlainDraftStep
<1>13. CASE Emit
  BY <1>13, EmitStep
<1>14. CASE Saves \/ EndsUnsaved
  BY <1>14, ExitStep
<1>15. QED
  BY <1>1, <1>2, <1>3, <1>4, <1>5, <1>6, <1>7, <1>8, <1>9, <1>10, <1>11, <1>12, <1>13, <1>14 DEF Next

(* The inductive invariant: the shape of the loop's state at each of its    *)
(* places, over every chain of runs.                                        *)
THEOREM InvHolds ==
    ASSUME SaveStops, Answering
    PROVE  Spec => []IInv
<1>1. Init => IInv
  BY InitRight
<1>2. IInv /\ [Next]_vars => IInv'
  BY NextRight
<1>3. QED
  BY <1>1, <1>2, PTL DEF Spec

(* Type correctness, and that no buffer of the loop is run past: the token  *)
(* array, the KV cache, the positions of a sweep.                           *)
THEOREM TypesHold ==
    ASSUME SaveStops, Answering
    PROVE  Spec => []TypeOK
<1>1. IInv => TypeOK
  BY DEF IInv, StateTypes
<1>2. QED
  BY <1>1, InvHolds, PTL

(* Wherever the loop may be left or a state saved, the carried state is     *)
(* that of the sequence and of nothing else, whatever was drafted,          *)
(* rejected and replayed, and the draft model has kept in step.             *)
THEOREM StaysExact ==
    ASSUME SaveStops, Answering
    PROVE  Spec => []StateExact
<1>1. ASSUME IInv PROVE StateExact
  BY <1>1 DEF IInv, StateExact, Carried, ExactFor, Lockstep, Whole
<1>2. QED
  BY <1>1, InvHolds, PTL

(* A saved state is the state of the sequence saved with it, over every     *)
(* chain of runs that save and resume.                                      *)
THEOREM SavesExact ==
    ASSUME SaveStops, Answering
    PROVE  Spec => []SavedExact
<1>1. IInv => SavedExact
  BY DEF IInv
<1>2. QED
  BY <1>1, InvHolds, PTL

(* Every n-gram draft is what followed the end of the sequence at its       *)
(* latest earlier occurrence and at the one before that, as far as --spec   *)
(* and the sequence allow.  Occurrences older than these two are not asked. *)
THEOREM DraftsRight ==
    ASSUME SaveStops, Answering
    PROVE  Spec => []DraftFollows
<1>1. Init => DraftFollows
  BY DEF Init, DraftFollows
<1>2. IInv /\ DraftFollows /\ [Next]_vars => DraftFollows'
  <2> SUFFICES ASSUME IInv, DraftFollows, [Next]_vars PROVE DraftFollows'
    OBVIOUS
  <2> USE DEF opts, exact, draft, loop
  <2>1. CASE NGramProposes
    <3>1. /\ seq \in Seq(Tok) /\ T \in 0 .. Len(seq) /\ mode.spec \in Nat
      BY Numbers
    <3>2. Follow(Upto(seq, T), mode.spec, spec_draft(seq, T, mode.spec))
      BY ONLY <3>1, SpecDraftIs
    <3>3. QED
      BY <2>1, <3>2 DEF NGramProposes, DraftFollows
  <2>2. CASE DraftEnds \/ DraftFails
    BY <2>2 DEF DraftEnds, DraftFails, DraftFollows, IInv, Places
  <2>3. CASE UNCHANGED vars
    BY <2>3 DEF vars, DraftFollows
  <2>4. CASE Start \/ LoopEnds \/ Interrupted \/ Prefill \/ DraftFill \/ NoDraft \/ DraftBegins
    BY <2>4 DEF Start, LoopEnds, Interrupted, Prefill, DraftFill, NoDraft, DraftBegins, DraftFollows
  <2>5. CASE DraftSteps \/ Verify \/ Replay \/ Resync \/ Plain \/ PlainDraft
    BY <2>5 DEF DraftSteps, Verify, Replay, Resync, Plain, PlainDraft, DraftFollows
  <2>6. CASE Emit \/ Saves \/ EndsUnsaved
    BY <2>6 DEF Emit, Saves, EndsUnsaved, Exit, DraftFollows
  <2>7. QED
    BY <2>1, <2>2, <2>3, <2>4, <2>5, <2>6 DEF Next
<1>3. QED
  BY <1>1, <1>2, InvHolds, PTL DEF Spec

-----------------------------------------------------------------------------
(* The tokens are those of serial greedy decoding. *)

(* A step that leaves the text, the budget and the file alone.              *)
Quiet ==
    /\ UNCHANGED <<opts, T, nout, file>>
    /\ pc # "off" /\ pc' # "off"
    /\ Upto(seq', T) = Upto(seq, T) /\ seq'[T] = seq[T]

LEMMA QuietSteps ==
    ASSUME IInv, Next, ~Start, ~Emit, ~Saves, ~EndsUnsaved
    PROVE  Quiet
<1> USE DEF opts, loop, exact
<1>1. CASE Verify
  <2>1. /\ pc = "verify" /\ pc' \in {"replay", "resync", "emit"}
        /\ seq' = Upto(seq, T) \o d /\ UNCHANGED <<opts, T, nout, file>>
    BY <1>1 DEF Verify
  <2>2. T > 0
    BY <2>1 DEF IInv, Places
  <2>n. /\ seq \in Seq(Tok) /\ d \in Seq(Tok) /\ Len(seq) \in Nat /\ T \in Nat
        /\ T <= Len(seq)
    BY Numbers
  <2>3. /\ seq \in Seq(Tok) /\ d \in Seq(Tok) /\ T \in 0 .. Len(seq) /\ T \in 1 .. T
        /\ T \in 0 .. T
    BY ONLY <2>2, <2>n
  <2>4. Placed(Tok, Upto(seq, T) \o d, seq, T, d)
    BY ONLY <2>3, Behind
  <2>5. Upto(seq', T) = Upto(seq, T) /\ seq'[T] = seq[T]
    BY <2>1, <2>3, <2>4 DEF Placed
  <2>6. QED
    BY <2>1, <2>5 DEF Quiet
<1>2. CASE LoopEnds \/ Interrupted \/ Prefill \/ Plain \/ NGramProposes \/ NoDraft \/ DraftBegins
  BY <1>2 DEF Quiet, LoopEnds, Interrupted, GoesOn, Prefill, Plain, NGramProposes, NoDraft,
              DraftBegins
<1>3. CASE DraftFill \/ DraftSteps \/ DraftEnds \/ DraftFails \/ Replay \/ Resync \/ PlainDraft
  BY <1>3 DEF Quiet, DraftFill, DraftSteps, DraftEnds, DraftFails, Replay, Resync, PlainDraft
<1>4. QED
  BY <1>1, <1>2, <1>3 DEF Next

LEMMA QuietStutters ==
    ASSUME Quiet
    PROVE  UNCHANGED Serial!vars
<1>1. hit_stop' = hit_stop
  BY DEF Quiet, hit_stop, opts
<1>2. QED
  BY <1>1 DEF Quiet, opts, Serial!vars

LEMMA StartBegins ==
    ASSUME IInv, Start
    PROVE  Serial!Begin
<1>1. PICK from \in {file, NoFile}, p \in Prompts :
         gen' \in Gens /\ seq' = from.seq \o p /\ T' = Len(seq')
  BY DEF Start
<1>2. pc = "off" /\ pc' = "top" /\ nout' = nout /\ mode' \in Modes /\ file' = file
  BY DEF Start, loop
<1>3. nout = 0
  BY <1>2 DEF IInv, Places
<1>4. from.seq \in {<<>>, file.seq}
  BY <1>1 DEF NoFile
<1>5. seq' \in Seq(Tok)
  <2>1. file.seq \in Seq(Tok)
    BY DEF IInv, StateTypes
  <2>2. from.seq \in Seq(Tok) /\ p \in Seq(Tok)
    BY <1>4, <2>1, EmptySeq
  <2>3. QED
    BY <1>1, <2>2, Joined
<1>6. Upto(seq, T)' = from.seq \o p
  <2>1. Upto(seq', Len(seq')) = seq'
    BY ONLY <1>5, FullUpto
  <2>2. QED
    BY <1>1, <2>1
<1>7. gen' \in Nat
  BY <1>1
<1>8. ~hit_stop' /\ gen' - nout' = gen'
  <2>1. nout' = 0 /\ ~(nout' > 0)
    BY <1>2, <1>3
  <2>2. ~hit_stop'
    BY <2>1 DEF hit_stop
  <2>3. gen' - nout' = gen'
    <3>1. \A n \in Nat : n - 0 = n
      OBVIOUS
    <3>2. gen' - 0 = gen'
      BY ONLY <1>7, <3>1
    <3>3. QED
      BY <2>1, <3>2
  <2>4. QED
    BY <2>2, <2>3
<1>9. mode.stops' \in StopSets
  BY <1>2 DEF StopSets
<1>10. QED
  BY <1>1, <1>2, <1>4, <1>6, <1>8, <1>9 DEF Serial!Begin

LEMMA EmitGenerates ==
    ASSUME IInv, Emit
    PROVE  Serial!Generate \/ UNCHANGED Serial!vars
<1>1. PICK k \in 0 .. Len(emit) : EmitsAs(k)
  BY EmitIs
<1> DEFINE u == Upto(seq, T)
           v == Upto(seq', T')
<1>2. /\ pc = "emit" /\ pc' = "top" /\ T' = T + k /\ nout' = nout + k
      /\ gen' = gen /\ mode' = mode /\ file' = file
      /\ (hit_stop' <=> (k > 0 /\ emit[k] \in mode.stops))
  BY <1>1 DEF EmitsAs, Emit, opts
<1>3. /\ ~hit_stop /\ T \in Nat /\ nout \in Nat /\ gen \in Nat /\ k \in Nat /\ Len(emit) \in Nat
      /\ seq \in Seq(Tok) /\ T \in 0 .. Len(seq)
  BY <1>2, Numbers DEF IInv, Places, Answered, Absorbed
<1>4. /\ k <= gen - nout /\ \A i \in 1 .. k - 1 : emit[i] \notin mode.stops
  BY <1>1 DEF EmitsAs, TakenIs
<1>5. /\ seq' \in Seq(Tok) /\ Len(seq') = T + k
      /\ \A i \in 1 .. k : seq'[T + i] = emit[i]
      /\ Upto(seq', T) = Upto(seq, T)
      /\ \A i \in 1 .. k : seq'[T + i] = Greedy(Upto(seq', T + i - 1))
  BY <1>1 DEF EmitsAs, Emitted
<1>6. v = seq'
  <2>1. Upto(seq', Len(seq')) = seq'
    BY ONLY <1>5, FullUpto
  <2>2. QED
    BY <1>2, <1>5, <2>1
<1>7. u \in Seq(Tok) /\ Len(u) = T
  BY <1>3, UptoIs
<1>8. CASE k = 0
  <2>1. T' = T /\ nout' = nout /\ ~hit_stop'
    BY <1>2, <1>3, <1>8
  <2>2. v = u
    BY <1>5, <2>1
  <2>3. QED
    BY <1>2, <1>3, <2>1, <2>2 DEF Serial!vars
<1>9. CASE k > 0
  <2> DEFINE now == Len(v)
  <2>1. now = T + k /\ T < now /\ now - T = k /\ k \in 1 .. k
    BY <1>3, <1>5, <1>6, <1>9
  <2>2. SubSeq(v, 1, T) = u
    BY <1>5, <1>6 DEF Upto
  <2>3. ASSUME NEW i \in T + 1 .. now
        PROVE  v[i] = Greedy(SubSeq(v, 1, i - 1)) /\ (i # now => v[i] \notin mode.stops)
    <3> DEFINE j == i - T
    <3>1. j \in 1 .. k /\ T + j = i /\ T + j - 1 = i - 1 /\ (i # now => j \in 1 .. k - 1)
      BY <1>3, <2>1
    <3> HIDE DEF j
    <3>2. seq'[T + j] = emit[j] /\ seq'[T + j] = Greedy(Upto(seq', T + j - 1))
      BY <1>5, <3>1
    <3>3. QED
      BY <1>4, <1>6, <3>1, <3>2 DEF Upto
  <2>4. v[now] = emit[k]
    BY <1>5, <1>6, <2>1
  <2>5. (IF pc' # "off" /\ hit_stop' THEN 0 ELSE gen' - nout')
          = IF v[now] \in mode.stops THEN 0 ELSE (gen - nout) - (now - T)
    <3>1. /\ hit_stop' <=> v[now] \in mode.stops
          /\ pc' # "off" /\ gen' = gen /\ nout' = nout + k /\ now - T = k
      BY <1>2, <1>9, <2>1, <2>4
    <3>2. gen - (nout + k) = (gen - nout) - k
      BY ONLY <1>3
    <3>3. QED
      BY ONLY <3>1, <3>2
  <2>6. \A i \in T + 1 .. now - 1 : i \in T + 1 .. now /\ i # now
    BY <1>3, <2>1
  <2>7. Serial!Generate
    BY <1>2, <1>3, <1>4, <1>7, <2>1, <2>2, <2>3, <2>5, <2>6 DEF Serial!Generate
  <2>8. QED
    BY <2>7
<1>10. QED
  BY <1>3, <1>8, <1>9

LEMMA ExitEnds ==
    ASSUME IInv, Saves \/ EndsUnsaved
    PROVE  Serial!End
<1>1. /\ pc # "off" /\ pc' = "off" /\ seq' = <<>> /\ T' = 0 /\ nout' = 0 /\ gen' = 0
  BY DEF Saves, EndsUnsaved, Exit
<1>2. Upto(seq, T)' = <<>>
  BY <1>1, SubSeqEmpty DEF Upto
<1>3. file'.seq \in {file.seq, Upto(seq, T)}
  BY DEF Saves, EndsUnsaved
<1>4. gen' - nout' = 0
  BY <1>1
<1>5. QED
  BY <1>1, <1>2, <1>3, <1>4 DEF Serial!End

(* Speculation, replay, the draft model, interrupts, failures, stop ids,    *)
(* saving and resuming leave the tokens those of serial greedy decoding.    *)
THEOREM Refinement ==
    ASSUME SaveStops, Answering
    PROVE  Spec => KeepsSerial
<1>1. ASSUME Init PROVE Serial!Init
  <2>1. Upto(<<>>, 0) = <<>>
    BY SubSeqEmpty DEF Upto
  <2>2. QED
    BY <1>1, <2>1 DEF Init, NoFile, Serial!Init
<1>2. ASSUME IInv, [Next]_vars PROVE [Serial!Next]_(Serial!vars)
  <2>1. CASE UNCHANGED vars
    BY <2>1 DEF vars, opts, loop, hit_stop, Serial!vars
  <2>2. CASE Start
    BY <1>2, <2>2, StartBegins DEF Serial!Next
  <2>3. CASE Emit
    BY <1>2, <2>3, EmitGenerates DEF Serial!Next
  <2>4. CASE Saves \/ EndsUnsaved
    BY <1>2, <2>4, ExitEnds DEF Serial!Next
  <2>5. CASE Next /\ ~Start /\ ~Emit /\ ~Saves /\ ~EndsUnsaved
    BY <1>2, <2>5, QuietSteps, QuietStutters
  <2>6. QED
    BY <1>2, <2>1, <2>2, <2>3, <2>4, <2>5
<1>3. QED
  BY <1>1, <1>2, InvHolds, PTL DEF Spec, KeepsSerial, Serial!Spec

=============================================================================
