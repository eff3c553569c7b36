------------------------------- MODULE Sampler -------------------------------
(***************************************************************************)
(* k3_sampler_next of k3_sampler.c: the token chat draws from the logits.  *)
(* Logits are a function from token ids to numbers.  The probability of an *)
(* id is Mass of how far its logit is below the best one, out of their     *)
(* sum, at a temperature that main() lets through; top_p is the fraction   *)
(* num / den.  What the generator returns is any r, as seeds are.          *)
(***************************************************************************)
EXTENDS Integers, Sequences, FiniteSets

CONSTANTS
    Mass(_),         \* exp(-d / temperature) on some scale; 0 is underflow
    Overflows(_)     \* a logit over the temperature is too large for a double

NoToken == -1        \* the call failed

(* The first id with the largest logit. *)
argmax(lg) ==
    CHOOSE i \in DOMAIN lg :
        \A j \in DOMAIN lg : lg[j] < lg[i] \/ (lg[j] = lg[i] /\ i <= j)

prob(lg, i) == Mass(lg[argmax(lg)] - lg[i])

Total(lg, ids) ==
    LET Sum[S \in SUBSET ids] ==
            IF S = {} THEN 0
            ELSE LET i == CHOOSE i \in S : TRUE IN prob(lg, i) + Sum[S \ {i}]
    IN Sum[ids]

(* Sorted before: the more probable, then the smaller id. *)
Before(lg, i) ==
    {j \in DOMAIN lg : prob(lg, j) > prob(lg, i) \/ (prob(lg, j) = prob(lg, i) /\ j < i)}

(* cmp_desc_global. *)
sorted(lg) ==
    [n \in 1 .. Cardinality(DOMAIN lg) |->
        CHOOSE i \in DOMAIN lg : Cardinality(Before(lg, i)) = n - 1]

(* Is the nucleus still short of top_p when it weighs keep? *)
Short_OrEqual(lg, keep, top_p) ==        \* mutant
    keep * top_p.den <= top_p.num * Total(lg, DOMAIN lg)
Short(lg, keep, top_p) ==
    keep * top_p.den < top_p.num * Total(lg, DOMAIN lg)

Weighs(lg, n) == Total(lg, {sorted(lg)[i] : i \in 1 .. n})

(* nk: how many of the sorted ids stay eligible. *)
nk(lg, top_k, top_p) ==
    LET nw == IF top_k > 0 /\ top_k < Cardinality(DOMAIN lg) THEN top_k
              ELSE Cardinality(DOMAIN lg)
        kept[n \in 0 .. nw] ==
            IF n < nw /\ Short(lg, Weighs(lg, n), top_p) THEN kept[n + 1] ELSE n
    IN IF kept[0] = 0 THEN 1 ELSE kept[0]

(* The id r falls on; the last one catches what is left over. *)
Drawn(lg, n, r) ==
    sorted(lg)[CHOOSE i \in 1 .. n :
                /\ r < Weighs(lg, i) \/ i = n
                /\ \A j \in 1 .. i - 1 : r >= Weighs(lg, j)]

NoSum_Infinite(lg) == Total(lg, DOMAIN lg) <= 0      \* mutant

(* The exponentials have no sum that is positive and finite: exp(inf - inf) *)
(* is no number.                                                            *)
NoSum(lg) == Overflows(lg[argmax(lg)]) \/ Total(lg, DOMAIN lg) <= 0

(* Arguments are checked first; room for the probabilities, which may be    *)
(* lacking, is needed only to draw.                                         *)
k3_sampler_next(lg, greedy, top_k, top_p) ==
    IF DOMAIN lg = {} \/ top_p.num <= 0 \/ top_p.num > top_p.den THEN {NoToken}
    ELSE IF greedy THEN {argmax(lg)}
    ELSE {NoToken} \cup
         IF NoSum(lg) THEN {argmax(lg)}
         ELSE LET n == nk(lg, top_k, top_p)
              IN {Drawn(lg, n, r) : r \in 0 .. Weighs(lg, n) - 1}

(* What the options promise: an id among the top_k with less than top_p of  *)
(* the probability before it.                                               *)
Kept(lg, top_k, top_p) ==
    {i \in DOMAIN lg :
        /\ top_k > 0 => Cardinality(Before(lg, i)) < top_k
        /\ Total(lg, Before(lg, i)) * top_p.den < top_p.num * Total(lg, DOMAIN lg)}
=============================================================================
