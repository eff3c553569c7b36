------------------------------ MODULE MCDecode ------------------------------
(* Bounded instances of Decode.                                            *)
EXTENDS Decode

(* An exact model whose answer hangs on every token of the context and on   *)
(* its length, and which is periodic often enough for n-grams to recur.     *)
Model(c) ==
    IF Len(c) % 4 = 3 /\ Len(c) > 6
    THEN IF \A i \in 1 .. Len(c) : c[i] = 1 THEN 2
         ELSE 1 + (Cardinality({i \in 1 .. Len(c) : c[i] = 1}) % 3)
    ELSE IF Len(c) > 1 THEN c[Len(c) - 1] ELSE 1

Periodic == {<<1, 2, 1, 2, 1>>, <<3>>}
Mode(n, byTrunk, ends, saves) ==
    [spec |-> n, draft |-> byTrunk, stops |-> ends, save |-> saves]

(* A stop id may come up inside an accepted draft only in the runs whose    *)
(* state is not saved; NGramWithStop is the run that saves it.              *)
MixedModes ==
    {Mode(0, FALSE, {3}, TRUE), Mode(2, FALSE, {}, TRUE), Mode(2, TRUE, {}, TRUE),
     Mode(2, FALSE, {1}, FALSE), Mode(2, TRUE, {1, 3}, FALSE)}
NGramWithStop  == {Mode(2, FALSE, {1}, TRUE)}
=============================================================================
