---------------------------- MODULE MCExpertCache ----------------------------
(* A bounded instance of ExpertCache.  Layers and experts are model values: *)
(* nothing in the cache depends on which is which, so they are symmetric,   *)
(* but for the expert missing from the shards.  Lists of three with repeats *)
(* are batches of one to three experts.                                     *)
EXTENDS ExpertCache, TLC

CONSTANTS first, second, a, b, lost

TwoLayers  == {first, second}
Two        == {a, b}
TwoAndLost == {a, b, lost}
LostOnes   == {<<first, lost>>, <<second, lost>>}
OnlyThree  == {3}
Symmetric  == {p @@ q : p \in Permutations(Two), q \in Permutations(TwoLayers)}
=============================================================================
