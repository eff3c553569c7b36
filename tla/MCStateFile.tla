----------------------------- MODULE MCStateFile -----------------------------
(* A bounded instance of StateFile: two processes of different             *)
(* architectures that save to one path.                                    *)
EXTENDS StateFile

CONSTANTS s1, s2, small, large

TwoSavers == {s1, s2}
TwoShapes == {small, large}
OneEach   == [s \in TwoSavers |-> IF s = s1 THEN small ELSE large]
=============================================================================
