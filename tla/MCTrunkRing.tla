----------------------------- MODULE MCTrunkRing -----------------------------
(* Bounded instances of TrunkRing: every pinned set of a small trunk.       *)
EXTENDS TrunkRing

AllPins  == SUBSET Layers
SafePins == {P \in SUBSET Layers : RoomToClaim(P)}
NoPins   == {{}}
=============================================================================
