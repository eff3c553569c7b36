----------------------------- MODULE TrunkSource -----------------------------
(***************************************************************************)
(* What k3_trunk.h promises of k3_trunk_fetch, with no ring, no threads    *)
(* and no disk: a fetch of layer L lends its caller L's own bytes, and the *)
(* loan stays valid, byte for byte, until the next fetch or the close.     *)
(***************************************************************************)
EXTENDS Integers

CONSTANTS Layers, NoBytes

VARIABLES state, layer, bytes

vars == <<state, layer, bytes>>

Init == state = "idle" /\ layer \in Layers /\ bytes = NoBytes

(* The next fetch ends the previous loan. *)
Ask(L) ==
    /\ state \in {"idle", "lent"}
    /\ state' = "asked" /\ layer' = L /\ bytes' = NoBytes

Lend ==
    /\ state = "asked"
    /\ state' = "lent" /\ bytes' = layer /\ UNCHANGED layer

Refuse ==
    /\ state = "asked"
    /\ state' = "failed" /\ UNCHANGED <<layer, bytes>>

Close ==
    /\ state \in {"idle", "lent", "failed"}
    /\ state' = "closed" /\ bytes' = NoBytes /\ UNCHANGED layer

Next == Lend \/ Refuse \/ Close \/ \E L \in Layers : Ask(L)

Spec == Init /\ [][Next]_vars
=============================================================================
