----------------------------- MODULE StateStore -----------------------------
(***************************************************************************)
(* What --save-state and --load-state promise of the state file, with no   *)
(* temporary files, hashes or partial writes: a register whose content     *)
(* changes from one complete image to another in a single step, and a load *)
(* that restores what the register holds or nothing at all.  A power cut   *)
(* may undo the saves the file system has not committed yet; a byte that   *)
(* rots may cost the image, and never gives a wrong one.                   *)
(***************************************************************************)
EXTENDS Integers

CONSTANTS Images, None

VARIABLES
    held,        \* the image the file holds, or None
    settled,     \* the image the file would hold after a power cut
    restored,    \* the image the last load restored, or None
    damage       \* bytes that have rotted

vars == <<held, settled, restored, damage>>

Init == held = None /\ settled = None /\ restored = None /\ damage = 0

Publish(i) == held' = i /\ UNCHANGED <<settled, restored, damage>>

Settle == settled' = held /\ UNCHANGED <<held, restored, damage>>

Cut ==
    /\ held' = settled /\ restored' = None
    /\ UNCHANGED <<settled, damage>>

Rot ==
    /\ held' \in {held, None} /\ settled' \in {settled, None}
    /\ damage' = damage + 1
    /\ UNCHANGED restored

LoadRestores ==
    /\ held # None
    /\ restored' = held
    /\ UNCHANGED <<held, settled, damage>>

LoadRefuses == restored' = None /\ UNCHANGED <<held, settled, damage>>

Next ==
    \/ \E i \in Images : Publish(i)
    \/ Settle \/ Cut \/ Rot \/ LoadRestores \/ LoadRefuses

Spec == Init /\ [][Next]_vars
=============================================================================
