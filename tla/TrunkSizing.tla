----------------------------- MODULE TrunkSizing -----------------------------
(***************************************************************************)
(* How k3_trunk_open (src/io/k3_trunk.c) divides the --trunk-gb budget     *)
(* between pinned layers and the slots of the streaming ring.  A slot has  *)
(* to hold the largest layer that is not pinned, and what is pinned is     *)
(* what fits beside the slots, so the two are computed in turn until they  *)
(* stop changing, eight times at most.                                     *)
(***************************************************************************)
EXTENDS Integers, FiniteSetsExt

CONSTANTS
    NLayers,
    ALIGN,       \* K3_TRUNK_ALIGN, and the page the slot is rounded up to
    Sizes,       \* what a layer's nbytes may be
    Widens,      \* what k3_bind_widen_bytes may be
    RingWants,   \* ring slots asked for, after clamping
    PinPrefix    \* K3_PIN_PREFIX may be set

Layers == 0 .. NLayers - 1
MaxPasses == 8

ASSUME SizingAssumption ==
    /\ NLayers \in Nat \ {0} /\ ALIGN \in Nat \ {0}
    /\ Sizes \subseteq Nat \ {0} /\ Widens \subseteq Nat
    /\ RingWants \subseteq Nat \ {0} /\ PinPrefix \in BOOLEAN

VARIABLES
    nbytes, widen, budget, ring_want, pin_prefix,    \* what is given
    pass,
    chosen,      \* the layers to pin
    ring,        \* slots
    ring_slot,   \* bytes of one
    spent,       \* bytes counted against the budget
    taken,       \* bytes allocated for the ring and the pinned layers
    done

given == <<nbytes, widen, budget, ring_want, pin_prefix>>
sizing == <<given, pass, chosen, ring, ring_slot, spent, taken, done>>

aligned(n) == ((n + ALIGN - 1) \div ALIGN) * ALIGN

Idle ==
    /\ pass = 0 /\ chosen = {} /\ ring = ring_want /\ ring_slot = 0
    /\ spent = 0 /\ taken = 0

SizingInit ==
    /\ nbytes \in [Layers -> Sizes] /\ widen \in Widens /\ budget = 0
    /\ ring_want \in RingWants
    /\ pin_prefix \in (IF PinPrefix THEN BOOLEAN ELSE {FALSE})
    /\ Idle /\ done = FALSE

(* k3_trunk_open is called with a budget. *)
Open(b) ==
    /\ Idle /\ budget' = b
    /\ UNCHANGED <<nbytes, widen, ring_want, pin_prefix, pass, chosen, ring,
                   ring_slot, spent, taken, done>>

-----------------------------------------------------------------------------
Unpinned_Last(S) == nbytes[NLayers - 1]     \* mutant: the last layer's size
(* The largest layer that would stream; the last one when none does. *)
Unpinned(S) ==
    IF S = Layers THEN nbytes[NLayers - 1]
    ELSE Max({nbytes[L] : L \in Layers \ S})

SlotBytes(big) == aligned(aligned(big) + widen)

(* Mutant: no slot at all when none fits. *)
Slots_OrNone(rs) == Max({0} \cup {r \in 1 .. ring_want : r * rs <= budget})
(* As many slots as fit, one in any case. *)
Slots(rs) == Max({1} \cup {r \in 1 .. ring_want : r * rs <= budget})

(* Largest first, ties by index; or the order of the walk. *)
Before(a, b) ==
    IF pin_prefix THEN a < b
    ELSE nbytes[a] > nbytes[b] \/ (nbytes[a] = nbytes[b] /\ a < b)
First(S) == CHOOSE a \in S : \A b \in S \ {a} : Before(a, b)

need(L) == nbytes[L] + widen

GoesOnPast_Never == FALSE                   \* mutant: every order is a prefix
GoesOnPast == ~pin_prefix

(* What is pinned beside rings of sp bytes: a layer that does not fit is    *)
(* passed over, or, pinning a prefix, ends the selection.  sp counts the    *)
(* layer's nbytes; what is then allocated for it, mem, is whole pages.      *)
Consider(p) ==
    LET L    == First(p.left)
        fits == ~p.over /\ p.sp + need(L) <= budget
    IN [left |-> p.left \ {L},
        set  |-> IF fits THEN p.set \cup {L} ELSE p.set,
        sp   |-> IF fits THEN p.sp + need(L) ELSE p.sp,
        mem  |-> IF fits THEN p.mem + aligned(nbytes[L]) + widen ELSE p.mem,
        over |-> p.over \/ (~fits /\ ~GoesOnPast)]

Picked(sp) ==
    LET pick[i \in 0 .. NLayers] ==
            IF i = 0
            THEN [left |-> Layers, set |-> {}, sp |-> sp, mem |-> sp, over |-> FALSE]
            ELSE Consider(pick[i - 1])
    IN pick[NLayers]

Pass ==
    LET rs  == SlotBytes(Unpinned(chosen))
        now == Picked(Slots(rs) * rs)
    IN /\ ~done
       /\ ring' = Slots(rs) /\ ring_slot' = rs
       /\ chosen' = now.set /\ spent' = now.sp /\ taken' = now.mem
       /\ pass' = pass + 1
       /\ done' = (\/ rs = ring_slot /\ Cardinality(now.set) = Cardinality(chosen)
                   \/ pass' = MaxPasses)
       /\ UNCHANGED given

-----------------------------------------------------------------------------
(* Properties *)

(* Type correctness; the ring is never empty nor longer than asked for. *)
SizingTypeOK ==
    /\ nbytes \in [Layers -> Sizes] /\ widen \in Widens /\ budget \in Nat
    /\ ring_want \in RingWants /\ pin_prefix \in BOOLEAN
    /\ pass \in 0 .. MaxPasses /\ chosen \subseteq Layers
    /\ ring \in 1 .. ring_want
    /\ ring_slot \in Nat /\ spent \in Nat /\ taken \in Nat
    /\ done \in BOOLEAN

Widest   == SlotBytes(Unpinned({}))
Heaviest == Unpinned({}) + widen

(* A budget that a whole number of slots for the largest layer exceeds by   *)
(* less than what such a slot is rounded up by: the largest layer is then   *)
(* pinned beside fewer slots, though one slot more would not fit.  From     *)
(* there the eight passes may end on a slot too small for the layer they    *)
(* unpinned last, which is what RingFits cannot say of these budgets.       *)
Critical ==
    \E r \in 1 .. ring_want - 1 :
        r * Widest + Heaviest <= budget /\ budget < (r + 1) * Widest

(* The slots k3_trunk_open settles on hold every layer that will stream     *)
(* through them, with its widened tensors, at all but the Critical budgets; *)
(* the budget is kept, as far as it is counted, but for the one slot that   *)
(* is always granted, and filled: largest first, no layer that is left out  *)
(* would still fit.                                                         *)
RingFits ==
    done =>
        /\ Critical \/ \A L \in Layers \ chosen : aligned(nbytes[L]) + widen <= ring_slot
        /\ spent <= budget \/ (ring = 1 /\ chosen = {})
        /\ pin_prefix \/ \A L \in Layers \ chosen : spent + need(L) > budget
=============================================================================
