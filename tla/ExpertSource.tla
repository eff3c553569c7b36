---------------------------- MODULE ExpertSource ----------------------------
(***************************************************************************)
(* What K3ExpertSrc of k3.h promises of an expert cache, with no slots, no *)
(* eviction and no batch reads: the experts a token or a chunk of tokens   *)
(* was routed to are lent one after another in the order asked, each with  *)
(* its own bytes until the caller is done with it; one that cannot be had  *)
(* is passed over, and then no other layer is asked for.                   *)
(***************************************************************************)
EXTENDS Integers, Sequences

CONSTANTS
    Routings,    \* sequences of experts, each a layer and a number
    Nobody

VARIABLES
    wanted,      \* the experts routed to, in routing order
    done,        \* how many of them are dealt with
    lent,        \* the expert whose bytes the caller reads, or Nobody
    lost         \* one was passed over

vars == <<wanted, done, lent, lost>>

Init == wanted = <<>> /\ done = 0 /\ lent = Nobody /\ lost = FALSE

Due == lent = Nobody /\ done < Len(wanted)

Ask ==
    /\ lent = Nobody /\ done = Len(wanted)
    /\ wanted' \in Routings /\ done' = 0
    /\ lost => wanted'[1][1] = wanted[1][1]
    /\ UNCHANGED <<lent, lost>>

Lend ==
    /\ Due
    /\ lent' = wanted[done + 1]
    /\ UNCHANGED <<wanted, done, lost>>

Return ==
    /\ lent # Nobody
    /\ lent' = Nobody /\ done' = done + 1
    /\ UNCHANGED <<wanted, lost>>

PassOver ==
    /\ Due
    /\ done' = done + 1 /\ lost' = TRUE
    /\ UNCHANGED <<wanted, lent>>

Next == Ask \/ Lend \/ Return \/ PassOver

Spec == Init /\ [][Next]_vars
=============================================================================
