---------------------------- MODULE SerialDecode ----------------------------
(***************************************************************************)
(* What a run of the engine promises whoever reads its tokens, with no     *)
(* caches, drafts, snapshots or state files in sight: the text is the      *)
(* prompt, after the text a saved state holds if the run resumes one,      *)
(* followed by the tokens greedy decoding gives one after another.  It     *)
(* grows by at most gen tokens and not past a stop id.                     *)
(***************************************************************************)
EXTENDS Integers, Sequences

CONSTANTS
    Greedy(_),   \* the token the exact model gives after a context
    Prompts, Gens, StopSets

VARIABLES
    running,
    text,        \* prompt and generated tokens, resumed ones included
    room,        \* tokens the run may still generate
    stops,       \* the run's --stop-id set
    stored       \* the text of the state file, empty when there is none

vars == <<running, text, room, stops, stored>>

Init ==
    /\ running = FALSE /\ text = <<>> /\ room = 0 /\ stops = {}
    /\ stored = <<>>

Begin ==
    /\ ~running /\ running' = TRUE
    /\ \E prior \in {<<>>, stored}, prompt \in Prompts : text' = prior \o prompt
    /\ room' \in Gens /\ stops' \in StopSets
    /\ UNCHANGED stored

(* Some tokens, each the greedy one for all that precede it; nothing        *)
(* follows a stop id.                                                       *)
Generate ==
    LET had == Len(text)
        now == Len(text')
    IN /\ running
       /\ had < now /\ now - had <= room
       /\ SubSeq(text', 1, had) = text
       /\ \A i \in had + 1 .. now : text'[i] = Greedy(SubSeq(text', 1, i - 1))
       /\ \A i \in had + 1 .. now - 1 : text'[i] \notin stops
       /\ room' = IF text'[now] \in stops THEN 0 ELSE room - (now - had)
       /\ UNCHANGED <<running, stops, stored>>

(* The run ends, and may leave its text in the state file. *)
End ==
    /\ running /\ running' = FALSE
    /\ stored' \in {stored, text}
    /\ text' = <<>> /\ room' = 0 /\ stops' = {}

Next == Begin \/ Generate \/ End

Spec == Init /\ [][Next]_vars
=============================================================================
