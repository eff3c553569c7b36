----------------------------- MODULE NGramDraft -----------------------------
(***************************************************************************)
(* spec_draft of src/cli/k3_run.c: the tokens --spec proposes, read off an *)
(* earlier occurrence of the n-gram the sequence ends with.  Positions     *)
(* count from 0 as in the code; seq is a TLA+ sequence, so position j is   *)
(* seq[j + 1].                                                             *)
(***************************************************************************)
EXTENDS Integers, Sequences, FiniteSetsExt

(* Where the last n tokens of seq[0 .. T) occurred before. *)
Matches(seq, T, n) ==
    {j \in 0 .. T - n - 1 : \A i \in 1 .. n : seq[j + i] = seq[T - n + i]}

(* Mutant: the older occurrence is not asked. *)
Agree_Unasked(seq, n, older, newer, i) == TRUE

(* The i-th token after the older occurrence confirms the one after the     *)
(* newer; it must lie before the newer occurrence begins.                   *)
Agree(seq, n, older, newer, i) ==
    /\ older + n + i < newer
    /\ seq[older + n + i + 1] = seq[newer + n + i + 1]

(* The len tokens from position from on; mutant: from the one before. *)
Follows_Early(seq, from, len) == SubSeq(seq, from, from + len - 1)
Follows(seq, from, len) == SubSeq(seq, from + 1, from + len)

(* What followed the most recent occurrence, as far as the one before it    *)
(* agrees, and at most cap tokens of it.  The search ends at the second     *)
(* match: occurrences older than these two are not asked, although the      *)
(* comment in spec_draft says that every one must propose the same next id. *)
Continuation(seq, T, n, cap) ==
    LET M == Matches(seq, T, n) IN
    IF M = {} THEN <<>>
    ELSE LET newer == Max(M)
             older == M \ {newer}
             Confirmed(k) == older = {} \/
                 \A i \in 0 .. k - 1 : Agree(seq, n, Max(older), newer, i)
             len == Max({k \in 0 .. cap : newer + n + k <= T /\ Confirmed(k)})
         IN Follows(seq, newer + n, len)

(* Four tokens are matched before three are. *)
spec_draft(seq, T, cap) ==
    LET long == Continuation(seq, T, 4, cap) IN
    IF long # <<>> THEN long ELSE Continuation(seq, T, 3, cap)

-----------------------------------------------------------------------------
(* What a proposal has to be, stated on subsequences: at most cap tokens,   *)
(* all of which lie in the sequence; what followed the latest earlier       *)
(* occurrence of the last four tokens or, when those propose nothing, of    *)
(* the last three; what followed the occurrence before the latest as well,  *)
(* if there is one, whatever followed any older one; and as many as fit     *)
(* where the last four occurred once before.                                *)
Before(seq, n) ==
    LET T == Len(seq) IN
    {j \in 0 .. T - n - 1 : SubSeq(seq, j + 1, j + n) = SubSeq(seq, T - n + 1, T)}

Backed(seq, n, draft) ==
    LET From(j) == SubSeq(seq, j + n + 1, j + n + Len(draft))
        latest == Max(Before(seq, n))
        rest == Before(seq, n) \ {latest}
    IN /\ latest + n + Len(draft) <= Len(seq)
       /\ draft = From(latest)
       /\ rest # {} => draft = From(Max(rest))

Follow(seq, cap, draft) ==
    /\ Len(draft) <= cap
    /\ draft # <<>> => \E n \in {3, 4} : Before(seq, n) # {} /\ Backed(seq, n, draft)
    /\ \A j \in Before(seq, 4) : Before(seq, 4) = {j} =>
          Len(draft) = Min({cap, Len(seq) - (j + 4)})
=============================================================================
