---------------------------- MODULE Conversation ----------------------------
(***************************************************************************)
(* What the chat REPL promises whoever talks to it: an assistant turn is a *)
(* function of the transcript it answers (and of the number of its sampler *)
(* stream), whatever state the engine carried over from earlier turns, and *)
(* the history file holds a transcript the conversation has had.           *)
(***************************************************************************)
EXTENDS Integers, SequencesExt

CONSTANTS
    Answer(_, _),    \* the id drawn after a context, by a stream
    Render(_),       \* the ids of a transcript, up to the open assistant turn
    Reencode(_),     \* the ids of the text that some ids spell
    Ends,            \* the ids that end a turn
    Said, Systems,   \* what users say; system texts
    MaxGen, MaxStream

VARIABLES
    live,        \* a REPL is running
    transcript,
    stored       \* the history file

vars == <<live, transcript, stored>>

user(u)      == [role |-> "user", ids |-> u]
system(s)    == [role |-> "system", ids |-> s]
assistant(a) == [role |-> "assistant", ids |-> a]
Awaits(h)    == h # <<>> /\ h[Len(h)].role = "user"

Answered(h)  == Cardinality({i \in 1 .. Len(h) : h[i].role = "assistant"})

(* The part /reset keeps. *)
Opening(h) == IF h # <<>> /\ h[1].role = "system" THEN <<h[1]>> ELSE <<>>

(* The context after n draws, or after the end id if that came earlier.     *)
Grown(h, stream, n) ==
    LET after[i \in 0 .. n] ==
            IF i = 0 THEN Render(h)
            ELSE LET c == after[i - 1]
                 IN IF c[Len(c)] \in Ends /\ i > 1 THEN c
                    ELSE Append(c, Answer(c, stream))
    IN after[n]

(* The answer without its end id, as its text is stored. *)
Reply(h, stream) ==
    LET c == Grown(h, stream, MaxGen)
    IN Reencode(SubSeq(c, Len(Render(h)) + 1, Len(c) - 1))

Init == live = FALSE /\ transcript = <<>> /\ stored = <<>>

Begin ==
    /\ ~live /\ live' = TRUE
    /\ transcript' \in {<<>>, stored} \cup {<<system(s)>> : s \in Systems}
    /\ stored' \in {stored} \cup {h \in {transcript'} : IsPrefix(stored, h)}

Ask ==
    /\ live /\ ~Awaits(transcript)
    /\ \E u \in Said : transcript' = Append(transcript, user(u))
    /\ UNCHANGED <<live, stored>>

Replies ==
    /\ live /\ Awaits(transcript)
    /\ \E stream \in Answered(transcript) + 1 .. MaxStream :
          transcript' = Append(transcript, assistant(Reply(transcript, stream)))
    /\ UNCHANGED <<live, stored>>

Reset ==
    /\ live /\ ~Awaits(transcript)
    /\ transcript' = Opening(transcript)
    /\ UNCHANGED <<live, stored>>

(* What is stored only grows, but for a reset. *)
Store ==
    /\ live /\ (IsPrefix(stored, transcript) \/ transcript = Opening(stored))
    /\ stored' = transcript /\ UNCHANGED <<live, transcript>>

Close == live /\ live' = FALSE /\ transcript' = <<>> /\ UNCHANGED stored

Next == Begin \/ Ask \/ Replies \/ Reset \/ Store \/ Close

Spec == Init /\ [][Next]_vars
=============================================================================
