-------------------------------- MODULE Chat --------------------------------
(***************************************************************************)
(* The chat REPL: chat_run and chat_resize of src/cli/k3_run.c, the        *)
(* transcript of src/chat/k3_chat.c and the prefix record of               *)
(* src/chat/k3_prefix.h.  With --incremental a turn leaves its KV rows and *)
(* recurrent state behind, and the next turn prefills only what is new if  *)
(* the rendered transcript begins with the ids that state was fed.         *)
(*                                                                         *)
(* Messages are the ids their text encodes to.  The ids the model draws    *)
(* may spell the same text differently, so that the transcript renders to  *)
(* other ids than the state was fed.  As in Decode, the recurrent state is *)
(* the ids it absorbed, a KV row is the ids absorbed when it was written,  *)
(* and the model answers with anything when the two disagree.  The history *)
(* file is replaced at once (a temporary file, fsync, rename).             *)
(***************************************************************************)
EXTENDS Integers, SequencesExt

CONSTANTS
    Answer(_, _),    \* the id drawn after a context, by a stream
    Reencode(_),     \* the ids of the text that some ids spell
    Tok, Ctl,        \* text ids; control ids, the markers and ends among them
    Open, Ends,      \* role -> the id that opens its message; ends of a turn
    Said, Systems,   \* what users say; --system texts
    Modes,           \* option sets: [incremental, ultra, path, gen]
    NL,              \* layers
    MAX_PROMPT, MAX_GEN,
    MaxLaunches, MaxSaid     \* bounds: processes started, messages typed

Eom == CHOOSE e \in Ends : TRUE      \* the end a rendered message carries
Roles == {"system", "user", "assistant"}
Ids == Tok \cup Ctl

ASSUME ChatAssumption ==
    /\ Tok \cap Ctl = {} /\ Ends \subseteq Ctl /\ Ends # {}
    /\ Open \in [Roles -> Ctl \ Ends]
    /\ Said \subseteq Seq(Tok) /\ Systems \subseteq Seq(Tok)
    /\ \A s \in Said : Reencode(s) = s
    /\ \A s \in BoundedSeq(Tok, MAX_GEN) : Reencode(s) \in Seq(Tok)
    /\ NL \in Nat \ {0} /\ MAX_PROMPT \in Nat /\ MAX_GEN \in Nat
    /\ \A m \in Modes : /\ m.incremental \in BOOLEAN /\ m.ultra \in BOOLEAN
                        /\ m.path \in BOOLEAN /\ m.gen \in 1 .. MAX_GEN
    /\ MaxLaunches \in Nat /\ MaxSaid \in Nat

VARIABLES
    pc,
    mode,        \* the options of this process
    history, file,
    prompt,      \* the rendered ids of this turn
    seq,         \* the prompt and the ids drawn; T is its length
    tmax,        \* positions the buffers hold; 0 before the model is set up
    ks, kvc, cached,
    fed,         \* the record's ids, or NoRecord
    turn,        \* assistant turns so far
    cleared,     \* layers of recurrent state cleared at the last reset
    launches, said

talk  == <<history, file>>
exact == <<ks, kvc, cached>>
vars  == <<pc, mode, talk, prompt, seq, tmax, exact, fed, turn, cleared, launches, said>>

NoRecord == <<-1>>       \* p->fed = NULL
T  == Len(seq)
np == Len(prompt)
gen == mode.gen
user(u)      == [role |-> "user", ids |-> u]
system(s)    == [role |-> "system", ids |-> s]
assistant(a) == [role |-> "assistant", ids |-> a]
Awaits(h)    == h # <<>> /\ h[Len(h)].role = "user"

(* k3_chat_history_reset: the system message alone is kept.                 *)
Opening(h) == IF h # <<>> /\ h[1].role = "system" THEN <<h[1]>> ELSE <<>>

(* k3_chat_render_opts and k3_chat_encode. *)
Render(h) ==
    LET ids[i \in 0 .. Len(h)] ==
            IF i = 0 THEN <<>>
            ELSE ids[i - 1] \o <<Open[h[i].role]>> \o h[i].ids \o <<Eom>>
    IN Append(ids[Len(h)], Open["assistant"])

Renders(h) == Len(Render(h)) <= MAX_PROMPT

(* k3_chat_history_validate: a system message first if at all, users and    *)
(* assistants in turn.                                                      *)
Valid(h) ==
    \A i \in 1 .. Len(h) :
        LET first == IF h[1].role = "system" THEN 2 ELSE 1 IN
        IF h[i].role = "system" THEN i = 1
        ELSE h[i].role = IF (i - first) % 2 = 0 THEN "user" ELSE "assistant"

Assistants(h) == Cardinality({i \in 1 .. Len(h) : h[i].role = "assistant"})

Init ==
    /\ pc = "off" /\ mode \in Modes
    /\ history = <<>> /\ file = <<>> /\ prompt = <<>> /\ seq = <<>>
    /\ tmax = 0 /\ ks = <<>> /\ kvc = <<>> /\ cached = 0
    /\ fed = NoRecord /\ turn = 0 /\ cleared = 0 /\ launches = 0 /\ said = 0

(* The process ends, however it ends; the history file outlives it. *)
Exit ==
    /\ pc # "off" /\ pc' = "off"
    /\ history' = <<>> /\ prompt' = <<>> /\ seq' = <<>>
    /\ tmax' = 0 /\ ks' = <<>> /\ kvc' = <<>> /\ cached' = 0
    /\ fed' = NoRecord /\ turn' = 0 /\ cleared' = 0
    /\ UNCHANGED <<mode, file, launches, said>>

Loaded == file

(* The history file is read and its system message compared with --system,  *)
(* or supplied by it, and stored at once.                                   *)
Launch ==
    /\ pc = "off" /\ launches < MaxLaunches
    /\ mode' \in Modes
    /\ \E given \in {<<>>} \cup {<<system(s)>> : s \in Systems} :
          LET had == IF mode'.path THEN Loaded ELSE <<>> IN
          /\ Valid(had)
          /\ had # <<>> /\ given # <<>> => had[1] = given[1]
          /\ history' = IF had = <<>> THEN given ELSE had
    /\ file' = IF mode'.path THEN history' ELSE file
    /\ pc' = "read" /\ launches' = launches + 1
    /\ UNCHANGED <<prompt, seq, tmax, exact, fed, turn, cleared, said>>

-----------------------------------------------------------------------------
(* The input loops. *)

(* A transcript that ends in a user turn is answered without asking. *)
Resumes ==
    /\ pc = "read" /\ Awaits(history) /\ Renders(history)
    /\ prompt' = Render(history)
    /\ pc' = "save"
    /\ UNCHANGED <<mode, talk, seq, tmax, exact, fed, turn, cleared, launches, said>>

Says(u) ==
    /\ pc = "read" /\ ~Awaits(history) /\ said < MaxSaid
    /\ Renders(Append(history, user(u)))
    /\ history' = Append(history, user(u))
    /\ prompt' = Render(history')
    /\ pc' = "save" /\ said' = said + 1
    /\ UNCHANGED <<mode, file, seq, tmax, exact, fed, turn, cleared, launches>>

(* Mutant: the refused message stays in the transcript. *)
Withdrawn_Not(u) == Append(history, user(u))
Withdrawn(u) == history

(* A message that makes the transcript too long is taken back; the first    *)
(* one of a process ends it instead (Exit).                                 *)
TooLong(u) ==
    /\ pc = "read" /\ ~Awaits(history) /\ tmax > 0 /\ said < MaxSaid
    /\ ~Renders(Append(history, user(u)))
    /\ history' = Withdrawn(u)
    /\ said' = said + 1
    /\ UNCHANGED <<pc, mode, file, prompt, seq, tmax, exact, fed, turn, cleared, launches>>

(* /reset keeps the system message; the record and the state stay.          *)
Resets ==
    /\ pc = "read" /\ ~Awaits(history)
    /\ history' = Opening(history)
    /\ pc' = "save"
    /\ UNCHANGED <<mode, file, prompt, seq, tmax, exact, fed, turn, cleared, launches, said>>

(* k3_chat_history_save, after a message, an answer or a reset.             *)
Saves ==
    /\ pc = "save"
    /\ file' = IF mode.path THEN history ELSE file
    /\ pc' = IF Awaits(history) THEN "turn" ELSE "read"
    /\ UNCHANGED <<mode, history, prompt, seq, tmax, exact, fed, turn, cleared, launches, said>>

-----------------------------------------------------------------------------
(* A turn begins. *)

need_NoGen == np + 1     \* mutant
need == np + gen + 1

(* The buffers of main(), sized for the first prompt; the record may fail   *)
(* to be allocated.                                                         *)
SetsUp ==
    /\ pc = "turn" /\ tmax = 0
    /\ need <= MAX_PROMPT + MAX_GEN
    /\ tmax' = need
    /\ fed' \in IF mode.incremental THEN {<<>>, NoRecord} ELSE {NoRecord}
    /\ turn' = Assistants(history)
    /\ UNCHANGED <<pc, mode, talk, prompt, seq, exact, cleared, launches, said>>

(* Mutant: growing forgets the record. *)
Kept_Nothing == <<>>
(* k3_prefix_grow: the record of the positions the copied cache still has.  *)
Kept == IF fed = NoRecord THEN <<>> ELSE SubSeq(fed, 1, Min({cached, Len(fed)}))

(* The record after chat_resize: kept, or lost for want of memory.          *)
Regrown ==
    IF need > tmax /\ mode.incremental THEN {Kept, NoRecord} ELSE {fed}

(* Mutant: any shorter record will do. *)
Reusable_ByLength(record) == record # NoRecord /\ 0 < Len(record) /\ Len(record) < np
(* k3_prefix_reuse: all the record, if the prompt goes on from it.          *)
Reusable(record) ==
    /\ record # NoRecord /\ 0 < Len(record) /\ Len(record) < np
    /\ SubSeq(prompt, 1, Len(record)) = record

state_layers == IF mode.ultra /\ ~mode.incremental THEN 1 ELSE NL

Begins ==
    /\ pc = "turn" /\ tmax > 0
    /\ need <= MAX_PROMPT + MAX_GEN
    /\ tmax' = Max({need, tmax})
    /\ seq' = prompt
    /\ \E record \in Regrown :
          IF mode.incremental /\ Reusable(record) /\ Len(record) = cached
          THEN fed' = record /\ UNCHANGED <<exact, cleared>>
          ELSE /\ fed' = IF record = NoRecord THEN NoRecord ELSE <<>>
               /\ ks' = <<>> /\ kvc' = <<>> /\ cached' = 0
               /\ cleared' = NL
    /\ pc' = "feed"
    /\ UNCHANGED <<mode, talk, prompt, turn, launches, said>>

-----------------------------------------------------------------------------
(* The steps of a turn. *)

(* The ids fed: what the state lacks of the prompt, then the id just drawn. *)
from == IF T = np THEN cached ELSE T - 1
Fed == SubSeq(seq, from + 1, T)

Coherent ==
    /\ Len(ks) = cached
    /\ \A i \in 1 .. cached : kvc[i] = SubSeq(ks, 1, i)

(* The state is rebuilt from nothing, or taken up where it was left.        *)
Draws(id) ==
    IF ~mode.incremental THEN id = Answer(seq, turn + 1)
    ELSE IF Coherent THEN id = Answer(ks \o Fed, turn + 1) ELSE id \in Ids

(* Mutant: the record is the length the REPL would compute. *)
Recorded_Drawn == SubSeq(seq', 1, T + 1)
(* k3_prefix_record at position from: dropped if it would not fit or skip.  *)
Recorded ==
    IF fed = NoRecord THEN NoRecord
    ELSE IF T > tmax \/ from > Len(fed) THEN <<>>
    ELSE SubSeq(fed, 1, from) \o Fed

Feeds ==
    /\ pc = "feed"
    /\ \E id \in Ids :
          /\ Draws(id)
          /\ seq' = Append(seq, id)
          /\ pc' = IF id \in Ends \/ T + 1 = np + gen THEN "drawn" ELSE "feed"
    /\ IF mode.incremental
       THEN /\ ks' = ks \o Fed
            /\ kvc' = [i \in 1 .. cached + Len(Fed) |->
                          IF i <= cached THEN kvc[i] ELSE ks \o SubSeq(Fed, 1, i - cached)]
            /\ cached' = cached + Len(Fed)
            /\ fed' = Recorded
       ELSE UNCHANGED <<exact, fed>>
    /\ UNCHANGED <<mode, talk, prompt, tmax, turn, cleared, launches, said>>

(* k3_chat_parse_assistant_opts: the turn has ended, and no control id is   *)
(* in its text.  Otherwise the process ends (Exit).                         *)
raw == SubSeq(seq, np + 1, T - 1)

Answers ==
    /\ pc = "drawn"
    /\ seq[T] \in Ends /\ raw \in Seq(Tok)
    /\ history' = Append(history, assistant(Reencode(raw)))
    /\ turn' = turn + 1
    /\ pc' = "save"
    /\ UNCHANGED <<mode, file, prompt, seq, tmax, exact, fed, cleared, launches, said>>

Next ==
    \/ Launch \/ Resumes \/ (\E u \in Said : Says(u) \/ TooLong(u)) \/ Resets \/ Saves
    \/ SetsUp \/ Begins \/ Feeds \/ Answers \/ Exit

Spec == Init /\ [][Next]_vars

-----------------------------------------------------------------------------
(* Properties *)

Messages == [role : Roles, ids : Seq(Tok)]

(* Type correctness, the alternation of the transcript and the bounds of    *)
(* the buffers: rows beyond tmax would be written past the KV cache.        *)
TypeOK ==
    /\ pc \in {"off", "read", "save", "turn", "feed", "drawn"} /\ mode \in Modes
    /\ history \in Seq(Messages) /\ Valid(history)
    /\ file \in Seq(Messages) /\ Valid(file)
    /\ prompt \in Seq(Ids) /\ seq \in Seq(Ids)
    /\ tmax \in 0 .. MAX_PROMPT + MAX_GEN
    /\ ks \in Seq(Ids) /\ cached = Len(kvc) /\ cached <= tmax
    /\ fed \in Seq(Ids) \cup {NoRecord}
    /\ turn \in Nat /\ cleared \in 0 .. NL
    /\ launches \in 0 .. MaxLaunches /\ said \in 0 .. MaxSaid

(* The invariant of k3_prefix.h: "fed[0..len) are exactly the token ids the *)
(* current state was built from, in position order".                        *)
RecordIsState ==
    fed \notin {NoRecord, <<>>} =>
        /\ fed = ks /\ Len(fed) = cached
        /\ \A i \in 1 .. cached : kvc[i] = SubSeq(fed, 1, i)

(* Whenever the REPL asks for a line, the history file holds the            *)
(* conversation, so that leaving or a crash loses nothing that was said.    *)
FileIsHistory == (pc = "read" /\ mode.path) => file = history

(* A turn whose prompt goes on from what the state was fed prefills the new *)
(* tail alone, also when the buffers have to grow for it.                   *)
ReusesTail ==
    [][(/\ pc = "turn" /\ pc' = "feed" /\ fed' # NoRecord
        /\ fed # NoRecord /\ fed = ks /\ cached > 0 /\ cached < np
        /\ SubSeq(prompt, 1, cached) = ks) => cached' = cached]_vars

(* "one state slot": what a reset clears was allocated.                     *)
ClearFits == cleared <= state_layers

(* An answer is a function of the transcript, whatever was reused.          *)
Talk == INSTANCE Conversation WITH
    live <- pc # "off", transcript <- history, stored <- file,
    MaxGen <- MAX_GEN, MaxStream <- MaxSaid + 1
KeepsConversation == Talk!Spec
=============================================================================
