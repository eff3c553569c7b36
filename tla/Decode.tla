------------------------------- MODULE Decode -------------------------------
(***************************************************************************)
(* Incremental greedy decoding, the generate loop of src/cli/k3_run.c, in  *)
(* the three ways it steps: one token, an n-gram draft verified in one     *)
(* sweep (--spec), a draft trunk's proposal verified the same way          *)
(* (--draft-trunk); with stop ids, Ctrl-C, and the state carried from run  *)
(* to run by --save-state and --load-state.                                *)
(*                                                                         *)
(* The carried state is what it was computed from.  The recurrent state ks *)
(* is the tokens it has absorbed, in order: it is updated in place and not *)
(* positional.  A KV row is the tokens the recurrent state had absorbed    *)
(* when the row was written.  The exact model answers with Greedy of its   *)
(* context as long as rows and recurrent state tell the same history, and  *)
(* with anything when they do not.  A draft model answers with anything.   *)
(*                                                                         *)
(* The state file changes at once or not at all: StateFile shows that      *)
(* k3_state_save and k3_state_load do that.                                *)
(***************************************************************************)
EXTENDS Integers, Sequences, NGramDraft

CONSTANTS
    Tok,         \* token ids
    Greedy(_),   \* what the exact model answers after a context
    Prompts,     \* token sequences given on a command line
    Gens,        \* values of --gen
    Modes,       \* option sets: [spec, draft, stops, save]
    MaxRuns,     \* bound: runs started
    MayFail      \* a forward may fail, a run may be killed

Torn == 0        \* what a failed draft forward leaves in the recurrent state

ASSUME DecodeAssumption ==
    /\ Torn \notin Tok
    /\ \A p \in Prompts : p \in Seq(Tok) /\ p # <<>>
    /\ Gens \subseteq Nat /\ MaxRuns \in Nat /\ MayFail \in BOOLEAN
    /\ \A m \in Modes : /\ m.spec \in Nat /\ m.draft \in BOOLEAN
                        /\ m.stops \subseteq Tok /\ m.save \in BOOLEAN
    /\ \A m \in Modes : m.draft => m.spec > 0    \* spec_n defaults to 4

VARIABLES
    pc,          \* "off", or where the loop is
    mode, gen,   \* the run's options
    seq, T,      \* the token array and how much of it is the sequence
    ks,          \* KDA state: the tokens absorbed
    kvc,         \* KV rows
    cached,      \* w.cached
    dks, dcached,       \* the draft model's
    spec_snap, dsnap,   \* snapshots of ks and dks
    d,           \* the draft
    emit,        \* tokens this step yields
    nout,        \* tokens generated
    first,       \* g == 0
    file,        \* the state file, or NoFile
    runs

opts  == <<mode, gen>>
exact == <<ks, kvc, cached>>
draft == <<dks, dcached>>
loop  == <<seq, T, emit, nout, first>>
vars  == <<pc, opts, exact, draft, loop, spec_snap, dsnap, d, file, runs>>

NoFile == [seq |-> <<>>, ks |-> <<>>, kvc |-> <<>>, cached |-> 0]

Tmax == T - nout + gen + 1       \* prior + np + gen + 1
kv_cap == Tmax
base == cached
hit_stop == nout > 0 /\ seq[T] \in mode.stops

-----------------------------------------------------------------------------
(* forward() over the tokens fed, from position at. *)

Upto(s, n) == SubSeq(s, 1, n)
Fed(n) == SubSeq(seq, base + 1, base + n)

(* Rows and recurrent state tell one history. *)
Coherent ==
    /\ Len(ks) = cached
    /\ \A i \in 1 .. cached : kvc[i] = Upto(ks, i)

(* The answers after each of the tokens fed. *)
Answers(fed) ==
    IF Coherent THEN {[i \in 1 .. Len(fed) |-> Greedy(ks \o Upto(fed, i))]}
    ELSE [1 .. Len(fed) -> Tok]

RowsWith(state, at, fed) ==
    Upto(kvc, at) \o [i \in 1 .. Len(fed) |-> state \o Upto(fed, i)]
                  \o SubSeq(kvc, at + Len(fed) + 1, Len(kvc))

Absorbs(state, at, fed) ==
    /\ ks' = state \o fed
    /\ kvc' = RowsWith(state, at, fed)

-----------------------------------------------------------------------------
Init ==
    /\ pc = "off" /\ mode \in Modes /\ gen = 0
    /\ seq = <<>> /\ T = 0 /\ nout = 0 /\ first = TRUE
    /\ ks = <<>> /\ kvc = <<>> /\ cached = 0
    /\ dks = <<>> /\ dcached = 0
    /\ spec_snap = <<>> /\ dsnap = <<>> /\ d = <<>> /\ emit = <<>>
    /\ file = NoFile /\ runs = 0

(* The process ends; only the state file outlives it. *)
Exit ==
    /\ pc' = "off"
    /\ seq' = <<>> /\ T' = 0 /\ nout' = 0 /\ first' = TRUE /\ gen' = 0
    /\ ks' = <<>> /\ kvc' = <<>> /\ cached' = 0
    /\ dks' = <<>> /\ dcached' = 0
    /\ spec_snap' = <<>> /\ dsnap' = <<>> /\ d' = <<>> /\ emit' = <<>>
    /\ UNCHANGED <<mode, runs>>

(* A run starts, on an empty state or on the one of the file: the sequence  *)
(* is the saved one and the prompt given now.  A file whose cache would not *)
(* fit is refused.                                                          *)
Start ==
    /\ pc = "off" /\ runs < MaxRuns
    /\ \E from \in {file, NoFile}, p \in Prompts :
          /\ gen' \in Gens
          /\ from.cached <= Len(from.seq) + Len(p) + gen' + 1
          /\ seq' = from.seq \o p /\ T' = Len(seq')
          /\ ks' = from.ks /\ kvc' = from.kvc /\ cached' = from.cached
    /\ mode' \in Modes
    /\ pc' = "top" /\ runs' = runs + 1
    /\ UNCHANGED <<draft, spec_snap, dsnap, d, emit, nout, first, file>>

(* nout < gen || (incremental && g == 0), and no stop id has come up. *)
GoesOn == pc = "top" /\ (nout < gen \/ first) /\ ~hit_stop

LoopEnds ==
    /\ pc = "top" /\ ~GoesOn
    /\ pc' = "save"
    /\ UNCHANGED <<opts, exact, draft, loop, spec_snap, dsnap, d, file, runs>>

(* Ctrl-C is looked at where the carried state is exact. *)
Interrupted ==
    /\ GoesOn
    /\ pc' = "save"
    /\ UNCHANGED <<opts, exact, draft, loop, spec_snap, dsnap, d, file, runs>>

-----------------------------------------------------------------------------
(* Step 0. *)

(* Mutant: as many tokens as the new prompt has. *)
Unread_OnlyPrompt == IF cached > 0 THEN T - cached - 1 ELSE T

(* The carried pending token and the new prompt. *)
Unread == T - cached

Prefill ==
    /\ GoesOn /\ first /\ Unread > 0
    /\ \E answers \in Answers(Fed(Unread)) : emit' = <<answers[Unread]>>
    /\ Absorbs(ks, base, Fed(Unread))
    /\ cached' = base + Unread
    /\ pc' = IF mode.draft THEN "draftfill" ELSE "emit"
    /\ UNCHANGED <<opts, draft, seq, T, nout, first, spec_snap, dsnap, d, file, runs>>

(* The draft model absorbs the whole sequence, a resumed one from the start.*)
DraftFill ==
    /\ pc = "draftfill"
    /\ dks' = Upto(seq, cached) /\ dcached' = cached
    /\ pc' = "emit"
    /\ UNCHANGED <<opts, exact, loop, spec_snap, dsnap, d, file, runs>>

-----------------------------------------------------------------------------
(* The draft. *)

MaySpeculate_ByOne ==      \* mutant: room for one token too few
    mode.spec > 0 /\ T + mode.spec < Tmax /\ base + mode.spec + 1 <= kv_cap

MaySpeculate ==
    mode.spec > 0 /\ T + mode.spec + 1 < Tmax /\ base + mode.spec + 1 <= kv_cap

NGramProposes ==
    /\ GoesOn /\ ~first /\ MaySpeculate /\ ~mode.draft
    /\ d' = spec_draft(seq, T, mode.spec)
    /\ pc' = IF d' = <<>> THEN "plain" ELSE "verify"
    /\ UNCHANGED <<opts, exact, draft, loop, spec_snap, dsnap, file, runs>>

NoDraft ==
    /\ GoesOn /\ ~first /\ ~MaySpeculate
    /\ d' = <<>>
    /\ pc' = "plain"
    /\ UNCHANGED <<opts, exact, draft, loop, spec_snap, dsnap, file, runs>>

DraftBegins ==
    /\ GoesOn /\ ~first /\ MaySpeculate /\ mode.draft
    /\ dsnap' = dks
    /\ d' = <<>>
    /\ pc' = "draft"
    /\ UNCHANGED <<opts, exact, draft, loop, spec_snap, file, runs>>

(* One step through the draft trunk, on the pending token or on its own     *)
(* last proposal.                                                           *)
Previous == IF d = <<>> THEN seq[base + 1] ELSE d[Len(d)]

DraftSteps ==
    /\ pc = "draft" /\ Len(d) < mode.spec
    /\ dks' = Append(dks, Previous) /\ dcached' = dcached + 1
    /\ \E x \in Tok : d' = Append(d, x)
    /\ UNCHANGED <<pc, opts, exact, loop, spec_snap, dsnap, file, runs>>

DraftEnds ==
    /\ pc = "draft" /\ Len(d) = mode.spec
    /\ pc' = "verify"
    /\ UNCHANGED <<opts, exact, draft, loop, spec_snap, dsnap, d, file, runs>>

(* A draft forward that fails ends the chain, not the run; its recurrent    *)
(* state may have been updated in some layers.                              *)
DraftFails ==
    /\ MayFail
    /\ pc = "draft" /\ Len(d) < mode.spec
    /\ dks' \in {dks, Append(dks, Torn)}
    /\ pc' = IF d = <<>> THEN "plain" ELSE "verify"
    /\ UNCHANGED <<opts, exact, dcached, loop, spec_snap, dsnap, d, file, runs>>

-----------------------------------------------------------------------------
(* One sweep over the pending token and the draft. *)

nd == Len(d)

(* m: the drafted tokens the model itself would have emitted. *)
Accepted(answers) ==
    Max({m \in 0 .. nd : \A i \in 1 .. m : answers[i] = d[i]})

Restored_Not(after) == after     \* mutant: no restore
Restored(after) == spec_snap'

Verify ==
    LET fed == <<seq[base + 1]>> \o d IN
    /\ pc = "verify"
    /\ spec_snap' = ks
    /\ seq' = Upto(seq, T) \o d
    /\ \E answers \in Answers(fed) :
          LET m == Accepted(answers) IN
          /\ emit' = Upto(d, m) \o <<answers[m + 1]>>
          /\ kvc' = RowsWith(ks, base, fed)
          /\ IF m = nd
             THEN /\ ks' = ks \o fed /\ cached' = base + nd + 1
                  /\ pc' = IF mode.draft THEN "resync" ELSE "emit"
             ELSE /\ ks' = Restored(ks \o fed) /\ cached' = base
                  /\ pc' = "replay"
    /\ UNCHANGED <<opts, draft, T, nout, first, dsnap, d, file, runs>>

m == Len(emit) - 1

(* The accepted prefix again, on the restored state. *)
Replay ==
    /\ pc = "replay"
    /\ Absorbs(ks, base, Fed(m + 1))
    /\ cached' = base + m + 1
    /\ pc' = IF mode.draft THEN "resync" ELSE "emit"
    /\ UNCHANGED <<opts, draft, loop, spec_snap, dsnap, d, file, runs>>

(* Mutant: the draft model is not rewound. *)
Rewound_Not == dks
Rewound == dsnap

(* The draft model: the last draft on full acceptance, else the snapshot    *)
(* and the accepted prefix.                                                 *)
Resync ==
    /\ pc = "resync"
    /\ IF m = nd
       THEN dks' = Append(dks, d[nd]) /\ dcached' = dcached + 1
       ELSE /\ dks' = Rewound \o SubSeq(seq, base - m, base)
            /\ dcached' = base
    /\ pc' = "emit"
    /\ UNCHANGED <<opts, exact, loop, spec_snap, dsnap, d, file, runs>>

(* One token, no draft. *)
Plain ==
    /\ pc = "plain"
    /\ \E answers \in Answers(Fed(1)) : emit' = <<answers[1]>>
    /\ Absorbs(ks, base, Fed(1))
    /\ cached' = base + 1
    /\ pc' = IF mode.draft THEN "plaindraft" ELSE "emit"
    /\ UNCHANGED <<opts, draft, seq, T, nout, first, spec_snap, dsnap, d, file, runs>>

(* The draft model kept in lockstep. *)
PlainDraft ==
    /\ pc = "plaindraft"
    /\ dks' = Append(dks, seq[base]) /\ dcached' = base
    /\ pc' = "emit"
    /\ UNCHANGED <<opts, exact, loop, spec_snap, dsnap, d, file, runs>>

-----------------------------------------------------------------------------
(* How many of the emitted tokens become output: up to gen, and up to and   *)
(* with the first stop id.                                                  *)
Taken_PastStop == Min({Len(emit), gen - nout})      \* mutants
Taken_PastGen ==
    Min({Len(emit)} \cup {i \in 1 .. Len(emit) : emit[i] \in mode.stops})
Taken ==
    Min({Len(emit), gen - nout} \cup {i \in 1 .. Len(emit) : emit[i] \in mode.stops})

Emit ==
    /\ pc = "emit"
    /\ seq' = Upto(seq, T) \o Upto(emit, Taken)
    /\ T' = T + Taken
    /\ nout' = nout + Taken
    /\ first' = FALSE
    /\ emit' = <<>> /\ d' = <<>>
    /\ pc' = "top"
    /\ UNCHANGED <<opts, exact, draft, spec_snap, dsnap, file, runs>>

(* The state file is written after the loop, and by nothing else. *)
Saves ==
    /\ pc = "save" /\ mode.save
    /\ file' = [seq |-> Upto(seq, T), ks |-> ks,
                kvc |-> Upto(kvc, cached), cached |-> cached]
    /\ Exit

(* A run without --save-state, or whose save failed; a forward of the exact *)
(* model, or of the draft model outside a proposal, that failed; a kill.    *)
EndsUnsaved ==
    /\ pc # "off"
    /\ pc = "save" \/ MayFail
    /\ Exit
    /\ UNCHANGED file

Next ==
    \/ Start \/ LoopEnds \/ Interrupted
    \/ Prefill \/ DraftFill
    \/ NGramProposes \/ NoDraft \/ DraftBegins \/ DraftSteps \/ DraftEnds \/ DraftFails
    \/ Verify \/ Replay \/ Resync \/ Plain \/ PlainDraft
    \/ Emit \/ Saves \/ EndsUnsaved

Spec == Init /\ [][Next]_vars

-----------------------------------------------------------------------------
(* Properties *)

(* Type correctness, and the bounds of the code's buffers: the token array  *)
(* has prior + np + gen + 8 entries, the KV cache kv_cap rows, and a sweep  *)
(* as many positions as the hidden-state buffer has.                        *)
TypeOK ==
    /\ pc \in {"off", "top", "draftfill", "draft", "verify", "replay", "resync",
               "plain", "plaindraft", "emit", "save"}
    /\ mode \in Modes /\ gen \in Gens \cup {0}
    /\ seq \in Seq(Tok) /\ T \in 0 .. Len(seq)
    /\ Len(seq) <= Tmax + 7
    /\ ks \in Seq(Tok) /\ cached \in 0 .. Len(kvc)
    /\ Len(kvc) <= kv_cap
    /\ dks \in Seq(Tok \cup {Torn}) /\ dcached \in Nat
    /\ spec_snap \in Seq(Tok) /\ dsnap \in Seq(Tok \cup {Torn})
    /\ d \in Seq(Tok) /\ emit \in Seq(Tok)
    /\ nout \in 0 .. gen /\ first \in BOOLEAN
    /\ runs \in 0 .. MaxRuns

(* At the top of the loop, where Ctrl-C is honoured and from where the      *)
(* state is saved, the carried state is the state of the sequence and of    *)
(* nothing else, and exactly the last token is still pending.  Unless a     *)
(* failed forward has torn its state, the draft model has absorbed exactly  *)
(* the same tokens, whatever was rejected.                                  *)
StateExact ==
    pc = "top" /\ ~hit_stop =>
        /\ ks = Upto(seq, cached)
        /\ \A i \in 1 .. cached : kvc[i] = Upto(seq, i)
        /\ first => cached < T
        /\ nout > 0 => cached = T - 1
        /\ mode.draft /\ ~first /\ (\A i \in 1 .. Len(dks) : dks[i] # Torn) =>
              dcached = cached /\ dks = Upto(seq, cached)

(* What a saved state holds is the state of the sequence saved with it, so  *)
(* that feeding the rest of that sequence and the new prompt resumes it.    *)
SavedExact ==
    /\ file.cached <= Len(file.seq)
    /\ file.ks = Upto(file.seq, file.cached)
    /\ \A i \in 1 .. file.cached : file.kvc[i] = Upto(file.seq, i)

(* What --spec proposes followed the latest earlier occurrence of the end   *)
(* of the sequence, and the occurrence before that one as well.  Nothing is *)
(* said of older occurrences: spec_draft looks at the latest two only.      *)
DraftFollows == pc = "verify" /\ ~mode.draft => Follow(Upto(seq, T), mode.spec, d)

(* Speculation, replay, interrupts, failures and resuming leave the tokens  *)
(* and the saved texts those of serial greedy decoding.                     *)
StopSets == {x.stops : x \in Modes}
Serial == INSTANCE SerialDecode WITH
    running <- pc # "off",
    text    <- Upto(seq, T),
    room    <- IF pc # "off" /\ hit_stop THEN 0 ELSE gen - nout,
    stops   <- IF pc = "off" THEN {} ELSE mode.stops,
    stored  <- file.seq
KeepsSerial == Serial!Spec

-----------------------------------------------------------------------------
(* What the proofs need besides: the shape of the loop's state at each of   *)
(* its places.                                                              *)

(* No run that saves its state drafts past a stop id: the runs of finding   *)
(* SavedExact left out.                                                     *)
SaveStops == \A x \in Modes : x.save /\ x.spec > 0 => x.stops = {}

StateTypes ==
    /\ TypeOK
    /\ kvc \in Seq(Seq(Tok))
    /\ file \in [seq : Seq(Tok), ks : Seq(Tok), kvc : Seq(Seq(Tok)), cached : Nat]
    /\ Len(file.kvc) = file.cached

(* One token pending; answers in hand; and all that was fed absorbed.       *)
Pending  == {"plain", "draft", "verify", "replay"}
Absorbed == {"draftfill", "plaindraft", "resync", "emit"}
Answered == Absorbed \cup {"replay"}

Places ==
    /\ pc = "off" => /\ seq = <<>> /\ T = 0 /\ nout = 0 /\ first /\ gen = 0
                     /\ cached = 0 /\ ks = <<>> /\ kvc = <<>>
    /\ pc \in {"off", "top", "plain", "plaindraft", "draftfill"} => d = <<>>
    /\ pc \in {"off", "top"} => emit = <<>>
    /\ pc = "top" /\ first => nout = 0
    /\ pc = "top" /\ ~first => nout > 0 \/ gen = 0
    /\ pc # "off" => T > 0
    /\ pc \in Pending \cup Answered =>
          ~hit_stop /\ (first <=> nout = 0) /\ (nout > 0 => nout < gen)
    /\ pc \in Pending \cup {"resync", "plaindraft"} => ~first
    /\ pc = "draftfill" => first
    /\ pc \in {"draft", "verify"} =>
          /\ mode.spec > 0 /\ nout + mode.spec < gen /\ Len(d) <= mode.spec
          /\ pc = "verify" => d # <<>>
    /\ pc \in {"draft", "draftfill", "resync", "plaindraft"} => mode.draft

(* The exact model's state is that of the first tokens of s.                *)
ExactFor(s) ==
    /\ cached <= Len(s)
    /\ ks = Upto(s, cached)
    /\ \A i \in 1 .. cached : kvc[i] = Upto(s, i)

Carried ==
    /\ pc = "top" /\ (mode.save \/ ~hit_stop) =>
          /\ ExactFor(seq) /\ cached <= T
          /\ first => cached < T
          /\ nout > 0 => cached = T - 1
    /\ pc = "save" /\ mode.save => ExactFor(seq) /\ cached <= T
    /\ pc \in Pending => ExactFor(seq) /\ cached = T - 1
    /\ pc \in Absorbed => ExactFor(seq) /\ cached = T + Len(emit) - 1

(* The tokens in hand are those of serial decoding.  All but the last lie   *)
(* in seq behind the text, where the draft was put.                         *)
InHand ==
    pc \in Answered =>
        /\ emit # <<>>
        /\ Len(emit) = 1 \/ (nout > 0 /\ nout + Len(emit) <= gen /\ mode.spec > 0)
        /\ pc = "plaindraft" => Len(emit) = 1
        /\ \A i \in 1 .. Len(emit) : emit[i] = Greedy(Upto(seq, T) \o Upto(emit, i - 1))
        /\ T + Len(emit) - 1 <= Len(seq)
        /\ \A i \in 1 .. Len(emit) - 1 : seq[T + i] = emit[i]
        /\ pc \in {"replay", "resync"} =>
              /\ Len(seq) = T + Len(d) /\ d # <<>> /\ Len(emit) - 1 <= Len(d)
              /\ \A i \in 1 .. Len(d) : seq[T + i] = d[i]

(* The draft model, as long as no failed forward has torn its state.        *)
Whole(state) == \A i \in 1 .. Len(state) : state[i] # Torn

Swept == Upto(seq, T) \o d

Lockstep ==
    mode.draft =>
        /\ ((pc = "top" /\ ~first /\ ~hit_stop) \/ pc = "emit") /\ Whole(dks) =>
              dcached = cached /\ dks = Upto(seq, cached)
        /\ pc \in {"plain", "plaindraft"} /\ Whole(dks) =>
              dcached = T - 1 /\ dks = Upto(seq, T - 1)
        /\ pc \in {"draft", "verify", "replay", "resync"} =>
              /\ Whole(dks) => dcached = T - 1 + Len(d) /\ dks = Upto(Swept, T - 1 + Len(d))
              /\ Whole(dsnap) => dsnap = Upto(seq, T - 1)

IInv == StateTypes /\ Places /\ Carried /\ InHand /\ SavedExact /\ Lockstep
=============================================================================
