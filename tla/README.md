# A TLA+ model of the kimi-k3-in-c engine

This directory specifies the parts of the engine under `src/` whose correctness
hangs on the order in which things happen or on bookkeeping that no test sees
whole: the streaming trunk, the expert cache, the expert reads, the config, the
binding of weights, the forward pass with the states it carries, the decode
loop with its two kinds of speculation, the sampler, the state file, the chat
REPL and the memory plan. Line numbers refer to the files
of the repository (`k3_trunk.c` is `src/io/k3_trunk.c`, and so on).

    tlc -config TrunkRing_walk.cfg MCTrunkRing        # one run
    tlapm TrunkRingProofs.tla                         # one proof module

## 1. The system

A forward pass walks 93 layers. Almost none of the model is in RAM: the trunk
(attention, norms, dense parts) is a packed file read layer by layer through a
small ring, the routed experts are 17.5 MB each and come out of safetensors
shards through an LRU cache, and the recurrent state and KV rows of a
conversation are carried from token to token, from turn to turn and, through a
file, from process to process.

| part | state | operations | what makes it hard | correct when |
|---|---|---|---|---|
| trunk ring, `k3_trunk.c` | `layer_of`, `slot_of`, `pending`, `held`, the queue, one reader thread, two condition variables | fetch, prefetch, reader loop, close | two threads, one mutex, reads outside it; eviction, failed reads, close at any time | the caller computes on its layer's bytes; maps agree; nobody sleeps for ever |
| trunk sizing, `k3_trunk.c` | pinned set, ring length, slot bytes | the loop of `k3_trunk_open` | two quantities that depend on each other, cut off after eight passes | a slot holds every layer that streams; the budget is kept |
| expert cache, `k3_cache.c` | `key_of`, `slot_of`, LRU ranks, pins, in-flight marks | get, getmany, prefetch, pin, unpin | concurrent reads of a batch that come back short; eviction within a batch | a get serves the expert asked for; no two reads share a buffer |
| shard index and expert reads, `k3_st.c`, `k3_load.c` | span tables, hash table; a batch's work items | open, find, expert layout, O_DIRECT window, chunks | adjacency of spans, alignment slack, capped work arrays, short reads | each byte has one owner; what is served is the expert |
| decode loop, `k3_run.c` | sequence, recurrent state, KV rows, the draft model's copies, snapshots | plain step, n-gram and draft-trunk sweeps, verify, replay, resync, save, resume | state that cannot be rolled back, only restored and replayed; stop ids and Ctrl-C inside a sweep | the tokens are those of serial greedy decoding; a saved state is that of its sequence |
| config, `k3_cfg.h` | none | `k3_cfg_load` | three scopes, synonyms, defaults, a one-based layer list | what loads is the config meant; what is not whole is refused |
| binding, `k3_bind.c` | per layer: where each tensor lies, in which format | plan, resident bind with a redo at fp32, packed bind with a widen area | one format tag for many tensors; an area sized by one function and filled by another | a kernel reads each tensor in the format it has; copies lie apart and inside |
| forward pass, `k3_run.c`, `k3_ops.c` | residual, block snapshots, recurrent states, KV rows, logits, one work buffer | embed, fetch and bind, attention, dense or MoE (single, batched, draft), rank; snapshot, rewind, clear | state carried over feeds of any length, batching, streaming, slots shared by layers, a read lost in mid-pass | a pass that ends well answers as the model would on the whole text |
| sampler, `k3_sampler.c` | the generator | sort, top-k, top-p, draw | ties, an empty nucleus, rounding at its end | what is drawn is what the options keep |
| n-gram drafts, `k3_run.c` | none | `spec_draft` | window arithmetic | a draft is what followed the latest occurrence and the one before |
| state file, `k3_state.c` | the file, its temporary, a peeked header | save, peek, load | crash, power cut, a second saver, replacement between peek and load, damage | the path is a complete file at every instant; a load restores one image or refuses |
| chat, `k3_run.c`, `k3_chat.c`, `k3_prefix.h` | transcript, history file, prefix record, buffers that grow | launch, read, turn, answer, reset, exit | re-encoded text differs from the drawn ids; refused messages; a record that outlives its state | reuse never changes an answer; the file is the conversation |
| start-up, `k3_run.c` | budgets, plan, what has been allocated | auto split, limits, memory plan, allocation | a forecast that has to match what is allocated later, elsewhere | what starts was planned for, and what auto chooses is admitted |

Interaction: `forward()` calls `k3_trunk_fetch` and `k3_trunk_prefetch` once
per layer, and the MoE layer hands the cache one batch per layer and then asks
for the experts one by one; a cache miss is a read of `k3_load.c`/`k3_st.c`.
The decode loop and the chat REPL own the carried state and call `forward()`.
`forward()` binds each layer it fetched to the bytes lent to it, and carves its
work areas out of one buffer sized at start-up.
The state file is written by the first and read at start-up; start-up sizes the
ring, the cache and the buffers of all of them. The only threads are the
trunk's reader and the OpenMP workers of one batch of expert reads; the other
interleavings are between processes (state file, history file) and signals.

`PROJECT.json` lists every component, the ones not modelled too, and the
hazards of the code line by line with the properties aimed at them.

## 2. The modules

| module | models | kind |
|---|---|---|
| `TrunkRing` | fetch, prefetch, reader and close of `k3_trunk.c` | state machine; refines `TrunkSource` |
| `TrunkSource` | what `k3_trunk.h` promises: the loan of a layer | abstract |
| `TrunkRingProofs` | proofs about `TrunkRing` | theorems |
| `TrunkSizing` | the loop of `k3_trunk_open` | state machine, a part of `Startup` |
| `Startup` | `main()` from its flags to the first forward; EXTENDS `TrunkSizing` | state machine |
| `StartupProofs` | proofs about `TrunkSizing` and `Startup` | theorems |
| `ExpertCache` | `k3_cache.c` as `k3_moe` and `moe_prefill_chunk` drive it; refines `ExpertSource` | state machine |
| `ExpertSource` | what `k3.h` promises of an expert source | abstract |
| `Checkpoint` | `k3_st_open`, `k3_st_find` | operators and the opening step |
| `ExpertRead` | expert layout, window, chunks; EXTENDS `Checkpoint` | state machine |
| `ExpertProofs` | proofs about `Checkpoint`, `ExpertRead` and `ExpertCache`, which is why the state machine of `ExpertRead` has names of its own (`ReadSpec`) | theorems |
| `Decode` | the generate loop, drafting, state chaining; refines `SerialDecode` | state machine |
| `SerialDecode` | serial greedy decoding | abstract |
| `NGramDraft` | `spec_draft` | operators; used by `Decode` |
| `Facts` | finite sets of numbers, recursion over 0 .. N, first tokens of a sequence | lemmas the proof modules share |
| `DecodeProofs` | facts about sequences, sweeps and n-gram drafts, and proofs about `Decode` | theorems |
| `Config` | `k3_cfg_load` of `k3_cfg.h` | operators |
| `Binding` | `k3_bind.c`; EXTENDS `Config` | operators |
| `Ops` | the kernels that act on one position, leaf arithmetic uninterpreted | operators |
| `DecoderLayer` | the recurrences, KV rows, routing, batched prefill of `k3_ops.c`; EXTENDS `Ops` | operators |
| `Scratch` | what `k3_ops.c` counts and what its layers reach of the work buffer | operators |
| `Sampler` | `k3_sampler_next` | operators |
| `Forward` | `forward()` and its callers' use of the carried state; composes the five above with `TrunkSource`; refines `ExactModel` | state machine |
| `ExactModel` | the model over a whole text, with nothing carried | abstract |
| `ForwardProofs` | proofs about `Forward`, `DecoderLayer`, `Binding`, `Scratch` and `Sampler`; `Forward` implements `ExactModel` | theorems |
| `StateFile` | `k3_state.c`; refines `StateStore` | state machine |
| `StateStore` | a register that is replaced or not | abstract |
| `StateFileProofs` | proofs about `StateFile` | theorems |
| `Chat` | REPL, transcript, prefix record; refines `Conversation` | state machine |
| `Conversation` | an answer is a function of its transcript | abstract |
| `ChatProofs` | proofs about `Chat` | theorems |
| `MC*` | bounded instances for TLC | |

How state corresponds to code, where it is not by name:

* **Buffers have contents.** In `TrunkRing` and `ExpertCache` a slot's `data`
  is the layer or expert whose bytes it holds, or `Torn` while a read is going
  on or after it failed. A slot served too early, or overwritten under its
  reader, is then visible in the bytes, not only in the bookkeeping. One action
  of `TrunkRing` is one critical section of `tr->io->mu`, or a read that begins
  or ends outside it; spurious wake-ups need no action of their own, because a
  sleeper looks again at the same condition.
* **The carried state is what it was computed from.** In `Decode` and `Chat`
  the recurrent state is the sequence of tokens it absorbed, and a KV row is
  what had been absorbed when it was written. The exact model answers with
  `Greedy` (or `Answer`) of its context while rows and recurrent state tell one
  history, and with anything when they do not. So a wrong restore, a replay of
  one token too many or a stale record cannot go unnoticed. A draft model
  answers with anything at all.
* **Arithmetic is uninterpreted.** In `Forward` a vector is one number and a
  kernel a hash of its name and operands (`Hash` in `MCForward`), so that two
  computations agree when they are the same one: an operand of another layer,
  another position or another format, a missing history, a sum in another order
  gives another number. `ExactModel` states the model position by position and
  layer by layer over a whole text, and `Forward` computes the same through
  carried states, cached rows, chunks, streamed and packed layers. The
  operators of `Ops` (one position, nothing carried) are shared by both: what
  is inside them is taken for granted, what the code does around them is not.
  A weight is `Junk` when a kernel reads it in a format it does not have. Some
  results are zero (`Nil` in `MCForward`): a bias that masks an expert, and what
  a weight of zero is renormalised to, because the router compares with zero.
* **A number of a config counts halves**, so that a document can hold one that
  is not whole and `(int)v->num` has something to cut off (`whole`).
* **A file is what a call left of it.** `StateFile` keeps the parts written
  into the temporary, whether it was forced, what is at the path and what a
  power cut would leave of that. An image is a saver and the number of its save,
  and stands for all that save wrote. FNV-1a is taken to tell two payloads apart:
  one damaged byte always changes it (its steps are bijective), two different
  images are taken to differ. The hash does not cover the header, which can be
  damaged as well: magic, sizes and hash, and the fingerprint, which may then be
  another architecture's (`forged`).
* **A byte is its position.** In `ExpertRead` a slot's byte is the offset in
  the shard it came from; an expert is served right when each of its parts is
  the run of offsets its entry declares.
* **Memory is counted**, in `Startup`, in units of 1/`GB` gigabyte.

Left out of every module: printing, timing, statistics that no property is
about, argument parsing, JSON text, and the leaf arithmetic of the layers.

## 3. The runs

Every property has a mutant: a definition of the module changed the way a bug
would (a dropped broadcast, a slot registered before its read, a plan without
its KV term), which the run then rejects.

| run | states | shows |
|---|---|---|
| `trunk_walk` | 7 layers, walk of 6 (`--layers`), 3 slots, every pinned set that leaves room to claim, 2 passes, 1 failed read | maps, bytes and pending reads agree (`MapsAgree`, `PublishedWhole`, `OneCopy`), hits and misses count the binds and no layer is read twice in a pass (`ReadsOwed`), the loan holds (`KeepsLoan`), fetch and close return (`FetchReturns`, `CloseReturns`) |
| `trunk_stuck` | 3 layers, 2 slots, nothing pinned | a counterexample to `WaiterHasWaker`, see section 6 |
| `cache_batch` | two layers of two experts and one missing from the shards each, 3 slots, lists of three with repeats, any number of them a layer, one short read, up to two pins, single prefetches | each read of a batch has its buffer (`Reservations`), a layer is lent the experts it was routed to, in order, each with its own bytes, and passes over only what could not be read (`KeepsSource`, refinement of `ExpertSource`); with room no batch reads an expert twice (`ReadOnce`); a pinned expert stays (`PinnedStays`) |
| `expert_read` | three tensors anywhere in two shards, declared twice, misdeclared, missing; every stop of every read | one owner per byte (`OneOwner`), the expert is served whole, or lost to a read that failed (`ExpertWhole`) |
| `state_races` | two savers of different architectures, a loader of either, 3 saves, one damaged byte of payload or header, kills and power cuts anywhere | the path is a complete file at every instant (`PathWhole`); a load restores one image whole, of its own architecture, or nothing, unless the fingerprint has rotted into that of the loader (`LoadExact`); refinement of `StateStore` (`KeepsStore`) |
| `decode_modes` | up to three runs chained by the state file, all modes, interrupts, failing forwards, kills | the carried states, the draft model's among them, and the saved ones are those of the sequence (`StateExact`, `SavedExact`), refinement of `SerialDecode` (`KeepsSerial`); an n-gram draft is what followed the latest earlier occurrence and the one before it (`DraftFollows`) |
| `decode_stop` | a stop id inside an accepted draft, then saved | a counterexample to `SavedExact` |
| `forward` | 28 processes over six models of three or four layers, 12 sound and 16 defective, three passes over feeds of one to five tokens, one failed read | refinement of `ExactModel` (`KeepsModel`), carried states and rows are those of the positions absorbed (`CarriesHistory`), no step writes past the work buffer but a dense layer wider than what is counted, and that by no more than the difference (`ScratchHolds`), what is refused or fails had a cause and what is defective never answers (`FailsForCause`), a drawn token is one the options keep (`DrawsKept`) |
| `chat_talk` | three launches, four messages, incremental or not, saving or not | `RecordIsState`, `FileIsHistory`, `ReusesTail`, refinement of `Conversation` (`KeepsConversation`) |
| `chat_ultra` | `--preset ultra` without `--incremental` | a counterexample to `ClearFits` |
| `startup_fit` | every three-layer trunk of page-multiple and other sizes and every budget of a small trunk, requests of all modes, six machines | the ring keeps its budget, fills it and, but for the `Critical` budgets, holds what streams (`RingFits`), what is allocated was planned, to less than a page per pinned layer (`PlanCovers`), what auto chooses is admitted (`AutoAdmitted`) |
| `startup_resume` | a session resumed from a file of six positions | a counterexample to `Covered` |

Why the bounds are enough:

* *Trunk.* Three slots are the least with a slot computed on, one being read
  and one waiting; seven layers with a walk of six leave layers that are packed
  but never walked, and all pinned sets put pinned layers before, between and
  after streaming ones. Two passes are the least in which a pass starts on the
  ring the last one left. `SafePins` are the pinned sets for which
  `RoomToClaim` holds, worked out from the window arithmetic of `upcoming()`;
  the others run into the deadlock `trunk_stuck` shows, which would otherwise
  be the only thing this run reports. Sets with no streaming layer are among
  them.
* *Cache.* Three slots are fewer than the four experts that can be read, so that
  a layer evicts what the other left, and a batch of one, two or three (a list of
  three repeats some) leaves two, one or no slot over. Two layers are the least
  for which it matters that a layer which lost an expert still issues its other
  batches, while no other layer follows (`drops`). With two of three slots
  pinned, one is left to serve a batch. Layers are symmetric
  model values, and so are their experts but for the missing one.
* *State file.* Three saves by two savers are the least in which one saver
  replaces what the other published and is overtaken in turn, between a peek and
  its load too. One byte is what a hash of this kind is there for.
* *Forward.* `Cases` in `MCForward` names the processes: both shapes of
  `config.json`, with numbers that are not whole; resident, streamed, int8 and
  fp32 weights, one matrix of another format; ultra with and without carried
  state, recompute, `--layers`, a draft trunk; and defects of config, checkpoint
  and pack, each of another kind. The first four models have a block boundary at
  every, every second or every third layer, attention first, in the middle and
  last, no, one and two convolution inputs of history, one expert of three, two
  or all, and dimensions with which the scratch of MLA, of KDA and of the experts
  each comes out as the largest (model `B`, `A`, `D`). `E` has a dense layer
  wider than the buffer counts: three positions still fit, five do not. `F` says
  `first_k_dense_replace` -1. In layer 2 all experts but one are masked, so that
  the second choice of a `topk` of two finds none (`NoExpert`); a draft that has
  only that one resident finds no weight to renormalise by. A third of the
  largest logits overflow at their temperature (`Huge`). Chunks of two positions
  make a feed of three end in a chunk of one; feeds of one token are shorter than
  the history of the convolution, feeds of three longer. Three passes are a
  feed, a sweep over a draft and its replay. Expert weights are never resident
  in the model; an expert that is lost is any one of those routed to.
* *Decode.* Three runs: one that saves, one that resumes and saves, one that
  resumes that. Five generated tokens hold two drafted sweeps and a partial
  one. `MixedModes` gives stop ids inside drafts only to runs that do not save;
  `decode_stop` is what happens otherwise.
* *Chat.* Two letters of which a pair merges into one id are the least for
  which re-encoding changes ids. `Sessions` leaves out the one combination
  `chat_ultra` is about.
* *Expert reads.* `ALIGN` is four bytes and shards start at every residue of
  it, so windows begin and end at every offset. `BLOCK = ALIGN` says that a
  transfer that stops does so at a multiple of the alignment or at the end of
  the file. With a smaller `BLOCK` `ExpertWhole` fails: the sum that
  `k3_cache.c:310-313` compares counts bytes before and behind the payload, so
  a hole as small as that slack is not noticed. `ServesWhole` shows that any
  multiple of the alignment will do.
* *Start-up.* The ring can come out shorter than asked for, one slot or none
  beside the pins at twelve explicit budgets; the machines are unknown, too
  small, one that pins in part and ones that hold the trunk, with plans within
  and beyond the limit on each.

`CHECK_DEADLOCK FALSE` stands where the program stops: `decode_*` and `chat_*`
(the last process has ended), `expert_read`, `startup_*` (the run begins or is
refused), `forward` (it is refused, fails, or has no pass left). In `trunk_walk` and `trunk_stuck`
deadlock is checked: a closed ring stutters explicitly.

### Fairness

Only `FairSpec` of `TrunkRing` states any: weak fairness of the main thread's
next step and of the reader's. Both are threads of one process that hold the
mutex for bounded work and otherwise compute, sleep or wait in `pread`; that a
`pread` returns, whole or short, is the one assumption about the outside. A
sleeping thread has no step until it is signalled, so the fairness gives
nothing away: a missing signal shows up as a fetch that never returns (both
liveness mutants drop a signal).

## 4. What is proved

`tlapm` checks the following for every value of the constants, under the named
assumptions of the modules (`TrunkAssumption`: at least one layer and one slot,
a walk no longer than the trunk; `StateFileAssumption`: each saver has an
architecture, and `None` is none of the values it is distinguished from;
`CacheAssumption`: at least one slot, batches of at least one expert, and the
two markers of an empty and a reserved slot are no keys; `DecodeAssumption`:
prompts are not empty, option sets are well formed, and a draft trunk comes with
a draft length; `SizingAssumption` and `StartupAssumption`: sizes are naturals,
there is a layer, a ring has a slot, a gigabyte divides into twentieths and a
chunk is no larger than the weights; `ChatAssumption`: markers are not text,
the end of a message is a marker, and re-encoding text gives text;
`CheckpointAssumption` and `ReadAssumption`: headers are finite and their
offsets integers, an expert has a tensor, sizes are positive, and a batch is no
longer than its arrays; `ForwardAssumption` and `JobsAssumption`: texts are
sequences of ids, and options are as `main()` lets them through).

**`TrunkRingProofs`.** For any number of layers and slots, any pinned set, any
walk length and any failed reads:

* `TypesHold`, `MapsHold`, `WholeHolds`, `CopiesHold`, `ReadsHold`: `TypeOK`,
  `MapsAgree`, `PublishedWhole`, `OneCopy`, `ReadsOwed` are invariants of `Spec`.
* `Refinement`: `Spec => Source!Spec`, the ring implements `TrunkSource`.

None of these is inductive. That a slot registered for a layer is whole says
nothing of a slot about to be registered, so `IInv` adds `SlotOwners`: each
pending slot has one owner among the queue, the reader and the main thread, it
is registered for no layer, and no two owners share one. And that the caller's
bytes stay needs `WalkKnows`: between the return of a fetch and the next call
`held` is the slot of the layer walked. `InvHolds` is `Spec => []IInv`, one
lemma per action, and the parts and the refinement follow from it.

`ReadsOwed` needs a second invariant, `Paced`, on top of `IInv`, which follows
the counters through a fetch. `Counted` gives hits and misses at each place of
the main thread. `Owed` counts for each streaming layer its reads and the one
under way (`Debt`): at most one per pass begun, and for a layer the walk has yet
to reach one less, unless the layer is in the ring or landing there and fewer
than `NSlots` streaming layers lie between it and the walk (`Near`). What makes
this hold is `Crowded`: while the prefetch loop still finds a slot to claim,
the layers it has passed over are all in the ring (`Scanned`), so by the pigeon
hole there are fewer of them than slots, and the layer it asks for is near; and
what a claim evicts is behind the walk or, by the window of `upcoming()`, far.

**`StateFileProofs`.** For any number of savers, images, shapes and parts, with
failing calls, kills, power cuts and damage:

* `TypesHold`, `WholeHolds`, `LoadsExactly`: `TypeOK`, `PathWhole`, `LoadExact`.
* `Refinement`: `Spec => Store!Spec`.

`IInv` adds what each stage of a save has written (`Staged`) and what any file
that was ever published looks like (`Published`): forced, its header and its
body those of its image but for what has rotted. The header a load has peeked is that
of some published file, and the hash in it is compared with the payload read
later, which is why a file replaced between peek and load is refused unless its
payload is the one the header described. That this payload is of the loader's
own architecture is the comparison of fingerprints, and holds as long as no
fingerprint has turned into another (`forged`): the hash would not notice.

**`ExpertProofs`: the cache.** For any layers, experts, number of slots, batch lengths
and pins, with short reads and absent experts:

* `TypesHold`, `ReservationsHold`, `WholeHolds`, `ServesHold`, `PinsHold`:
  `TypeOK`, `Reservations`, `RegisteredWhole`, `ServesAsked` are invariants and
  `PinnedStays` holds of every step.
* `OnceHolds`: `ReadOnce` is an invariant.
* `Refinement`: `Spec => Source!Spec`, the cache implements `ExpertSource`.

`Reservations` is not inductive: it speaks of the batch, and a slot can also be
lost to the eviction of another. `Books` is the part that is inductive together:
the two maps are inverse, a registered slot is whole, the reserved slots are
those of the batch, a finished read is still in its buffer (`ReadsKept`), and a
pinned slot is registered (`PinnedResident`), which is why `pick_victim` never
takes a pinned or a reserved one (`VictimIsFree`). `ServesAsked` follows from
the two maps at a get, and the refinement needs `Paced` besides: no batch is
under way while experts are lent, so their slots cannot change hands. Nothing is
said of when a layer ends: one that lost an expert goes on with its other tokens
and chunks, and only then `forward()` fails (`k3_run.c:532`).

`OnceHolds` has an invariant of its own, `Kept`: last uses are distinct
(`Ranked`), what the layer reserved, loaded or hit is used more recently than
everything else (`Recent`), and an expert of the layer that was read is still
there. When a victim is needed one expert of the batch has no slot yet, so the
layer holds at most `Len(ids) - 1` slots; with the pinned ones that is fewer
than `NSlots`, some slot is neither, and the least recently used unpinned slot
is not one of the layer's. The proof was attempted first for a `ReadOnce` that
did not ask where the loop stands and fails between two layers, where an unpin
makes a layer that did not fit look as if it had; and it shows that
`Len(ids) + Cardinality(pinned) <= NSlots` is enough.

**`DecodeProofs`.** For any exact model, prompts, budgets, option sets, number
of runs chained by a state file, and any proposals of the draft model, with
failing forwards, interrupts and kills:

* `TypesHold`, `StaysExact`, `SavesExact`: `TypeOK` (which bounds the token
  array, the KV cache and the sweeps), `StateExact`, `SavedExact`.
* `Refinement`: `Spec => Serial!Spec`, the tokens are those of serial decoding.

Two hypotheses are stated with each theorem: the exact model answers with
tokens (`Answering`), and no option set that saves its state also drafts and
has stop ids (`SaveStops`), because the code fails `SavedExact` there (the
finding of `decode_stop`). `MixedModes`, with which `decode_modes` runs,
satisfies both. The theorems are about the state at the top of the loop and in
the file; `IInv` says what it is in between. At each place of the loop
(`Places`) the state is exact for the sequence as far as `cached` goes, and
`cached` is one behind the text while a token is pending and level with the
tokens in hand once they are absorbed (`Carried`). The tokens in hand are those
of serial decoding, and all but the last already lie in `seq` behind the text,
where the draft was put (`InHand`), which is why a replay may read them there.
`Lockstep` is the same for the draft model, one token behind its own draft
while it proposes. `Feeds` is the step all of it turns on:
from an exact state, feeding the next tokens of a sequence gives the exact
state of these and the exact answers, and leaves at worst unread rows behind.

`SpecDraftIs` says of `spec_draft`, for every sequence, length and cap, that
what the scan finds is what `Follow` asks of a proposal on subsequences, and
`DraftsRight` makes it `DraftFollows` of the loop. `Follow` says what the code
does: a draft followed the latest earlier occurrence of the n-gram and the one
before that. The comments of `spec_draft` promise something else on two counts.
`k3_run.c:178-181` has "every occurrence must propose the same next id", but the
scan of lines 188-196 ends at the second match, so an n-gram that occurred three
times may be drafted from although its oldest continuation differs; and
line 167 has n-grams of 3, then 2, where the code takes 4, then 3. A draft is
only a proposal, so neither changes the output (`KeepsSerial`).

**`StartupProofs`.** For any number and sizes of layers, any machine and any
request:

* `TypeCorrect`, `PlanCoversAllocation`, `AutoPasses`: `TypeOK`, `PlanCovers`,
  `AutoAdmitted`. `PlainCovered`: a request without resumed state and drafting,
  once admitted, runs in no more than a plan may take, if its ring fits the
  trunk budget and the layers it pins are whole pages (`WholePages`;
  `pack_trunk.py:146` and `int8_trunk.py:97` pad every layer so, the engine
  does not ask it). Otherwise it takes less than a page more per pinned layer:
  line 352 of `k3_trunk.c` counts `nbytes + widen`, lines 381-382 allocate
  whole pages.
* `RingHoldsLayers`: `RingFits`, which leaves out of its first part the
  `Critical` budgets.

The loop of `k3_trunk_open` stops after eight passes at a fixed point or not,
and it need not reach one: when all layers fit, line 337 sizes the slot for the
last layer, and from there slot widths can go round (25, 16, 10, 6, 16, 10, 6
in one trunk). So the argument cannot be about the fixed point. It is
`NarrowerPinsMore`: a narrower ring never streams a larger layer than a wider
one does. So what has to be kept from pass to pass (`Roomy`) is about more than
the slot of the last pass: any slot a layer could ask for, from the present
width on, holds all that streams beside such a ring, and either the wanted ring
of the widest slots is within the budget or the slot is the widest. `Critical`
is the exception: a budget short of a whole number of the widest slots by less
than what such a slot is rounded up by, so that one slot fewer leaves room to
pin the layer it is for.

**`ChatProofs`.** For any tokenizer, model, openings, bounds and conversation:

* `TypesHold`, `RecordHolds`, `FileHolds`: `TypeOK`, `RecordIsState`,
  `FileIsHistory`. `TailReused`: `ReusesTail` holds of every step.
* `Refinement`: `Spec => Talk!Spec`, the REPL implements `Conversation`.

`IInv` says that rows, recurrent state and record name the same ids
(`Carried`), that what a turn waits for is the transcript rendered (`Waiting`),
that what was absorbed begins the sequence and after the first feed only the id
just drawn is missing (`Absorbed`), and that each id drawn is the model's answer
to all before it (`Drawing`). The file is the transcript except while it is
being saved (`Stored`), and the streams of the sampler are numbered beyond the
answers given (`Numbered`). `Conversation` defines the answer by recursion over
its length; the text drawn meets the same recursion step by step, and `Climbs`
of `Facts` carries the agreement up to its end.

**`ExpertProofs`: the reads.** For any directories, names and hash function, any
number of tensors in an expert, any alignment, probe, batch and chunk sizes:

* `ReadTyped`, `IndexOwns`: `TypeOK`, `OneOwner`.
* `ServesWhole`: `ExpertWhole`, where `BLOCK % ALIGN = 0`, that is, where a
  transfer that fails stops on the alignment of the reads or at the end of the
  file. `LosesNothing`: its second half, `NothingLost`, without that.

The hypothesis is about the file system and not about the code: 4096 is the
alignment the code reads with, and a device that gave up in the middle of it
(a disk of 512-byte sectors may) would be believed (section 3). The rest follows from the code. The table always
has a bucket free (`BucketsEnough`, `RoomLeft`), so a probe ends, and the first
end of a name's way does not move while others are entered (`Inserted`); what
is found is therefore what was entered (`FindIs`). The spans in the order of
`cmp_span` leave the cursor at the end of each, which makes them a tiling of
the data (`Tiled`); whether two equal spans come in one order or the other does
not matter. A division gives no chunk beyond the window, covers it, and fits
the work arrays (`TilingIs`). `IInv` says what every finished read has left in
the slot: as many bytes of the window as it reported, from where its chunk
begins (`ChunkRead`), and a chunk that is read later does not reach into them
(`ChunkStep`). `ChunksArrive` is the step that turns on the hypothesis: chunks,
window and stops are multiples of `ALIGN`, so a chunk that fell short within
the file is short by `ALIGN` at least, which is more than the window has behind
the payload, and the sum cannot reach `pad + nbytes`.

**`ForwardProofs`.** For any configs, checkpoints, packs, options and texts,
any kernels, any number of passes and failed reads:

* `TypesHold`, `ScratchHeld`: `TypeOK`, `ScratchHolds` are invariants of `Spec`,
  the second with the dense layer that is wider than counted as the exception it
  names.
* `CauseHeld`: `FailsForCause`, where a checkpoint is good just in case what its
  process binds can be bound (`GoodBinds`).
* `DrawsHeld`: `DrawsKept` holds of every step, where logits can be compared
  (`Comparable`) and probabilities are numbers, that of the best token not zero
  (`Weighable`). Greedy decoding and a best logit that overflows both give the
  first of the best; a draw that finds no memory gives no token.
* `HistoryHeld`: `CarriesHistory`, where the config is the checkpoint's
  (`Described`), packs are even (`Uniform`) and biased scores can be compared
  (`Ordered`).
* `Refinement`: `Spec => KeepsModel`, the engine implements `ExactModel`, under
  these three hypotheses and the two of `DrawsHeld`.

Each of these says, besides, that the config has no negative sizes
(`NaturalSizes`, `first_k_dense_replace` excepted, which may be negative and
then means no dense layer). `k3_cfg_load` asks that of some sizes only, and what
a negative one does to an allocation is not modelled.

`IInv` has four parts. `Ranges` are those of counters, text and positions;
`Loaded` says that the config in hand is what `k3_cfg_load` made of the job's
document; `Walks` that the snapshots taken are those of the blocks begun, of
`attn_res_block` layers each, and that a pass begins where the carried state
ends; `Bound` that each layer behind the walk, and the one it is in, is bound
to what its plan or its pack says (`BoundAs`), and a layer not bound in its
pass yet is as an earlier pass left it.

`TypesHold` turns on how regions are laid one behind another. `ResidentLaidOut`
and `PackedLaidOut` say, for every plan and every list of tensors, that the
regions of what was bound lie apart, aligned and inside the area that
`k3_bind_layer` or `k3_bind_widen_bytes` sized, by recursion over the plan
(`Added`). `ScratchHeld` is arithmetic over the regions that the kernels carve:
each of `MlaFits`, `KdaFits`, `MoeFits` bounds what a kernel reaches by what its
own count of scratch says, and `Scales` and `ReachIs` that a count for `Tmax`
positions covers any feed within them; with the snapshots that `Walks` bounds,
the stack of sources fits (`StackIs`). The dense layer is the one term that no
count has; `DenseReaches` bounds by how much it is missed, and `MlpFits` that it
is not where the pass goes on. `CauseHeld` has `Blamed` as its
invariant, what is refused or failed has a failed read or a bad checkpoint on
record, because binding a layer again is binding it as before (`BindsIs`).
`DrawsHeld` follows `k3_sampler_next`: the order of `sorted` is a ranking of all
ids (`RankIs`), the loop over the nucleus ends at an id that still weighs
something or at the last (`NkIs`, `SearchEnds`), and the token left when the sum
runs out is one of those kept (`DrawnIsKept`).

`HistoryHeld` and `Refinement` equate what passes compute, piece by piece through
buffers, with recursions over the whole text. The kernels come first, each over a
feed of `n` positions behind `b` that were absorbed: `ConvFeeds` and `StepsMeet`
make `KdaChunk`, one call of `k3_kda_layer` gives what the model gives at those
positions and leaves what it has after them (`Hist`); `MlaChunk` says the same of
rows; `PrefillIs` that the batched prefill is the single path, chunk by chunk,
since the list of experts holds each one routed once (`UniqHas`), each writes
its own places (`ContributionsAre`) and a token adds them up in its own order;
`RouterIs` that picking the best `topk` times over is the ranking of the model
(`PodiumIs`, `SearchRanks`), and ends where that has no score left to choose by. `AfterAgrees` is that the model is causal: what it has
at a position goes by the text up to there. It is what makes a cut text or a
longer one worth the same state, and the best token of a beginning that of the
whole pass.

Then the engine. `GotIs` and `TopIs` say that the weights in a kernel's hands are
the checkpoint's, resident, streamed, packed or in ultra mode. `History` is the
invariant: between passes each layer stands for what was absorbed (`Remembers`),
the caller's copy for what had been when it was made (`Saves`), in a pass the
layers behind the walk stand for the whole text and those ahead for what the pass
began with (`Absorbs`), and residuals and snapshots are the model's before this
layer, or in its middle (`Computes`). A copy of the states alone is enough to
rewind, because rows that stand for more positions stand for fewer (`RowsCut`).
`Quiet` says where the caller's copy can be, and that a layer computes with a
loan of its own. `HereIs` is the last step, from residuals to logits.

A recursive function of `ExactModel` is a CHOOSE, of which nothing is known until
one is shown to exist: `StepRuns`, `UniqRuns` and `WalkRuns` do that, by
`Climbs`. Sequences of values without a type are held by `IsSeq`.

Of the hypotheses, `Described` says of jobs that are not draft models that a
config which loads, and whose plan can be bound as the process binds it at its
start, is the one that the model was trained with: a wrong scale or norm epsilon
binds as well as a right one, and nothing in the code could tell. `Uniform` is
the comment of `k3_bind.c:439`, that int8 and other matrices are never mixed in a
packed trunk: the binder takes a layer in which some are for int8 throughout, and
`tools/int8_trunk.py` converts every bf16 matrix. `Ordered` says, as `Comparable`
does of logits, that no biased score is a NaN. All are true of the processes of
`MCForward`, where the scores are hashes. A draft model is only said to answer,
which is all the exact model relies on.

`GoodBinds`, `Comparable` and `Weighable` are hypotheses of their theorems and
true of the instance in `MCForward`: `good` is there the list of defects made on
purpose, and the logits are hashes. `Weighable` is what exp of the distance to
the best logit is, one for the best; `Comparable` says that no logit is a NaN.

The proof corrected the model in one place: `Ends` skipped tensors of no size,
while the code aligns an empty region like any other (`k3_bind.c`), so regions
are now left out only for what is used in place (`Nowhere`).

Induction over the numbers up to a bound is stated in `Facts` with a set in
place of a predicate (`Climbs`), and the recursive functions of the models are
defined over such ranges (`Recursion`). That is how far it goes: the induction
theorems of the library take an operator, which no installed prover can
instantiate.

**Only model-checked.** Liveness of the ring (`FetchReturns`, `CloseReturns`):
fairness and `ENABLED` are beyond the provers.

## 5. What is not modelled

The leaf arithmetic of the kernels: dot products, norms, exponentials, the
quantised matmuls with their row formats, SIMD paths and OpenMP loops over rows
(floating point, out of TLC's reach). `Ops` names each of them, and what it
names, the model and `ExactModel` share: an error inside one of those operators
would not be seen. The tokenizer beyond "re-encoding may differ", flag parsing
and the table of presets, the report on missing tensors (`k3_st.c:644-762`, a
diagnosis that changes nothing but its own once-flag), portable shims, vendored
parsers, Python tools and scripts. In `TrunkRing` the bytes of a layer are one
value; its index and its widening are in `Forward` and `Binding`. `Forward`
takes the trunk as `TrunkSource`, which `TrunkRing` is proved to implement, and
an expert as there or lost; `Startup` takes the
prompt from `--ids` (chat renders its own), and a draft trunk as its whole
budget; `ExpertCache` runs the layers' batches one after another, as the
engine does.

Values no run has: logits and scores that are NaN, a config with negative sizes
that loads, an int8 trunk with a matrix of another format in it (section 6), a
transfer that stops off the alignment (section 3), and what a process does that
has written past its work buffer (`astray`).

## 6. What the runs found

Four properties that the code's own comments state do not hold of it.

* `WaiterHasWaker` (`trunk_stuck`, `k3_trunk.c:680`). At the start of a pass
  every slot may hold a layer that `upcoming()` calls ahead of the walk; with
  no read under way the fetch sleeps and nothing wakes it.
* `SavedExact` (`decode_stop`, `k3_run.c:1963`). A stop id inside an accepted
  draft truncates the sequence, not the state that is saved with it.
* `ClearFits` (`chat_ultra`, `k3_run.c:708`). Chat clears one recurrent state
  per layer where ultra mode allocated one.
* `Covered` (`startup_resume`, `k3_run.c:1423`). The memory plan counts the new
  positions of a resumed session and not the saved ones.

Met while modelling, without a run of their own:

* A pinned layer is charged `nbytes + widen` and a slot that rounded up
  (`k3_trunk.c:352`, `338-340`). At a `Critical` budget the largest layer is
  pinned beside fewer slots though one slot more would not fit, the loop
  alternates until its eighth pass, and it can end on a slot too small for the
  layer it unpinned last, which `load_run_to` then reads past the slot's end:
  nothing compares the two. Without `Critical` in `RingFits` TLC finds it for
  layers of 3, 3 and 8 units, widened by 1, an alignment of 2, three slots and
  a budget of 19: the eighth pass pins nothing and leaves slots of 6. The
  packers pad layers to pages, but the widened tensors of the released model
  are half a page off, so 2048 bytes of budget before each multiple of the
  widest slot are critical. The comment at 308 says the loop "converges rather
  than oscillating"; the proof shows that at all other budgets stopping after
  eight passes is safe without that.
* `--ids` and `--prompt` stop reading at `K3_MAX_PROMPT` ids
  (`k3_run.c:1282`, `1286`), so the refusal at 1335 cannot fire and a longer
  prompt is cut, though the comment at 1318 says "Refuse rather than clamp".
* `--load-state` without `--incremental` is refused at 1547, after the trunk
  and the cache have been loaded.
* `spec_draft` asks the two latest occurrences only (`k3_run.c:186-204`).
* After a pinned layer the prefetcher may have every slot but one outstanding
  (`k3_trunk.c:858-865`): a bound on outstanding reads of one below the ring
  does not hold, and `KeepsLoan` does not need it.
* A prefill chunk that needs more experts than there are slots reads some of
  them twice (`k3_cache.c:183`); `ReadOnce` is about layers that fit.
* `--dump-logits` with `--draft-trunk` dumps the draft's logits
  (`k3_run.c:1826-1833`).
* After `/reset` the turn counter that seeds the sampler goes on, and starts
  from the transcript again after a restart (`k3_run.c:672-674`).
* An int8 draft trunk made from a trunk with an F32 large matrix is bound and
  tagged int8: `k3_bind.c:432` refuses a matrix of another format only where no
  int8 one was seen, though 433-435 and 439-440 say that such a layer is
  refused and the formats never mixed. `Packed8` in `MCForward` packs every
  matrix, as the packer does of a BF16 trunk.
* An int8 matrix is a scale per row and then bytes, so what follows it in a run
  may lie at an odd offset for floats or half words; the model counts bytes and
  does not model alignment faults.
* A packed KDA layer with BF16 convolutions and `dt_bias` would need more room
  than `k3_bind_widen_bytes` counts, and is then refused; the released trunk
  keeps them F32.
* `k3_run.c:450-452` says that `forward()` leaves `logits_last` untouched when
  it fails. With a streamed `lm_head` a read that fails in a later chunk, or at
  a later position, leaves the logits written up to there (`Ranks`); no caller
  reads them.
* The dense path uses its sub-block for `dense_inter` floats (`k3_ops.c:1047`)
  that `k3_layer_scratch` (940-953) does not count. Where attention and the
  experts need less than that, a pass over enough positions writes past the
  buffer: `Spills`, after which nothing is said of the process (`astray`). Model
  `E` does so on a feed of five. `ScratchHolds` excepts this case by name; in the
  released model the dense layer is narrower than what MLA needs for one
  position.
* `k3_cfg_load` refuses no negative size but those it names, and a number that
  is not whole is cut without a word: `num_hidden_layers` of 3.5 is 3, a
  `short_conv_kernel_size` of 0.5 is 0 and refused (`k3_cfg.h:85`).
* Where fewer than `topk` experts have a score above minus infinity, `k3_router`
  fills up with expert 0 at weight zero (`k3_ops.c:463`), so a batch may list one
  expert twice, and reads it though nothing of it is used.
* The check at `k3_run.c:1566-1574` cannot fire: what it asks for is one of the terms
  `k3_layer_scratch` adds up.
* `head_dim` and `num_heads` are looked up in `text_config` before
  `linear_attn_config`, and a layer listed twice in `full_attn_layers` counts
  twice in the check that some KDA layer is left (`k3_cfg.h`).
* `k3_trunk_report` divides by the layers of the model, not by `--layers`, to
  count passes.
* The contribution a lost expert leaves at zero in a MoE layer is never seen:
  the pass fails (`k3_run.c:532`).

## 7. Plan

Done, in this order: 1. `TrunkSource`, `TrunkRing` and their proofs.
2. `StateStore`, `StateFile` and their proofs. 3. `ExpertCache` with
`ExpertSource` and its proofs. 4. `SerialDecode`, `NGramDraft`, `Decode` and their proofs. 5. `Conversation`,
`Chat`. 6. `Checkpoint`, `ExpertRead`. 7. `TrunkSizing`, `Startup`.
8. `Config`, `Binding`, `Ops`, `DecoderLayer`, `Scratch`, `Sampler`,
`ExactModel`, `Forward`.

9. Proofs of `Startup`, `Chat`, `ReadsOwed`, `ReadOnce`, `DraftFollows`,
`Checkpoint` and `ExpertRead`.

10. Proofs of `TypeOK`, `ScratchHolds`, `FailsForCause`, `DrawsKept`,
`CarriesHistory` and `KeepsModel` of `Forward`.

Left: the alignment of packed runs; the report on missing tensors.
