------------------------------ MODULE TrunkRing ------------------------------
(***************************************************************************)
(* The streaming trunk of src/io/k3_trunk.c.  Most layers of the model     *)
(* live on disk; a fixed ring of NSlots buffers holds the few the walk is  *)
(* about to use.  Two threads share the ring under one mutex: the main     *)
(* thread, which calls k3_trunk_fetch and k3_trunk_prefetch from forward() *)
(* in layer order, and one reader, which performs the queued reads.        *)
(*                                                                         *)
(* One action is one critical section, or one event outside the mutex (a   *)
(* read starting or ending).  Buffers have contents: a read in progress    *)
(* leaves its slot Torn, so that a slot served too early or overwritten    *)
(* under the caller shows up in the bytes and not only in the bookkeeping. *)
(***************************************************************************)
EXTENDS Integers, Sequences, FiniteSets

CONSTANTS
    NLayers,     \* layers in trunk.json
    NBound,      \* layers forward() walks (n_bound), at most NLayers
    NSlots,      \* slots of the ring
    PinChoices,  \* the pinned sets k3_trunk_open may have chosen
    MaxPasses,   \* bound: forward passes (tokens) explored
    MaxFails     \* bound: reads that come back short

Layers  == 0 .. NLayers - 1
Slots   == 0 .. NSlots - 1
None    == -1                \* the code's -1: no layer, no slot
Torn    == -2                \* contents no layer wrote completely
Content == Layers \cup {Torn}

ASSUME TrunkAssumption ==
    /\ NLayers \in Nat \ {0}
    /\ NSlots \in Nat \ {0}
    /\ NBound \in 1 .. NLayers
    /\ PinChoices \subseteq SUBSET Layers
    /\ MaxPasses \in Nat \ {0}
    /\ MaxFails \in Nat

running == NSlots >= 2       \* io->running: no reader thread on one slot

VARIABLES
    pinned,      \* {L : pin_of[L] >= 0}, fixed at open
    layer_of,    \* [slot] the layer published in it, or None
    slot_of,     \* [layer] its slot, or None; a pinned layer once read: itself
    ring,        \* next slot a claim tries
    walk,        \* the layer last fetched
    pending,     \* [slot] the layer being read into it, or None
    fresh,       \* [slot] read ahead and not bound yet
    held,        \* the slot the caller uses, or None
    q,           \* queued reads, each a layer and its slot
    stop,        \* set by close
    hits, misses, reads_of,
    data,        \* [slot] the bytes in the ring
    pin,         \* [layer] the bytes in a pinned layer's own buffer
    pc,          \* main thread
    first,       \* `first` of the fetch loop
    mslot,       \* the slot the main thread reads into
    scan,        \* `n` of the prefetch loop
    queued,      \* the prefetch loop queued something
    rpc, job,    \* reader thread, and the queue entry it took
    pass,        \* forward passes completed
    fails        \* reads that came back short

maps   == <<layer_of, slot_of, ring, pending, fresh>>
main   == <<pc, first, mslot, scan, queued>>
reader == <<rpc, job>>
counts == <<hits, misses, reads_of, fails>>
vars   == <<pinned, maps, walk, held, q, stop, counts, data, pin, main, reader, pass>>

NoJob == [layer |-> None, slot |-> None]

Init ==
    /\ pinned \in PinChoices
    /\ layer_of = [s \in Slots |-> None]
    /\ slot_of = [L \in Layers |-> None]
    /\ pending = [s \in Slots |-> None]
    /\ fresh = [s \in Slots |-> FALSE]
    /\ ring = 0 /\ walk = 0 /\ held = None
    /\ q = <<>> /\ stop = FALSE
    /\ hits = 0 /\ misses = 0 /\ reads_of = [L \in Layers |-> 0] /\ fails = 0
    /\ data = [s \in Slots |-> Torn]
    /\ pin = [L \in Layers |-> Torn]
    /\ pc = "call" /\ first = TRUE /\ mslot = None /\ scan = 0 /\ queued = FALSE
    /\ rpc = IF running THEN "look" ELSE "exited"
    /\ job = NoJob
    /\ pass = 0

-----------------------------------------------------------------------------
(* Slot bookkeeping, all of it under the mutex. *)

Streaming(L) == L \notin pinned

(* Mutants of upcoming: distance counted in layer indices, which pinned     *)
(* layers do not consume; and every layer ahead protected.                  *)
upcoming_ByIndex(s)  == layer_of[s] > walk /\ layer_of[s] - walk < NSlots
upcoming_AnyAhead(s) == layer_of[s] > walk

(* upcoming(): the slot holds a layer ahead of the walk with fewer than     *)
(* NSlots streaming layers strictly between the two.                        *)
upcoming(s) ==
    LET L == layer_of[s] IN
    /\ L > walk
    /\ Cardinality({n \in walk + 1 .. L - 1 : Streaming(n)}) < NSlots

(* Mutant of Claimable: the slot the caller uses may be handed out. *)
Claimable_IgnoresHeld(s) == pending[s] = None /\ ~upcoming(s)

(* The slots claim_slot_locked does not pass over. *)
Claimable(s) ==
    /\ pending[s] = None
    /\ s # held
    /\ ~upcoming(s)

(* The first claimable slot in ring order is the one a claim takes. *)
IsClaimed(s) ==
    \E i \in 0 .. NSlots - 1 :
        /\ s = (ring + i) % NSlots
        /\ Claimable(s)
        /\ \A j \in 0 .. i - 1 : ~Claimable((ring + j) % NSlots)

NoneClaimable == \A s \in Slots : ~Claimable(s)

(* Mutants of claim_slot: the evicted layer keeps its entry; the claim      *)
(* registers the layer before its bytes are there; ring not wrapped.        *)
claim_slot_KeepsEntry(s, L) ==
    /\ ring' = (s + 1) % NSlots
    /\ layer_of' = [layer_of EXCEPT ![s] = None]
    /\ fresh' = [fresh EXCEPT ![s] = FALSE]
    /\ pending' = [pending EXCEPT ![s] = L]
    /\ UNCHANGED slot_of

claim_slot_RegistersEarly(s, L) ==
    /\ ring' = (s + 1) % NSlots
    /\ layer_of' = [layer_of EXCEPT ![s] = L]
    /\ fresh' = [fresh EXCEPT ![s] = FALSE]
    /\ pending' = [pending EXCEPT ![s] = L]
    /\ slot_of' = [n \in Layers |-> CASE n = L -> s
                                     [] layer_of[s] = n -> None
                                     [] OTHER -> slot_of[n]]

claim_slot_NoWrap(s, L) ==
    /\ ring' = s + 1
    /\ slot_of' = [n \in Layers |-> IF layer_of[s] = n THEN None ELSE slot_of[n]]
    /\ layer_of' = [layer_of EXCEPT ![s] = None]
    /\ fresh' = [fresh EXCEPT ![s] = FALSE]
    /\ pending' = [pending EXCEPT ![s] = L]

(* claim_slot_locked: evict, empty the slot, and mark layer L as landing. *)
claim_slot(s, L) ==
    /\ ring' = (s + 1) % NSlots
    /\ slot_of' = IF layer_of[s] = None THEN slot_of
                  ELSE [slot_of EXCEPT ![layer_of[s]] = None]
    /\ layer_of' = [layer_of EXCEPT ![s] = None]
    /\ fresh' = [fresh EXCEPT ![s] = FALSE]
    /\ pending' = [pending EXCEPT ![s] = L]

IsPending(L) == \E s \in Slots : pending[s] = L

(* tally_locked: a read is counted whether it came back whole or short. *)
ReadWhole(L) ==
    /\ reads_of' = [reads_of EXCEPT ![L] = @ + 1]
    /\ UNCHANGED fails

ReadShort(L) ==
    /\ fails < MaxFails
    /\ fails' = fails + 1
    /\ reads_of' = [reads_of EXCEPT ![L] = @ + 1]

-----------------------------------------------------------------------------
(* Main thread: k3_trunk_fetch(walk). *)

(* forward() asks for layer L: the next of this pass, or 0 of the next. *)
NextLayer(L) ==
    \/ pc = "call" /\ L = 0 /\ pass' = pass
    \/ pc = "compute" /\ L = walk + 1 /\ L < NBound /\ pass' = pass
    \/ pc = "compute" /\ walk + 1 = NBound /\ L = 0
       /\ pass + 1 < MaxPasses /\ pass' = pass + 1

FetchEnter(L) ==
    /\ NextLayer(L)
    /\ walk' = L
    /\ pc' = "enter"
    /\ UNCHANGED <<pinned, maps, held, q, stop, counts, data, pin,
                   first, mslot, scan, queued, reader>>

(* First touch of a pinned layer: read it outside the mutex, once. *)
PinnedReadBegins ==
    /\ pc = "enter" /\ ~Streaming(walk) /\ slot_of[walk] = None
    /\ pin' = [pin EXCEPT ![walk] = Torn]
    /\ pc' = "pinread"
    /\ UNCHANGED <<pinned, maps, walk, held, q, stop, counts, data,
                   first, mslot, scan, queued, reader, pass>>

PinnedReadEnds ==
    /\ pc = "pinread"
    /\ ReadWhole(walk)
    /\ slot_of' = [slot_of EXCEPT ![walk] = walk]
    /\ misses' = misses + 1
    /\ pin' = [pin EXCEPT ![walk] = walk]
    /\ pc' = "release"
    /\ UNCHANGED <<pinned, layer_of, ring, pending, fresh, walk, held, q, stop,
                   hits, data, first, mslot, scan, queued, reader, pass>>

PinnedReadFails ==
    /\ pc = "pinread"
    /\ ReadShort(walk)
    /\ pc' = "failed"
    /\ UNCHANGED <<pinned, maps, walk, held, q, stop, hits, misses, data, pin,
                   first, mslot, scan, queued, reader, pass>>

PinnedHit ==
    /\ pc = "enter" /\ ~Streaming(walk) /\ slot_of[walk] # None
    /\ hits' = hits + 1
    /\ pc' = "release"
    /\ UNCHANGED <<pinned, maps, walk, held, q, stop, misses, reads_of, fails,
                   data, pin, first, mslot, scan, queued, reader, pass>>

(* held = -1: the caller now reads the pinned buffer. *)
PinnedReturns ==
    /\ pc = "release"
    /\ held' = None
    /\ pc' = "bound"
    /\ UNCHANGED <<pinned, maps, walk, q, stop, counts, data, pin,
                   first, mslot, scan, queued, reader, pass>>

(* A streaming layer: release the previous layer's slot and enter the loop. *)
StreamEnter ==
    /\ pc = "enter" /\ Streaming(walk)
    /\ held' = None
    /\ first' = TRUE
    /\ pc' = "look"
    /\ UNCHANGED <<pinned, maps, walk, q, stop, counts, data, pin,
                   mslot, scan, queued, reader, pass>>

(* One turn of the loop finds the layer resident: classify the bind if this *)
(* is the first look, and hold the slot.                                    *)
LookFinds ==
    /\ pc = "look" /\ slot_of[walk] # None
    /\ hits' = IF first /\ ~fresh[slot_of[walk]] THEN hits + 1 ELSE hits
    /\ misses' = IF first /\ fresh[slot_of[walk]] THEN misses + 1 ELSE misses
    /\ fresh' = [fresh EXCEPT ![slot_of[walk]] = FALSE]
    /\ held' = slot_of[walk]
    /\ pc' = "bound"
    /\ UNCHANGED <<pinned, layer_of, slot_of, ring, pending, walk, q, stop,
                   reads_of, fails, data, pin, first, mslot, scan, queued,
                   reader, pass>>

(* Mutant of ChargeMiss: every turn of the loop charges.         *)
ChargeMiss_EachTurn   == misses' = misses + 1 /\ first' = FALSE

ChargeMiss ==
    /\ misses' = IF first THEN misses + 1 ELSE misses
    /\ first' = FALSE

(* The reader is already fetching it, or every slot is busy: wait. *)
LookWaits ==
    /\ pc = "look" /\ slot_of[walk] = None
    /\ IsPending(walk) \/ NoneClaimable
    /\ ChargeMiss
    /\ pc' = "asleep"
    /\ UNCHANGED <<pinned, maps, walk, held, q, stop, hits, reads_of, fails,
                   data, pin, mslot, scan, queued, reader, pass>>

(* Nobody is fetching it: claim a slot and read on this thread. *)
LookClaims(s) ==
    /\ pc = "look" /\ slot_of[walk] = None
    /\ ~IsPending(walk) /\ IsClaimed(s)
    /\ ChargeMiss
    /\ claim_slot(s, walk)
    /\ data' = [data EXCEPT ![s] = Torn]
    /\ mslot' = s
    /\ pc' = "read"
    /\ UNCHANGED <<pinned, walk, held, q, stop, hits, reads_of, fails,
                   pin, scan, queued, reader, pass>>

MainReadEnds ==
    /\ pc = "read"
    /\ ReadWhole(walk)
    /\ pending' = [pending EXCEPT ![mslot] = None]
    /\ data' = [data EXCEPT ![mslot] = walk]
    /\ layer_of' = [layer_of EXCEPT ![mslot] = walk]
    /\ slot_of' = [slot_of EXCEPT ![walk] = mslot]
    /\ held' = mslot
    /\ mslot' = None
    /\ pc' = "bound"
    /\ UNCHANGED <<pinned, ring, fresh, walk, q, stop, hits, misses, pin,
                   first, scan, queued, reader, pass>>

(* A failed bind is not a completed one: take the miss back. *)
MainReadFails ==
    /\ pc = "read"
    /\ ReadShort(walk)
    /\ pending' = [pending EXCEPT ![mslot] = None]
    /\ misses' = misses - 1
    /\ mslot' = None
    /\ pc' = "failed"
    /\ UNCHANGED <<pinned, layer_of, slot_of, ring, fresh, walk, held, q, stop,
                   hits, data, pin, first, scan, queued, reader, pass>>

-----------------------------------------------------------------------------
(* Main thread: k3_trunk_prefetch(walk + 1).  The loop runs under the mutex *)
(* from the first turn to the last; each turn is an action.                 *)

(* Without a reader the call returns at once. *)
PrefetchBegins ==
    /\ pc = "bound"
    /\ scan' = walk + 1
    /\ queued' = FALSE
    /\ pc' = IF running THEN "scan" ELSE "compute"
    /\ UNCHANGED <<pinned, maps, walk, held, q, stop, counts, data, pin,
                   first, mslot, reader, pass>>

ScanContinues == scan < NLayers /\ Len(q) < NSlots
ScanSkips_IgnoresPending == ~Streaming(scan) \/ slot_of[scan] # None  \* mutant
ScanSkips     == ~Streaming(scan) \/ slot_of[scan] # None \/ IsPending(scan)

PrefetchSkips ==
    /\ pc = "scan" /\ ScanContinues /\ ScanSkips
    /\ scan' = scan + 1
    /\ UNCHANGED <<pinned, maps, walk, held, q, stop, counts, data, pin,
                   pc, first, mslot, queued, reader, pass>>

PrefetchQueues(s) ==
    /\ pc = "scan" /\ ScanContinues /\ ~ScanSkips
    /\ IsClaimed(s)
    /\ claim_slot(s, scan)
    /\ q' = Append(q, [layer |-> scan, slot |-> s])
    /\ queued' = TRUE
    /\ scan' = scan + 1
    /\ UNCHANGED <<pinned, walk, held, stop, counts, data, pin,
                   pc, first, mslot, reader, pass>>

(* Past the last layer, queue full, or no slot left: signal and return. *)
PrefetchReturns ==
    /\ pc = "scan"
    /\ ScanContinues => ~ScanSkips /\ NoneClaimable
    /\ rpc' = IF queued /\ rpc = "asleep" THEN "look" ELSE rpc
    /\ pc' = "compute"
    /\ UNCHANGED <<pinned, maps, walk, held, q, stop, counts, data, pin,
                   first, mslot, scan, queued, job, pass>>

-----------------------------------------------------------------------------
(* Main thread: k3_trunk_close, between two calls or after a failed bind. *)

(* Mutant of CloseStops: stop without the broadcast on cv_req. *)
CloseStops_NoBroadcast ==
    /\ pc \in {"call", "compute", "failed"}
    /\ stop' = running
    /\ pc' = "join"
    /\ UNCHANGED <<pinned, maps, walk, held, q, counts, data, pin,
                   first, mslot, scan, queued, reader, pass>>

CloseStops ==
    /\ pc \in {"call", "compute", "failed"}
    /\ stop' = running
    /\ rpc' = IF rpc = "asleep" THEN "look" ELSE rpc
    /\ pc' = "join"
    /\ UNCHANGED <<pinned, maps, walk, held, q, counts, data, pin,
                   first, mslot, scan, queued, job, pass>>

(* pthread_join, then every buffer is freed. *)
CloseFrees ==
    /\ pc = "join" /\ rpc = "exited"
    /\ pc' = "closed"
    /\ UNCHANGED <<pinned, maps, walk, held, q, stop, counts, data, pin,
                   first, mslot, scan, queued, reader, pass>>

-----------------------------------------------------------------------------
(* Reader thread: trunk_io_main. *)

MutexFree == pc # "scan"

ReaderSleeps ==
    /\ rpc = "look" /\ MutexFree /\ q = <<>> /\ ~stop
    /\ rpc' = "asleep"
    /\ UNCHANGED <<pinned, maps, walk, held, q, stop, counts, data, pin,
                   main, job, pass>>

ReaderExits ==
    /\ rpc = "look" /\ MutexFree /\ stop
    /\ rpc' = "exited"
    /\ UNCHANGED <<pinned, maps, walk, held, q, stop, counts, data, pin,
                   main, job, pass>>

ReaderTakes ==
    /\ rpc = "look" /\ MutexFree /\ q # <<>> /\ ~stop
    /\ job' = Head(q)
    /\ q' = Tail(q)
    /\ data' = [data EXCEPT ![Head(q).slot] = Torn]
    /\ rpc' = "read"
    /\ UNCHANGED <<pinned, maps, walk, held, stop, counts, pin, main, pass>>

(* Mutant of ReaderDone: cv_done is not signalled. *)
ReaderDone_NoSignal ==
    /\ rpc = "read" /\ MutexFree
    /\ pending' = [pending EXCEPT ![job.slot] = None]
    /\ pc' = pc /\ rpc' = "look" /\ job' = NoJob

(* Whichever way a read ends, the slot is no longer landing and everyone    *)
(* asleep on cv_done is woken.                                              *)
ReaderDone ==
    /\ rpc = "read" /\ MutexFree
    /\ pending' = [pending EXCEPT ![job.slot] = None]
    /\ pc' = IF pc = "asleep" THEN "look" ELSE pc
    /\ rpc' = "look"
    /\ job' = NoJob

(* Publish only after the read succeeded. *)
ReaderPublishes ==
    /\ ReaderDone
    /\ ReadWhole(job.layer)
    /\ data' = [data EXCEPT ![job.slot] = job.layer]
    /\ layer_of' = [layer_of EXCEPT ![job.slot] = job.layer]
    /\ slot_of' = [slot_of EXCEPT ![job.layer] = job.slot]
    /\ fresh' = [fresh EXCEPT ![job.slot] = TRUE]
    /\ UNCHANGED <<pinned, ring, walk, held, q, stop, hits, misses, pin,
                   first, mslot, scan, queued, pass>>

ReaderFails ==
    /\ ReaderDone
    /\ ReadShort(job.layer)
    /\ UNCHANGED <<pinned, layer_of, slot_of, ring, fresh, walk, held, q, stop,
                   hits, misses, data, pin, first, mslot, scan, queued, pass>>

-----------------------------------------------------------------------------
Main ==
    \/ \E L \in Layers : FetchEnter(L)
    \/ PinnedReadBegins \/ PinnedReadEnds \/ PinnedReadFails
    \/ PinnedHit \/ PinnedReturns
    \/ StreamEnter \/ LookFinds \/ LookWaits \/ \E s \in Slots : LookClaims(s)
    \/ MainReadEnds \/ MainReadFails
    \/ PrefetchBegins \/ PrefetchSkips
    \/ \E s \in Slots : PrefetchQueues(s)
    \/ PrefetchReturns
    \/ CloseStops \/ CloseFrees

Reader ==
    \/ ReaderSleeps \/ ReaderExits \/ ReaderTakes
    \/ ReaderPublishes \/ ReaderFails

Closed == pc = "closed" /\ UNCHANGED vars

Next == Main \/ Reader \/ Closed

Spec == Init /\ [][Next]_vars

(* Both threads keep being scheduled, and a pread returns. *)
FairSpec == Spec /\ WF_vars(Main) /\ WF_vars(Reader)

-----------------------------------------------------------------------------
(* Properties. *)

(* Type correctness of the K3Trunk fields, the queue and both threads. *)
TypeOK ==
    /\ pinned \in SUBSET Layers
    /\ layer_of \in [Slots -> Layers \cup {None}]
    /\ slot_of \in [Layers -> Layers \cup Slots \cup {None}]
    /\ ring \in Slots /\ walk \in Layers /\ held \in Slots \cup {None}
    /\ pending \in [Slots -> Layers \cup {None}]
    /\ fresh \in [Slots -> BOOLEAN]
    /\ q \in Seq([layer : Layers, slot : Slots])
    /\ stop \in BOOLEAN
    /\ hits \in Int /\ misses \in Int /\ fails \in Nat
    /\ reads_of \in [Layers -> Nat]
    /\ data \in [Slots -> Content] /\ pin \in [Layers -> Content]
    /\ pc \in {"call", "enter", "pinread", "release", "look", "asleep", "read",
               "bound", "scan", "compute", "failed", "join", "closed"}
    /\ first \in BOOLEAN /\ queued \in BOOLEAN
    /\ mslot \in Slots \cup {None} /\ scan \in Nat
    /\ rpc \in {"look", "asleep", "read", "exited"}
    /\ job \in [layer : Layers, slot : Slots] \cup {NoJob}
    /\ pass \in Nat

Lent == pc \in {"bound", "scan", "compute"}

(* The two maps of the ring are each other's inverse on the streaming       *)
(* layers: slot_of never leads to a slot that was given away.               *)
MapsAgree ==
    \A L \in Layers : \A s \in Slots :
        layer_of[s] = L <=> Streaming(L) /\ slot_of[L] = s

(* A slot is published only with its layer's bytes complete: the comment in *)
(* trunk_io_main on why registration waits for the read.                    *)
PublishedWhole ==
    /\ \A s \in Slots : layer_of[s] # None => data[s] = layer_of[s]
    /\ \A L \in pinned : slot_of[L] # None => pin[L] = L

(* No layer is held or being read twice in the ring, whichever thread reads *)
(* it: the bytes of one layer never land over a copy already there.         *)
OneCopy ==
    \A s, t \in Slots : \A L \in Layers :
        L \in {layer_of[s], pending[s]} /\ L \in {layer_of[t], pending[t]} => s = t

(* What k3_trunk_report prints adds up: hits and misses are the completed   *)
(* binds at every call boundary, a failed bind being neither, and a pinned  *)
(* layer is read once for the whole run and a streaming layer at most once  *)
(* per pass, so that nothing the prefetcher fetched is evicted before the   *)
(* walk reaches it.                                                         *)
BindsCompleted == pass * NBound + walk + (IF Lent THEN 1 ELSE 0)
ReadsOwed ==
    /\ pc = "failed" \/ Lent => hits + misses = BindsCompleted
    /\ fails = 0 =>
          \A L \in Layers : reads_of[L] <= IF L \in pinned THEN 1 ELSE pass + 1

(* Who owns which slot: the inductive strengthening the safety proofs need. *)
SlotOwners ==
    /\ \A L \in Layers : Streaming(L) => slot_of[L] \in Slots \cup {None}
    /\ \A s \in Slots : pending[s] # None => layer_of[s] = None /\ Streaming(pending[s])
    /\ \A i \in 1 .. Len(q) : pending[q[i].slot] = q[i].layer
    /\ \A i, j \in 1 .. Len(q) : q[i].slot = q[j].slot => i = j
    /\ rpc = "read" =>
        /\ job \in [layer : Layers, slot : Slots]
        /\ pending[job.slot] = job.layer
        /\ \A i \in 1 .. Len(q) : q[i].slot # job.slot
    /\ pc = "read" =>
        /\ mslot \in Slots
        /\ pending[mslot] = walk
        /\ \A i \in 1 .. Len(q) : q[i].slot # mslot
        /\ rpc = "read" => job.slot # mslot

(* What each point of the main thread knows of the layer it walks.          *)
WalkKnows ==
    /\ pc \in {"look", "asleep", "read"} => Streaming(walk)
    /\ pc \in {"pinread", "release"} => ~Streaming(walk)
    /\ pc = "release" \/ Lent =>
        IF Streaming(walk) THEN held \in Slots /\ layer_of[held] = walk
                           ELSE slot_of[walk] # None

IInv == TypeOK /\ MapsAgree /\ PublishedWhole /\ OneCopy /\ SlotOwners /\ WalkKnows

(* A fetch asleep on cv_done has a read under way that will wake it: the    *)
(* comment of claim_slot_locked calls a ring with no free slot "a normal    *)
(* transient rather than an error".                                         *)
WaiterHasWaker == pc = "asleep" => q # <<>> \/ rpc = "read"

(* Every fetch comes back, with the layer or with an error.                 *)
FetchReturns == pc = "enter" ~> pc \in {"bound", "failed"}

(* A close comes back: the reader sees stop even when it sleeps.            *)
CloseReturns == pc = "join" ~> pc = "closed"

(* The loan as the caller of k3_trunk_fetch sees it. *)
LoanState ==
    CASE pc = "call" -> "idle"
      [] Lent -> "lent"
      [] pc = "failed" -> "failed"
      [] pc \in {"join", "closed"} -> "closed"
      [] OTHER -> "asked"

LoanBytes == IF ~Lent THEN None ELSE IF Streaming(walk) THEN data[held] ELSE pin[walk]

(* The ring keeps the promise of k3_trunk.h: what the caller is handed is   *)
(* the layer it asked for, and those bytes stay until the next fetch.       *)
Source == INSTANCE TrunkSource WITH
    NoBytes <- None, layer <- walk, state <- LoanState, bytes <- LoanBytes
KeepsLoan == Source!Spec

(* The shapes in which a pass never starts with the first streaming layer   *)
(* gone and every slot holding one of the NSlots layers that follow it.  At *)
(* the end of a pass the ring holds NSlots consecutive streaming layers;    *)
(* WindowStart counts the ones before the first of them.  With layer 0      *)
(* pinned and no layer beyond the walk the prefetch after its bind makes    *)
(* room in time.                                                            *)
Streamed(P, n) == Cardinality((0 .. n - 1) \ P)
WindowStart(P) ==
    LET kept == IF running /\ NBound - 1 \in P
                THEN Streamed(P, NBound) ELSE Streamed(P, NBound) - 1
        last == Streamed(P, NLayers) - NSlots
    IN  IF kept < last THEN kept ELSE last
RoomToClaim(P) == WindowStart(P) # 1 \/ (running /\ 0 \in P /\ NBound = NLayers)
=============================================================================
