----------------------------- MODULE ExpertCache -----------------------------
(***************************************************************************)
(* The streaming cache of routed experts, src/cache/k3_cache.c, driven the *)
(* way k3_moe and moe_prefill_chunk in src/core/k3_ops.c drive it: the     *)
(* experts one layer needs are handed to getmany as a batch, whose reads   *)
(* run concurrently, and are then asked for one by one with get.           *)
(*                                                                         *)
(* The serial parts are single-threaded; the concurrency is between the    *)
(* parallel reads of a batch, which finish in any order and may come back  *)
(* short.  A buffer being read into is Torn, so two reads sharing a buffer *)
(* or a slot registered too early show up in the bytes a get serves.       *)
(***************************************************************************)
EXTENDS Integers, Sequences, FiniteSets

CONSTANTS
    Layers,      \* the sparse layers
    Experts,     \* routed experts of a layer
    NSlots,      \* experts the arena holds
    MaxBatch,    \* K3_MAX_TOPK: the entries of the getmany work array
    BatchLens,   \* lengths of the expert lists handed over in one call
    Absent,      \* keys k3_expert_ref cannot resolve
    ApiCalls,    \* explore the calls of k3_cache.h the engine itself never makes
    MaxFails,    \* bound: reads that come back short
    MaxPins      \* bound: slots pinned at once

Keys  == Layers \X Experts    \* the code's layer * n_experts + expert
Slots == 0 .. NSlots - 1
EMPTY == <<-1, -1>>      \* K3_SLOT_EMPTY
INFLIGHT == <<-2, -2>>   \* K3_SLOT_INFLIGHT
Torn  == EMPTY           \* bytes of no expert
None  == -1

ASSUME CacheAssumption ==
    /\ EMPTY \notin Keys /\ INFLIGHT \notin Keys
    /\ NSlots \in Nat \ {0}
    /\ MaxBatch \in Nat \ {0}
    /\ BatchLens \subseteq Nat \ {0}
    /\ Absent \subseteq Keys
    /\ ApiCalls \in BOOLEAN
    /\ MaxFails \in Nat /\ MaxPins \in Nat

VARIABLES
    key_of,      \* [slot] the key it holds, EMPTY or INFLIGHT
    slot_of,     \* [key] its slot, or None
    used_at,     \* [slot] LRU stamp; only its rank matters, so the rank is kept
    pinned,      \* slots never evicted
    data,        \* [slot] the expert whose bytes are in it
    getmany,     \* the batch path is on (K3_NOPREFETCH unset)
    pc,
    ids,         \* the batch: a sequence of keys of one layer
    at,          \* the entry the current loop is at
    work,        \* [slot, key, read] of the batch in flight
    using,       \* the slot the matmul reads, or None
    reads,       \* [key] reads in this batch
    hits, prefetch_reads,   \* of this batch
    drops,       \* the layer lost an expert: forward() fails the run
    fails

maps  == <<key_of, slot_of, used_at, data>>
count == <<reads, hits, prefetch_reads, drops, fails>>
vars  == <<maps, pinned, getmany, pc, ids, at, work, using, count>>

Init ==
    /\ key_of = [s \in Slots |-> EMPTY]
    /\ slot_of = [k \in Keys |-> None]
    /\ used_at = [s \in Slots |-> s]
    /\ pinned = {}
    /\ data = [s \in Slots |-> Torn]
    /\ getmany \in BOOLEAN
    /\ pc = "idle" /\ ids = <<>> /\ at = 1 /\ work = {} /\ using = None
    /\ reads = [k \in Keys |-> 0]
    /\ hits = 0 /\ prefetch_reads = 0 /\ drops = FALSE /\ fails = 0

-----------------------------------------------------------------------------
(* LRU bookkeeping. *)

(* used_at[s] = ++clock. *)
touched(s) ==
    [t \in Slots |-> IF t = s THEN NSlots - 1
                     ELSE IF used_at[t] > used_at[s] THEN used_at[t] - 1
                     ELSE used_at[t]]

Candidates_IgnorePins == {s \in Slots : key_of[s] \in Keys}  \* mutant
Candidates == {s \in Slots : key_of[s] \in Keys /\ s \notin pinned}

(* Mutants of pick_victim: a reserved slot taken for an empty one, the bug  *)
(* its comment tells of; and the newest evicted for the oldest.             *)
pick_victim_TakesInflight(s) ==
    \/ /\ key_of[s] \notin Keys
       /\ \A t \in 0 .. s - 1 : key_of[t] \in Keys
    \/ /\ \A t \in Slots : key_of[t] \in Keys
       /\ s \in Candidates
       /\ \A t \in Candidates : used_at[s] <= used_at[t]

pick_victim_Newest(s) ==
    \/ key_of[s] = EMPTY
    \/ /\ \A t \in Slots : key_of[t] # EMPTY
       /\ s \in Candidates
       /\ \A t \in Candidates : used_at[s] >= used_at[t]

(* pick_victim: the first empty slot, else the oldest unpinned resident.    *)
pick_victim(s) ==
    \/ /\ key_of[s] = EMPTY
       /\ \A t \in 0 .. s - 1 : key_of[t] # EMPTY
    \/ /\ \A t \in Slots : key_of[t] # EMPTY
       /\ s \in Candidates
       /\ \A t \in Candidates : used_at[s] <= used_at[t]

NoVictim == Candidates = {} /\ \A t \in Slots : key_of[t] # EMPTY

evicted_KeepsEntry(s) == slot_of  \* mutant: the evicted expert stays registered

(* slot_of after the slot's expert is evicted. *)
evicted(s) == IF key_of[s] \in Keys THEN [slot_of EXCEPT ![key_of[s]] = None] ELSE slot_of

resident(k) == slot_of[k] # None

(* k3_expert_load_direct: the whole expert, or a short read. *)
Load(short) ==
    /\ short => fails < MaxFails
    /\ fails' = IF short THEN fails + 1 ELSE fails

CountRead(k) == reads' = [reads EXCEPT ![k] = @ + 1]

(* admit, on a miss: evict, read on this thread, register if it was whole.  *)
AdmitMiss(k, s, short) ==
    /\ ~resident(k) /\ k \notin Absent
    /\ pick_victim(s)
    /\ Load(short)
    /\ IF short
       THEN /\ slot_of' = evicted(s)
            /\ key_of' = [key_of EXCEPT ![s] = EMPTY]
            /\ data' = [data EXCEPT ![s] = Torn]
            /\ UNCHANGED used_at
       ELSE /\ slot_of' = [evicted(s) EXCEPT ![k] = s]
            /\ key_of' = [key_of EXCEPT ![s] = k]
            /\ data' = [data EXCEPT ![s] = k]
            /\ used_at' = touched(s)

-----------------------------------------------------------------------------
(* A batch: the experts a token of the layer was routed to (k3_moe), or     *)
(* those of a chunk of tokens (moe_prefill_chunk).  k3_router names an      *)
(* expert again where no score is left to choose by.                        *)

Lists(L) == UNION {[1 .. n -> {<<L, e>> : e \in Experts}] : n \in BatchLens}

(* forward() looks at the drops when the layer is over: the later tokens    *)
(* and chunks of the layer that lost an expert still come, no other layer.  *)
Route(list) ==
    /\ pc = "idle"
    /\ drops => list[1][1] = ids[1][1]
    /\ ids' = list /\ at' = 1
    /\ pc' = IF getmany THEN "reserve" ELSE "get"
    /\ UNCHANGED <<maps, pinned, getmany, work, using, count>>

(* getmany, phase 1: reserve a slot for each expert that is not resident.   *)
Reserving == pc = "reserve" /\ at <= Len(ids) /\ Cardinality(work) < MaxBatch
Wanted(k) == ~resident(k) /\ k \notin Absent /\ \A w \in work : w.key # k

ReserveSkips ==
    /\ Reserving /\ ~Wanted(ids[at])
    /\ at' = at + 1
    /\ UNCHANGED <<maps, pinned, getmany, pc, ids, work, using, count>>

(* Mutant: pick_victim's -1 is not looked at. *)
ReserveTakes_AnySlot(s) ==
    /\ Reserving /\ Wanted(ids[at])
    /\ pick_victim(s) \/ NoVictim
    /\ LET victim == IF NoVictim THEN -1 ELSE s
       IN  /\ slot_of' = IF NoVictim THEN slot_of ELSE evicted(s)
           /\ key_of' = [t \in Slots |-> IF t = victim THEN INFLIGHT ELSE key_of[t]]
           /\ used_at' = IF NoVictim THEN used_at ELSE touched(s)
           /\ data' = [t \in Slots |-> IF t = victim THEN Torn ELSE data[t]]
           /\ work' = work \cup {[slot |-> victim, key |-> ids[at], read |-> "going"]}
    /\ at' = at + 1
    /\ UNCHANGED <<pinned, getmany, pc, ids, using, count>>

ReserveTakes(s) ==
    /\ Reserving /\ Wanted(ids[at])
    /\ pick_victim(s)
    /\ slot_of' = evicted(s)
    /\ key_of' = [key_of EXCEPT ![s] = INFLIGHT]
    /\ used_at' = touched(s)
    /\ data' = [data EXCEPT ![s] = Torn]
    /\ work' = work \cup {[slot |-> s, key |-> ids[at], read |-> "going"]}
    /\ at' = at + 1
    /\ UNCHANGED <<pinned, getmany, pc, ids, using, count>>

(* The list is exhausted, the work array is full, or every slot is taken.   *)
ReserveEnds ==
    /\ pc = "reserve"
    /\ Reserving => Wanted(ids[at]) /\ NoVictim
    /\ pc' = "publish"
    /\ UNCHANGED <<maps, pinned, getmany, ids, at, work, using, count>>

(* Phase 2: the reads run together and end in any order. *)
ReadEnds(w) ==
    /\ pc = "publish" /\ w \in work /\ w.read = "going"
    /\ \E short \in BOOLEAN :
        /\ Load(short)
        /\ work' = (work \ {w}) \cup {[w EXCEPT !.read = IF short THEN "short" ELSE "whole"]}
        /\ data' = [data EXCEPT ![w.slot] = IF short THEN Torn ELSE w.key]
    /\ CountRead(w.key)
    /\ UNCHANGED <<key_of, slot_of, used_at, pinned, getmany, pc, ids, at, using,
                   hits, prefetch_reads, drops>>

(* Phase 3: after the last read, publish what arrived, in disk order, which *)
(* here is any order.                                                       *)
AllRead == pc = "publish" /\ \A w \in work : w.read # "going"

Publish(w) ==
    /\ AllRead /\ w \in work
    /\ work' = work \ {w}
    /\ IF w.read = "whole"
       THEN /\ key_of' = [key_of EXCEPT ![w.slot] = w.key]
            /\ slot_of' = [slot_of EXCEPT ![w.key] = w.slot]
            /\ used_at' = touched(w.slot)
            /\ prefetch_reads' = prefetch_reads + 1
       ELSE /\ key_of' = [key_of EXCEPT ![w.slot] = EMPTY]
            /\ UNCHANGED <<slot_of, used_at, prefetch_reads>>
    /\ UNCHANGED <<pinned, data, getmany, pc, ids, at, using, reads, hits, drops, fails>>

PublishEnds ==
    /\ pc = "publish" /\ work = {}
    /\ pc' = "get" /\ at' = 1
    /\ UNCHANGED <<maps, pinned, getmany, ids, work, using, count>>

-----------------------------------------------------------------------------
(* cache_get for each expert in turn, and the matmul that reads the slot.   *)

Getting(k) == pc = "get" /\ at <= Len(ids) /\ k = ids[at]

GetHit(k) ==
    /\ Getting(k) /\ resident(k)
    /\ hits' = hits + 1
    /\ used_at' = touched(slot_of[k])
    /\ using' = slot_of[k]
    /\ pc' = "use"
    /\ UNCHANGED <<key_of, slot_of, data, pinned, getmany, ids, at, work,
                   reads, prefetch_reads, drops, fails>>

GetLoads(k, s) ==
    /\ Getting(k)
    /\ AdmitMiss(k, s, FALSE) /\ CountRead(k)
    /\ using' = s
    /\ pc' = "use"
    /\ UNCHANGED <<pinned, getmany, ids, at, work, hits, prefetch_reads, drops>>

(* The expert is dropped and the loop goes on; forward() fails when the     *)
(* layer is over.                                                           *)
GetLoadsShort(k, s) ==
    /\ Getting(k)
    /\ AdmitMiss(k, s, TRUE) /\ CountRead(k)
    /\ drops' = TRUE
    /\ at' = at + 1
    /\ UNCHANGED <<pinned, getmany, pc, ids, work, using, hits, prefetch_reads>>

GetRefused(k) ==
    /\ Getting(k) /\ ~resident(k)
    /\ k \in Absent \/ NoVictim
    /\ drops' = TRUE
    /\ at' = at + 1
    /\ UNCHANGED <<maps, pinned, getmany, pc, ids, work, using,
                   reads, hits, prefetch_reads, fails>>

Used ==
    /\ pc = "use"
    /\ using' = None /\ at' = at + 1 /\ pc' = "get"
    /\ UNCHANGED <<maps, pinned, getmany, ids, work, count>>

BatchDone ==
    /\ pc = "get" /\ at > Len(ids)
    /\ pc' = "idle"
    /\ reads' = [k \in Keys |-> 0] /\ hits' = 0 /\ prefetch_reads' = 0
    /\ UNCHANGED <<maps, pinned, getmany, ids, at, work, using, drops, fails>>

-----------------------------------------------------------------------------
(* Between layers: the calls of k3_cache.h that warm and pin. *)

PrefetchOne(k, s, short) ==
    /\ pc = "idle"
    /\ AdmitMiss(k, s, short)
    /\ UNCHANGED <<pinned, getmany, pc, ids, at, work, using,
                   reads, hits, prefetch_reads, drops>>

Pin(k) ==
    /\ pc = "idle" /\ resident(k)
    /\ Cardinality(pinned) < MaxPins
    /\ pinned' = pinned \cup {slot_of[k]}
    /\ UNCHANGED <<maps, getmany, pc, ids, at, work, using, count>>

Unpin(k) ==
    /\ pc = "idle" /\ resident(k)
    /\ pinned' = pinned \ {slot_of[k]}
    /\ UNCHANGED <<maps, getmany, pc, ids, at, work, using, count>>

-----------------------------------------------------------------------------
Batch == ReserveSkips \/ (\E s \in Slots : ReserveTakes(s)) \/ ReserveEnds
         \/ (\E w \in work : ReadEnds(w)) \/ (\E w \in work : Publish(w)) \/ PublishEnds

Get == \E k \in Keys :
    \/ GetHit(k) \/ GetRefused(k)
    \/ \E s \in Slots : GetLoads(k, s) \/ GetLoadsShort(k, s)

Api == ApiCalls /\ \E k \in Keys :
    \/ Pin(k) \/ Unpin(k)
    \/ \E s \in Slots : \E short \in BOOLEAN : PrefetchOne(k, s, short)

Layer == \E L \in Layers : \E list \in Lists(L) : Route(list)

Next == Layer \/ Batch \/ Get \/ Used \/ BatchDone \/ Api

Spec == Init /\ [][Next]_vars

-----------------------------------------------------------------------------
(* Properties. *)

Work == [slot : Slots, key : Keys, read : {"going", "whole", "short"}]

(* Type correctness of the K3Cache fields and of a batch under way: what a  *)
(* batch reserves is a slot, also where pick_victim has none to give.       *)
TypeOK ==
    /\ key_of \in [Slots -> Keys \cup {EMPTY, INFLIGHT}]
    /\ slot_of \in [Keys -> Slots \cup {None}]
    /\ used_at \in [Slots -> Slots]
    /\ pinned \in SUBSET Slots
    /\ data \in [Slots -> Keys \cup {Torn}]
    /\ getmany \in BOOLEAN
    /\ pc \in {"idle", "reserve", "publish", "get", "use"}
    /\ ids \in Seq(Keys) /\ at \in Nat \ {0}
    /\ work \in SUBSET Work
    /\ using \in Slots \cup {None}
    /\ reads \in [Keys -> Nat]
    /\ hits \in Nat /\ prefetch_reads \in Nat /\ drops \in BOOLEAN /\ fails \in Nat

(* slot_of and key_of are inverse: an evicted expert is never served from   *)
(* the slot it lost.                                                        *)
MapsAgree == \A k \in Keys : \A s \in Slots : slot_of[k] = s <=> key_of[s] = k

(* "A slot is registered to its key ONLY after its read succeeded" (the     *)
(* comment of cache_getmany): a registered slot holds all its expert.       *)
RegisteredWhole == \A s \in Slots : key_of[s] \in Keys => data[s] = key_of[s]

(* The batch's reads have a buffer each, the slots it reserved and no       *)
(* others: no two reads write one buffer, and no reservation outlives the   *)
(* batch, whatever came back short.                                         *)
Reservations ==
    /\ \A v, w \in work : v.slot = w.slot \/ v.key = w.key => v = w
    /\ {s \in Slots : key_of[s] = INFLIGHT} = {w.slot : w \in work}
    /\ \A w \in work : ~resident(w.key)

(* What a finished read left in its buffer is still there at publication.   *)
ReadsKept == \A w \in work : w.read = "whole" => data[w.slot] = w.key

(* Pinning protects a resident expert, not a slot: no pinned slot is empty. *)
PinnedResident == \A s \in pinned : key_of[s] \in Keys

(* The matmul reads the expert that was asked for.                          *)
ServesAsked == pc = "use" => key_of[using] = ids[at] /\ data[using] = ids[at]

(* A batch is over before its experts are asked for, one after another, and *)
(* its reads are counted from nothing.                                      *)
Paced ==
    /\ pc \in {"idle", "get", "use"} => work = {}
    /\ pc = "idle" => reads = [k \in Keys |-> 0]
    /\ pc = "get" => at <= Len(ids) + 1
    /\ pc = "use" => at <= Len(ids)

(* The inductive strengthening the proofs need. *)
IInv == TypeOK /\ MapsAgree /\ RegisteredWhole /\ Reservations /\ ReadsKept
        /\ PinnedResident /\ ServesAsked /\ Paced

(* A pinned expert stays where it is until it is unpinned.                  *)
PinnedStays ==
    [][\A s \in pinned : key_of'[s] = key_of[s] /\ data'[s] = data[s]]_vars

(* A batch's experts fit beside the pinned ones, as they do in decoding:    *)
(* k3_cache_init refuses fewer than topk + 1 slots.  And no read failed.    *)
Listed == {ids[i] : i \in 1 .. Len(ids)}
Roomy == Cardinality(Listed) + Cardinality(pinned) <= NSlots /\ fails = 0

(* With room a batch reads no expert twice: nothing it read is evicted      *)
(* before its get.  Between batches the pins may change.                    *)
ReadOnce == pc # "idle" /\ Roomy => \A k \in Keys : reads[k] <= 1

(* However the cache reserves, reads, publishes, evicts and loses: a layer  *)
(* is lent the bytes of the experts it was routed to, one after another in  *)
(* that order, and only one that could not be read is passed over.          *)
Dealt == CASE pc \in {"get", "use"} -> at - 1
           [] pc = "idle" -> Len(ids)
           [] OTHER -> 0
LentExpert == IF pc = "use" THEN data[using] ELSE INFLIGHT

Source == INSTANCE ExpertSource WITH
    Routings <- Seq(Keys),
    Nobody <- INFLIGHT,
    wanted <- ids,
    done <- Dealt,
    lent <- LentExpert,
    lost <- drops

KeepsSource == Source!Spec
=============================================================================
