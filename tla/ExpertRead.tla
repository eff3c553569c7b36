----------------------------- MODULE ExpertRead -----------------------------
(***************************************************************************)
(* How the bytes of one routed expert come into a cache slot: the layout   *)
(* of k3_expert_ref and the loads of src/io/k3_load.c, the O_DIRECT window *)
(* of k3_st_read_aligned (src/io/k3_st.c), and the chunks a batch divides  *)
(* it into and reads concurrently (cache_getmany, src/cache/k3_cache.c).   *)
(* ExpertCache says which slot is read into and when; this module which    *)
(* bytes end up where, and whether the slot is published.                  *)
(*                                                                         *)
(* A byte is its position in the shard.  A pread that fails stops the      *)
(* transfer at a multiple of BLOCK, or at the end of the file.             *)
(***************************************************************************)
EXTENDS Checkpoint

CONSTANTS
    Parts,        \* the names of the expert's tensors
    ALIGN,        \* K3_ST_ALIGN
    BLOCK,
    ITEMS,        \* K3_EXPERT_ITEMS
    Chunks,       \* what expert_chunk_bytes may be
    Batches,      \* experts in the batch, this one among them
    Probes        \* bytes of the expert the slots were sized from

ASSUME ReadAssumption ==
    /\ Parts \in Seq(Names) /\ Parts # <<>>
    /\ ALIGN \in Nat \ {0} /\ BLOCK \in Nat \ {0} /\ ITEMS \in Nat
    /\ Chunks \subseteq Nat \ {0} /\ Probes \subseteq Nat
    /\ Batches \subseteq 1 .. ITEMS

VARIABLES
    direct,       \* O_DIRECT was not refused
    batched,      \* by cache_getmany, else by admit
    chunk_bytes, nw, slot_bytes,
    stage,
    ref, pad,
    chunk, nchunk,    \* of this expert
    cgot,         \* chunk -> bytes its read reported, or NotRead
    slot          \* position -> the byte there

given == <<direct, batched, chunk_bytes, nw, slot_bytes>>
read_vars == <<checkpoint, given, stage, ref, pad, chunk, nchunk, cgot, slot>>

NotRead == -1
Stale   == -1
NoRef   == [shard |-> 0, off |-> 0, nbytes |-> 0, contiguous |-> FALSE, at |-> <<>>]

down(n) == (n \div ALIGN) * ALIGN
up(n)   == down(n + ALIGN - 1)
size    == disk[ref.shard].size

ReadInit ==
    /\ CheckpointInit
    /\ direct \in BOOLEAN /\ batched \in BOOLEAN
    /\ chunk_bytes \in {up(c) : c \in Chunks} /\ nw \in Batches
    /\ slot_bytes \in {up(p + 2 * ALIGN) : p \in Probes}
    /\ stage = "refer" /\ ref = NoRef /\ pad = 0 /\ chunk = 0 /\ nchunk = 0
    /\ cgot = <<>> /\ slot = [p \in 0 .. slot_bytes - 1 |-> Stale]

Opens == Open /\ UNCHANGED <<given, stage, ref, pad, chunk, nchunk, cgot, slot>>

-----------------------------------------------------------------------------
part(i) == t[find(Parts[i])]
bytes(i) == part(i).nbytes
Ps == DOMAIN Parts

(* f[1] + ... + f[n], added up in this order. *)
Total(f, n) ==
    LET sum[k \in 0 .. n] == IF k = 0 THEN 0 ELSE sum[k - 1] + f[k] IN sum[n]

Lengths   == [i \in Ps |-> bytes(i)]
Before(i) == Total(Lengths, i - 1)

(* All the tensors are there, well formed and of one shard.                 *)
Found == \A i \in Ps : find(Parts[i]) # 0 /\ part(i).form /\ part(i).shard = part(1).shard

(* One run, or the parts packed one after the other.                        *)
Layout ==
    LET lo  == Min({part(i).off : i \in Ps})
        hi  == Max({part(i).off + bytes(i) : i \in Ps})
        own == Before(Len(Parts) + 1)
        run == hi - lo = own
    IN [shard |-> part(1).shard, off |-> lo, nbytes |-> own, contiguous |-> run,
        at |-> [i \in Ps |-> IF run THEN part(i).off - lo ELSE Before(i)]]

Refer ==
    /\ st = "open" /\ stage = "refer"
    /\ IF Found /\ Layout.nbytes <= slot_bytes
       THEN ref' = Layout /\ stage' = "plan"
       ELSE stage' = "dropped" /\ UNCHANGED ref
    /\ UNCHANGED <<checkpoint, given, pad, chunk, nchunk, cgot, slot>>

-----------------------------------------------------------------------------
(* The enclosing window, and its division. *)

lo  == down(ref.off)
len == up(ref.off + ref.nbytes) - lo
max_per == ITEMS \div nw

ceil(a, b) == (a + b - 1) \div b

(* Mutants: the count is not capped; it is, but the size is not recomputed. *)
Tiling_Uncapped(n) == [size |-> chunk_bytes, count |-> ceil(n, chunk_bytes)]
Tiling_Clamped(n) ==
    [size |-> chunk_bytes, count |-> Min({ceil(n, chunk_bytes), max_per})]
(* Chunk size and count for n bytes, no more than max_per of them.          *)
Tiling(n) ==
    LET capped == up(ceil(n, max_per))
        ch == IF ceil(n, chunk_bytes) > max_per THEN capped ELSE chunk_bytes
    IN [size |-> ch, count |-> ceil(n, ch)]

(* Only a batch divides, and only a single run. *)
Plan ==
    /\ stage = "plan"
    /\ LET tiles == IF batched /\ ref.contiguous THEN Tiling(len)
                    ELSE [size |-> chunk_bytes, count |-> 1]
       IN /\ chunk' = tiles.size /\ nchunk' = tiles.count
          /\ cgot' = [k \in 0 .. tiles.count - 1 |-> NotRead]
    /\ pad' = IF batched /\ ref.contiguous THEN ref.off - lo ELSE 0
    /\ stage' = "read"
    /\ UNCHANGED <<checkpoint, given, ref, slot>>

-----------------------------------------------------------------------------
(* Reads. *)

(* What a loop of preads of n bytes from off may transfer.                  *)
Transfers(off, n) ==
    LET most == Max({0, Min({n, size - off})})
    IN {0, most} \cup {g \in 0 .. most : (off + g) % BLOCK = 0}

(* The slot with g bytes from off stored from position at on.               *)
Stored(image, off, g, at) ==
    [p \in DOMAIN image |-> IF p \in at .. at + g - 1 THEN off + p - at ELSE image[p]]

(* k3_st_read_aligned: what it may report for n bytes from off, with cap    *)
(* bytes of the slot from position at: a set of [got, pad, slot].           *)
Aligned(off, n, at, cap) ==
    LET wlo == down(off)
        wlen == up(off + n) - wlo
        wpad == off - wlo
    IN IF ~direct
       THEN IF cap < n THEN {[got |-> 0, pad |-> 0, slot |-> slot]}
            ELSE {[got |-> g, pad |-> 0, slot |-> Stored(slot, off, g, at)] :
                     g \in Transfers(off, n)}
       ELSE IF wlen > cap THEN {[got |-> 0, pad |-> 0, slot |-> slot]}
            ELSE {[got |-> IF g >= wpad + n THEN n ELSE Max({0, g - wpad}),
                   pad |-> wpad, slot |-> Stored(slot, wlo, g, at)] :
                     g \in Transfers(wlo, wlen)}

(* k3_expert_load_direct of the whole expert. *)
ReadWhole ==
    /\ stage = "read" /\ nchunk = 1 /\ ref.contiguous /\ cgot[0] = NotRead
    /\ \E r \in Aligned(ref.off, ref.nbytes, 0, slot_bytes) :
          cgot' = [cgot EXCEPT ![0] = r.got] /\ pad' = r.pad /\ slot' = r.slot
    /\ UNCHANGED <<checkpoint, given, stage, ref, chunk, nchunk>>

(* One chunk, by any of the threads, in any order. *)
ReadChunk(k) ==
    /\ stage = "read" /\ nchunk > 1 /\ cgot[k] = NotRead
    /\ LET base == k * chunk
           n == Min({len - base, chunk})
       IN \E r \in Aligned(lo + base, n, base, slot_bytes - base) :
             cgot' = [cgot EXCEPT ![k] = r.got] /\ slot' = r.slot
    /\ UNCHANGED <<checkpoint, given, stage, ref, pad, chunk, nchunk>>

(* The slot with the first g[i] bytes of each part in its place.            *)
Filled(g) ==
    LET image[i \in 0 .. Len(Parts)] ==
            IF i = 0 THEN slot
            ELSE Stored(image[i - 1], part(i).off, g[i], ref.at[i])
    IN image[Len(Parts)]

(* Parts that are no single run are read one by one, short or not.          *)
ReadScattered ==
    /\ stage = "read" /\ ~ref.contiguous /\ cgot[0] = NotRead
    /\ \E g \in {f \in [Ps -> 0 .. slot_bytes] :
                    \A i \in Ps : f[i] \in Transfers(part(i).off, bytes(i))} :
          /\ cgot' = [cgot EXCEPT ![0] = Total(g, Len(Parts))]
          /\ slot' = Filled(g)
    /\ pad' = 0
    /\ UNCHANGED <<checkpoint, given, stage, ref, chunk, nchunk>>

-----------------------------------------------------------------------------
Reported == Total([k \in 1 .. nchunk |-> cgot[k - 1]], nchunk)

Covered_NoPad == IF nchunk = 1 THEN cgot[0] = ref.nbytes ELSE Reported >= ref.nbytes
(* Chunks report bytes of the window, which starts pad bytes earlier.       *)
Covered == IF nchunk = 1 THEN cgot[0] = ref.nbytes ELSE Reported >= pad + ref.nbytes

(* After the barrier: publish what arrived, release the slot otherwise.     *)
Judge ==
    /\ stage = "read" /\ \A k \in DOMAIN cgot : cgot[k] # NotRead
    /\ stage' = IF Covered THEN "served" ELSE "short"
    /\ UNCHANGED <<checkpoint, given, ref, pad, chunk, nchunk, cgot, slot>>

ReadNext ==
    \/ Opens \/ Refer \/ Plan \/ ReadWhole \/ (\E k \in DOMAIN cgot : ReadChunk(k))
    \/ ReadScattered \/ Judge

ReadSpec == ReadInit /\ [][ReadNext]_read_vars

-----------------------------------------------------------------------------
(* Properties *)

(* Type correctness; a batch never makes more work items than its arrays    *)
(* hold, and no chunk ends beyond the slot.                                 *)
ReadTypeOK ==
    /\ st \in {"closed", "open", "refused"}
    /\ stage \in {"refer", "plan", "read", "served", "short", "dropped"}
    /\ nchunk * nw <= ITEMS /\ Cardinality(DOMAIN cgot) = nchunk
    /\ chunk % ALIGN = 0 /\ pad \in 0 .. ALIGN - 1
    /\ DOMAIN slot = 0 .. slot_bytes - 1
    /\ \A k \in DOMAIN cgot : cgot[k] \in Nat \cup {NotRead}

(* What is served is the expert: every part's bytes lie where fill_q looks  *)
(* for them, inside the slot, whichever way they were read and in whatever  *)
(* order.                                                                   *)
ServedWhole ==
    stage = "served" =>
        \A i \in Ps : \A b \in 0 .. bytes(i) - 1 :
            /\ pad + ref.at[i] + b \in DOMAIN slot
            /\ slot[pad + ref.at[i] + b] = part(i).off + b

(* An expert is lost only to a read that failed: the division of the window *)
(* leaves no byte of it unread, and an expert no larger than the one the    *)
(* slots were sized from has its window fit.                                *)
Requested(k) ==
    IF nchunk = 1 THEN ref.nbytes
    ELSE Min({chunk, len - k * chunk, size - lo - k * chunk})
NothingLost ==
    /\ stage = "short" => \E k \in DOMAIN cgot : cgot[k] < Requested(k)
    /\ (stage = "read" /\ up(ref.nbytes + 2 * ALIGN) <= slot_bytes) => len <= slot_bytes

(* Either way of a read: the expert is served whole, or a read failed.      *)
ExpertWhole == ServedWhole /\ NothingLost
=============================================================================
