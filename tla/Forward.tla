------------------------------- MODULE Forward -------------------------------
(***************************************************************************)
(* The forward pass: forward() of k3_run.c with the layers it walks        *)
(* (DecoderLayer), the weights they are bound to (Binding), the config     *)
(* they are sized by (Config) and the trunk they are streamed from         *)
(* (TrunkSource, which TrunkRing implements); and what its callers, the    *)
(* decode loop and chat, do with the state it carries: snapshot, restore   *)
(* and replay, clear, draw a token from the logits (Sampler).              *)
(***************************************************************************)
EXTENDS DecoderLayer, Binding, Sampler, Scratch

CONSTANTS
    Jobs,           \* processes: [doc, meant, store, index, opts, good]
    Feeds,          \* token sequences a caller adds at once
    Tmax,           \* positions the buffers hold
    RowsPerChunk,   \* rows of lm_head read at once in ultra mode
    Weight(_, _),   \* the value of a weight of the checkpoint
    MaxPasses,      \* bound: passes begun
    MaxFails        \* bound: reads that fail

ASSUME ForwardAssumption ==
    /\ Tmax \in Nat \ {0} /\ RowsPerChunk \in Nat \ {0}
    /\ MaxPasses \in Nat /\ MaxFails \in Nat
    /\ \A j \in Jobs : j.good \in BOOLEAN
    /\ Feeds \subseteq Seq(Nat)

(* The options, as main() lets them through. *)
Options == [incremental : BOOLEAN, ultra : BOOLEAN, trunk : BOOLEAN, batch : BOOLEAN,
            draft : BOOLEAN, greedy : BOOLEAN, layers : Int, top_k : Int,
            top_p : {p \in [num : Nat \ {0}, den : Nat \ {0}] : p.num <= p.den}]

ASSUME JobsAssumption == \A j \in Jobs : j.opts \in Options

Junk == -1          \* what malloc left, or a weight read in the wrong format

VARIABLES
    job,            \* this process: its options, config and checkpoint
    pc,
    cfg,            \* the config as loaded
    mb, lay,        \* model-level weights and each layer's, as bound
    src_state, src_layer, src_bytes,     \* the loan of a streamed layer
    seq, cached,    \* the caller's tokens, and how many the state has absorbed
    base, full,     \* of this pass: its first position, arg_all given
    L, nb,          \* layer, snapshots so far
    h, br,          \* hidden states, block snapshots
    ks, rows,       \* recurrent states, KV rows of each MLA layer
    lg, args,       \* logits, argmax by position
    snap,           \* the caller's copy of ks, and the positions it stands for
    passes, fails

process == <<job, cfg, mb>>
loan    == <<src_state, src_layer, src_bytes>>
caller  == <<seq, cached, snap, passes>>
pass    == <<base, full, L, nb, h, br>>
carried == <<ks, rows>>
out     == <<lg, args>>
vars    == <<pc, process, lay, loan, caller, pass, carried, out, fails>>

opts  == job.opts
store == job.store
c     == cfg.c
LayersOf(m) == 0 .. m.meant.n_layers - 1

(* --layers, where it is less than the model has. *)
NL == IF opts.layers \in 1 .. c.n_layers THEN opts.layers ELSE c.n_layers

(* The dense numbers of the MLA layers. *)
mla_slot(n) == Cardinality({m \in 0 .. n - 1 : is_mla(c, m)})

OneState == opts.ultra /\ ~opts.incremental
state_layers == IF OneState THEN 1 ELSE NL
StateOf(n) == IF OneState THEN 0 ELSE n

T == Len(seq) - base
fed == SubSeq(seq, base + 1, Len(seq))

-----------------------------------------------------------------------------
(* Weights. *)

Source == INSTANCE TrunkSource WITH
    Layers <- UNION {LayersOf(j) : j \in Jobs}, NoBytes <- Junk,
    state <- src_state, layer <- src_layer, bytes <- src_bytes

(* A weight as its format on disk has it. *)
OnDisk(n, name, dt) ==
    IF dt = "I8R" THEN Kernel("int8", <<Weight(n, name)>>) ELSE Weight(n, name)

Weights(m, n) ==
    LET tensors == m.store[n]
    IN [name \in DOMAIN tensors |-> OnDisk(n, name, tensors[name].dt)]

(* What a kernel of layer n gets: streamed weights are the bytes now lent.  *)
Got(n) ==
    [name \in DOMAIN lay[n].dest |->
        IF ~ReadRight(lay[n], name) THEN Junk
        ELSE OnDisk(IF opts.trunk THEN src_bytes ELSE n, name, lay[n].dest[name].from)]

ModelLevel == c.n_layers      \* the store of the model-level weights

GotOfModel ==
    [name \in DOMAIN mb.dest |->
        IF ReadRight(mb, name) THEN OnDisk(ModelLevel, name, mb.dest[name].from) ELSE Junk]

(* A read that may fail. *)
Reads(ok) ==
    /\ ~ok => fails < MaxFails
    /\ fails' = IF ok THEN fails ELSE fails + 1

-----------------------------------------------------------------------------
(* Start. *)

NoState == [S |-> Junk, q |-> <<>>, k |-> <<>>, v |-> <<>>]

Init ==
    /\ job \in Jobs
    /\ pc = "config" /\ cfg = Refused /\ mb = Refused /\ lay = <<>>
    /\ Source!Init /\ src_layer = 0
    /\ seq = <<>> /\ cached = 0 /\ passes = 0 /\ fails = 0
    /\ snap = [ks |-> <<>>, at |-> 0]
    /\ base = 0 /\ full = FALSE /\ L = 0 /\ nb = 0 /\ h = <<>> /\ br = <<>>
    /\ ks = <<>> /\ rows = <<>>
    /\ lg = <<>> /\ args = <<>>

Loads ==
    /\ pc = "config"
    /\ cfg' = k3_cfg_load(job.doc)
    /\ pc' = IF cfg'.ok THEN "trunk" ELSE "refused"
    /\ UNCHANGED <<job, mb, lay, loan, caller, pass, carried, out, fails>>

(* Resident: every layer is bound, each tensor read whole.                  *)
BindsLayers ==
    /\ pc = "trunk" /\ ~opts.trunk
    /\ lay' = [n \in 0 .. NL - 1 |-> bind_resident(store[n], plan_layer(c, n))]
    /\ \E ok \in BOOLEAN :
          /\ Reads(ok)
          /\ pc' = IF ok /\ \A n \in DOMAIN lay' : lay'[n].ok THEN "model" ELSE "refused"
    /\ UNCHANGED <<process, loan, caller, pass, carried, out>>

(* Streamed: the index of the packed trunk is checked, no layer is bound.   *)
IndexHolds(index) ==
    /\ index.layers > 0
    /\ \A e \in index.entries : e.off >= 0 /\ e.nbytes >= 0 /\ e.off + e.nbytes <= e.run

OpensTrunk ==
    /\ pc = "trunk" /\ opts.trunk
    /\ lay' = [n \in 0 .. NL - 1 |-> Refused]
    /\ pc' = IF IndexHolds(job.index) /\ job.index.layers >= NL
             THEN "model" ELSE "refused"
    /\ UNCHANGED <<process, loan, caller, pass, carried, out, fails>>

(* The model-level weights, and the buffers: malloc'd, but for the KV cache *)
(* and, in incremental mode, the cleared states.                            *)
BindsModel ==
    /\ pc = "model"
    /\ mb' = bind_resident(store[ModelLevel], plan_model(c, ~opts.ultra, ~opts.ultra))
    /\ \E ok \in BOOLEAN :
          /\ Reads(ok)
          /\ pc' = IF ok /\ mb'.ok /\ (opts.ultra => stream_init(c, store[ModelLevel]))
                   THEN "ready" ELSE "refused"
    /\ ks' = [n \in 0 .. state_layers - 1 |->
                IF opts.incremental THEN ClearState(c) ELSE NoState]
    /\ rows' = [mi \in 0 .. mla_slot(NL) - 1 |-> [p \in 0 .. Tmax - 1 |-> Zero]]
    /\ UNCHANGED <<job, cfg, lay, loan, caller, pass, out>>

-----------------------------------------------------------------------------
(* A pass. *)

(* The caller appends tokens and has them fed: from where the state ends,   *)
(* or all of them.  The embedding rows are read, the block snapshots and,   *)
(* unless the state is carried, the recurrent states cleared.               *)
Feed(new, all) ==
    /\ pc \in {"ready", "answered"} /\ passes < MaxPasses
    /\ seq' = seq \o new /\ Len(seq') <= Tmax
    /\ base' = IF opts.incremental THEN cached ELSE 0
    /\ base' < Len(seq')
    /\ full' = all
    /\ passes' = passes + 1
    /\ \E ok \in BOOLEAN :
          /\ Reads(ok) /\ (~opts.ultra => ok)
          /\ pc' = IF ok THEN "layer" ELSE "failed"
    /\ LET n == Len(seq') - base'
           embed == IF opts.ultra THEN Weight(ModelLevel, "embed") ELSE GotOfModel.embed
       IN /\ h' = [t \in 1 .. n |-> Kernel("embed", <<embed, seq'[base' + t]>>)]
          /\ br' = [i \in 0 .. n * maxb(c) - 1 |-> Zero]
    /\ ks' = IF opts.incremental \/ pc' = "failed" THEN ks
             ELSE [n \in DOMAIN ks |-> ClearState(c)]
    /\ L' = 0 /\ nb' = 0 /\ args' = <<>>
    /\ UNCHANGED <<process, lay, loan, cached, snap, rows, lg>>

(* k3_trunk_bind: the layer is fetched, its bytes lent, and bound to.       *)
Fetches ==
    /\ pc = "layer" /\ L < NL /\ opts.trunk
    /\ Source!Ask(L)
    /\ pc' = "fetch"
    /\ UNCHANGED <<process, lay, caller, pass, carried, out, fails>>

Lent ==
    /\ pc = "fetch"
    /\ Source!Lend
    /\ lay' = [lay EXCEPT ![L] = bind_layer_mem(c, L, store[src_bytes'])]
    /\ pc' = IF lay'[L].ok THEN "attention" ELSE "failed"
    /\ UNCHANGED <<process, caller, pass, carried, out, fails>>

NotLent ==
    /\ pc = "fetch"
    /\ Source!Refuse /\ Reads(FALSE)
    /\ pc' = "failed"
    /\ UNCHANGED <<process, lay, caller, pass, carried, out>>

AlreadyBound ==
    /\ pc = "layer" /\ L < NL /\ ~opts.trunk
    /\ pc' = "attention"
    /\ UNCHANGED <<process, lay, loan, caller, pass, carried, out, fails>>

(* The first half of k3_decoder_layer_inc: aggregation once snapshots       *)
(* exist, the snapshot at a block boundary, attention.  h is the running    *)
(* residual from here to the end of the layer.                              *)
Attends ==
    LET w == Got(L)
        boundary == L % c.attn_res_block = 0
        seen == IF nb > 0 THEN Aggregated(c, br, nb, h, fold_attn(w)) ELSE h
        hin == Table([t \in DOMAIN h |-> rmsnorm(seen[t], w.in_norm, c)])
        state == IF OneState THEN ClearState(c) ELSE ks[StateOf(L)]
        kda == kda_layer(c, w, hin, state)
        held == IF opts.incremental THEN rows[mla_slot(L)] ELSE LocalRows(hin)
        mla == mla_cached(c, w, hin, held, IF opts.incremental THEN cached ELSE 0)
        tmp == IF is_mla(c, L) THEN mla.out ELSE kda.out
    IN
    /\ pc = "attention"
    /\ br' = IF boundary THEN Snapshots(c, br, nb, h) ELSE br
    /\ nb' = IF boundary THEN nb + 1 ELSE nb
    /\ ks' = IF is_mla(c, L) THEN [ks EXCEPT ![StateOf(L)] = state]
             ELSE [ks EXCEPT ![StateOf(L)] = kda.state]
    /\ rows' = IF is_mla(c, L) /\ opts.incremental
               THEN [rows EXCEPT ![mla_slot(L)] = mla.rows] ELSE rows
    /\ h' = [t \in DOMAIN h |-> IF boundary THEN tmp[t] ELSE add(h[t], tmp[t])]
    /\ pc' = "mlp"
    /\ UNCHANGED <<process, lay, loan, caller, base, full, L, out, fails>>

(* The activations of a dense layer reach past the work buffer: no dense    *)
(* layer is in what k3_layer_scratch counts as the sub-block.               *)
Overruns == is_dense(c, L) /\ LayerReach(c, T, DenseReach(c)) > Allocated(c, Tmax)

(* What a process is like that has written there is not modelled. *)
Spills ==
    /\ pc = "mlp" /\ Overruns
    /\ pc' = "astray"
    /\ UNCHANGED <<process, lay, loan, caller, pass, carried, out, fails>>

(* The second half, and what forward() makes of an expert that was lost.    *)
Mlp ==
    LET w == Got(L)
        seen == Aggregated(c, br, nb, h, fold_mlp(w))
        hin == Table([t \in DOMAIN h |-> rmsnorm(seen[t], w.post_norm, c)])
        Adds(tmp) == h' = [t \in DOMAIN h |-> add(h[t], tmp[t])]
    IN
    /\ pc = "mlp" /\ ~Overruns
    /\ \/ /\ is_dense(c, L)
          /\ Adds(dense(c, w, hin))
          /\ pc' = "layer" /\ UNCHANGED fails
       \/ /\ ~is_dense(c, L) /\ ~opts.draft
          /\ \E lost \in {{}} \cup {{e} : e \in Routed(c, w, hin)} :
                /\ Adds(IF T > 1 /\ opts.batch THEN k3_moe_prefill(c, w, L, hin, lost)
                        ELSE k3_moe(c, w, L, hin, lost))
                /\ Reads(lost = {})
                /\ pc' = IF lost = {} THEN "layer" ELSE "failed"
       \/ /\ ~is_dense(c, L) /\ opts.draft
          /\ \E resident \in SUBSET Routed(c, w, hin) :
                Adds(moe_draft(c, w, L, hin, resident))
          /\ pc' = "layer" /\ UNCHANGED fails
    /\ L' = L + 1
    /\ UNCHANGED <<process, lay, loan, caller, base, full, nb, br, carried, out>>

(* The model-level aggregator, norm and projection: of the last position,   *)
(* or one after another.  In ultra mode lm_head is read a chunk at a time;  *)
(* a read that fails leaves the logits written up to there.                 *)
Ranks ==
    LET w == GotOfModel
        fold == mul(w.out_res_norm, w.out_res_proj)
        agg == Aggregated(c, br, nb, h, fold)
        top(t) == rmsnorm(agg[t], w.norm, c)
        W == IF opts.ultra THEN Weight(ModelLevel, "lm_head") ELSE w.lm_head
        logits(t) == LET x == top(t) IN
                     Table([v \in 0 .. c.vocab - 1 |-> Kernel("logit", <<x, W, v>>)])
        first == IF full THEN 1 ELSE T
        best(ts) == [p \in {base + t : t \in ts} |-> argmax(logits(p - base))]
        Torn(t, n) == [v \in 0 .. c.vocab - 1 |->
                        IF v < n * RowsPerChunk THEN logits(t)[v]
                        ELSE IF t > first THEN logits(t - 1)[v]
                        ELSE IF v \in DOMAIN lg THEN lg[v] ELSE Junk]
    IN
    /\ pc = "layer" /\ L = NL
    /\ \/ /\ lg' = logits(T)
          /\ args' = best(IF full THEN 1 .. T ELSE {})
          /\ cached' = IF opts.incremental THEN Len(seq) ELSE cached
          /\ pc' = "answered" /\ UNCHANGED fails
       \/ /\ opts.ultra /\ Reads(FALSE)
          /\ \E t \in first .. T, n \in 0 .. (c.vocab - 1) \div RowsPerChunk :
                /\ lg' = Torn(t, n)
                /\ args' = best(first .. t - 1)
          /\ pc' = "failed" /\ UNCHANGED cached
    /\ UNCHANGED <<process, lay, loan, seq, snap, passes, pass, carried>>

-----------------------------------------------------------------------------
(* The callers. *)

Sampled == k3_sampler_next(lg, opts.greedy, opts.top_k, opts.top_p)

Draws ==
    /\ pc = "answered" /\ Len(seq) < Tmax
    /\ \E x \in Sampled \ {NoToken} : seq' = Append(seq, x)
    /\ pc' = "ready"
    /\ UNCHANGED <<process, lay, loan, cached, snap, passes, pass, carried, out, fails>>

(* The sampler failed, and with it the turn. *)
NotDrawn ==
    /\ pc = "answered" /\ Len(seq) < Tmax
    /\ NoToken \in Sampled /\ Reads(FALSE)
    /\ pc' = "failed"
    /\ UNCHANGED <<process, lay, loan, caller, pass, carried, out>>

(* Before a sweep over a draft. *)
Snapshot ==
    /\ pc \in {"ready", "answered"} /\ opts.incremental
    /\ cached > snap.at
    /\ snap' = [ks |-> ks, at |-> cached]
    /\ UNCHANGED <<pc, process, lay, loan, seq, cached, passes, pass, carried, out, fails>>

(* After a rejected draft: the recurrent states are restored, the tokens    *)
(* cut, and the rows left as they are.  A draft model whose pass failed is  *)
(* rewound in the same way.                                                 *)
Rewinds(keep) ==
    /\ pc = "answered" \/ (pc = "failed" /\ opts.draft)
    /\ opts.incremental /\ snap.at > 0
    /\ keep \in snap.at + 1 .. Len(seq)
    /\ ks' = snap.ks /\ cached' = snap.at
    /\ seq' = SubSeq(seq, 1, keep)
    /\ pc' = "ready"
    /\ UNCHANGED <<process, lay, loan, snap, passes, pass, rows, out, fails>>

(* A turn of chat that can reuse nothing. *)
Clears ==
    /\ pc \in {"ready", "answered"} /\ opts.incremental /\ cached > 0
    /\ ks' = [n \in DOMAIN ks |-> ClearState(c)]
    /\ rows' = [mi \in DOMAIN rows |-> [p \in DOMAIN rows[mi] |-> Zero]]
    /\ seq' = <<>> /\ cached' = 0 /\ snap' = [ks |-> <<>>, at |-> 0]
    /\ pc' = "ready"
    /\ UNCHANGED <<process, lay, loan, passes, pass, out, fails>>

Next ==
    \/ Loads \/ BindsLayers \/ OpensTrunk \/ BindsModel
    \/ \E new \in Feeds, all \in BOOLEAN : Feed(new, all)
    \/ Fetches \/ Lent \/ NotLent \/ AlreadyBound \/ Attends \/ Mlp \/ Spills \/ Ranks
    \/ Draws \/ NotDrawn \/ Snapshot \/ Clears
    \/ \E keep \in 1 .. Tmax : Rewinds(keep)

Spec == Init /\ [][Next]_vars

-----------------------------------------------------------------------------
(* Properties. *)

(* What a layer is about to compute with lies apart and inside its area;    *)
(* the snapshots and the residual of every position fit the stack a layer   *)
(* aggregates from.                                                         *)
TypeOK ==
    /\ pc \in {"config", "trunk", "model", "ready", "layer", "fetch", "attention", "mlp",
               "answered", "failed", "astray", "refused"}
    /\ Len(seq) \in 0 .. Tmax /\ cached \in 0 .. Len(seq) /\ base \in 0 .. Tmax
    /\ passes \in 0 .. MaxPasses /\ fails \in 0 .. MaxFails
    /\ cfg.ok => L \in 0 .. NL /\ nb \in 0 .. maxb(c) - 1
    /\ pc = "attention" => LaidOut(lay[L])
    /\ pc = "answered" => LaidOut(mb)

Meant(j) == j.meant
Depth(j) == IF j.opts.layers \in 1 .. Meant(j).n_layers THEN j.opts.layers
            ELSE Meant(j).n_layers
Exact(j) == ~j.opts.draft

Model == INSTANCE ExactModel WITH
    Models <- Jobs, Best <- argmax, Texts <- Seq(Nat),
    model <- job, text <- seq,
    answer <- IF pc = "answered" THEN [last |-> lg, best |-> args]
              ELSE [last |-> <<>>, best |-> <<>>]

(* Whatever was carried, cached, batched, streamed, packed or rewound: a    *)
(* pass that ends well answers with the logits of the model that config and *)
(* checkpoint describe, for the text fed, and with the best token of every  *)
(* position asked about.                                                    *)
KeepsModel == Model!Spec

(* Of the positions absorbed, whose input to its attention was xs, layer n  *)
(* carries what it should.                                                  *)
Recalls(n, xs) ==
    LET m == Meant(job)
        w == Weights(job, n)
        Past(name) == Model!Window([t \in DOMAIN xs |-> mmw(xs[t], w[name])],
                                   cached, m.conv_k - 1)
    IN IF is_mla(m, n)
       THEN \A t \in 1 .. cached : rows[mla_slot(n)][t - 1] = mla_row(m, xs[t], w)
       ELSE ks[n] = [S |-> Model!KdaStates(m, w, xs)[cached],
                     q |-> Past("q"), k |-> Past("k"), v |-> Past("v")]

(* Between passes the carried state is that of the positions it has         *)
(* absorbed, as if they had been read in one pass: the recurrent matrix and *)
(* the convolution inputs of each KDA layer, each row of the MLA layers.    *)
CarriesHistory ==
    (pc \in {"ready", "answered"} /\ opts.incremental /\ ~opts.draft) =>
        LET given == Model!Through(job, SubSeq(seq, 1, cached)).given
        IN \A n \in 0 .. NL - 1 : Recalls(n, given[n + 1])

(* How much wider a dense layer is than the sub-block. *)
Uncounted(m, most) == Larger(m.dense_inter - sub_scratch(m, most), 0)

(* Every region of the work buffer that the step at hand writes lies inside *)
(* what was allocated at the start, for sequences up to Tmax, whatever the  *)
(* config: but for the activations of a dense layer wider than attention    *)
(* and experts need, which may reach past it, and by no more than that.     *)
ScratchHolds ==
    LET most == Allocated(c, Tmax) IN
    /\ pc = "attention" =>
          most >= LayerReach(c, T, IF is_mla(c, L)
                                   THEN MlaReach(c, T, IF opts.incremental THEN cached ELSE 0,
                                                 opts.incremental)
                                   ELSE KdaReach(c, T))
    /\ pc = "mlp" =>
          IF is_dense(c, L) THEN most + Uncounted(c, Tmax) >= LayerReach(c, T, DenseReach(c))
          ELSE most >= LayerReach(c, T, MoeReach(c, T > 1 /\ opts.batch /\ ~opts.draft))
    /\ pc = "layer" /\ L = NL => most >= RankReach(c, nb)

(* A process whose config and checkpoint are whole is never refused, and    *)
(* one whose are not never answers, nor gets ready with resident weights; a *)
(* pass ends badly only for a read that failed, or at a layer of a pack     *)
(* that cannot be bound.                                                    *)
FailsForCause ==
    /\ pc = "refused" => fails > 0 \/ ~job.good
    /\ pc = "failed" => fails > 0 \/ ~job.good
    /\ pc = "answered" \/ (pc = "ready" /\ ~opts.trunk) => job.good

(* A drawn token is one the sampling options keep: the first of the best    *)
(* under greedy decoding or where the temperature makes the best logit too  *)
(* large for a double, one of the top_k inside the nucleus otherwise.       *)
DrawsKept ==
    [][Len(seq') > Len(seq) /\ pc = "answered" /\ pc' = "ready" =>
        IF opts.greedy \/ Overflows(lg[argmax(lg)]) THEN seq'[Len(seq')] = argmax(lg)
        ELSE seq'[Len(seq')] \in Kept(lg, opts.top_k, opts.top_p)]_vars
=============================================================================
