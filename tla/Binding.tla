------------------------------- MODULE Binding -------------------------------
(***************************************************************************)
(* k3_bind.c: what of a layer the kernels need, in which format and how    *)
(* much of it, and where it comes to lie: copied into one blob from the    *)
(* safetensors shards (k3_bind_layer), or pointed at inside the packed run *)
(* of a streamed layer, with the vectors widened behind it                 *)
(* (k3_bind_layer_mem).                                                    *)
(*                                                                         *)
(* The matrices are read through k3_mmw in the one format the layer is     *)
(* tagged with; the vectors are read as floats.  A tensor on disk is       *)
(* [dt, shape]; one that is bound is [as, from, at, off, len]: its format  *)
(* now and on disk, and its bytes in the run, the widen area or the blob.  *)
(***************************************************************************)
EXTENDS Config

CONSTANT WidenSlack      \* 4096: slack for the alignment of the widened vectors

ASSUME BindingAssumption == WidenSlack \in Nat

req(name, narrow, want, take) ==
    [name |-> name, narrow |-> narrow, want |-> want, take |-> take]
reqw(name, want) == req(name, FALSE, want, want)     \* wide: floats
reqn(name, want) == req(name, TRUE, want, want)      \* narrow: as on disk

-----------------------------------------------------------------------------
(* plan_layer. *)

P(c) == c.kda_heads * c.kda_head_dim

Norms(c) == <<
    reqw("in_norm", c.hidden), reqw("post_norm", c.hidden),
    reqw("attn_res_norm", c.hidden), reqw("attn_res_proj", c.hidden),
    reqw("mlp_res_norm", c.hidden), reqw("mlp_res_proj", c.hidden)>>

Mla(c) ==
    LET qh == c.qk_nope + c.qk_rope IN
    << reqn("q_a", c.q_lora * c.hidden), reqw("q_a_norm", c.q_lora),
       reqn("q_b", c.n_heads * qh * c.q_lora),
       reqn("kv_a", (c.kv_lora + c.qk_rope) * c.hidden), reqw("kv_a_norm", c.kv_lora),
       reqn("kv_b", c.n_heads * (c.qk_nope + c.v_head) * c.kv_lora),
       reqn("mla_o", c.hidden * c.n_heads * c.v_head)>>
    \o IF c.mla_out_gate THEN <<reqn("mla_g", c.n_heads * c.v_head * c.hidden)>> ELSE <<>>

(* Of A_log, shipped with head_dim values, the first one per head. *)
A_log(c) == req("A_log", FALSE, c.kda_head_dim, c.kda_heads)

Kda(c) == <<
    reqn("q", P(c) * c.hidden), reqn("k", P(c) * c.hidden), reqn("v", P(c) * c.hidden),
    reqn("g", P(c) * c.hidden), reqn("o", c.hidden * P(c)),
    reqw("q_conv", P(c) * c.conv_k), reqw("k_conv", P(c) * c.conv_k),
    reqw("v_conv", P(c) * c.conv_k),
    reqn("f_a", c.kda_head_dim * c.hidden), reqn("f_b", P(c) * c.kda_head_dim),
    reqn("b", c.kda_heads * c.hidden),
    A_log(c), reqw("dt_bias", P(c)), reqw("o_norm", c.kda_head_dim)>>

Dense(c) == <<
    reqn("dense_gate", c.dense_inter * c.hidden), reqn("dense_up", c.dense_inter * c.hidden),
    reqn("dense_down", c.hidden * c.dense_inter)>>

Moe(c) ==
    LET SI == c.moe_inter * c.n_shared IN
    << reqw("gate", c.n_experts * c.hidden), reqw("bias", c.n_experts),
       reqn("down", c.latent * c.hidden), reqn("up", c.hidden * c.latent),
       reqw("latent_norm", c.latent),
       reqn("sh1", SI * c.hidden), reqn("sh3", SI * c.hidden), reqn("sh2", c.hidden * SI)>>

plan_layer(c, L) ==
    Norms(c) \o (IF is_mla(c, L) THEN Mla(c) ELSE Kda(c))
             \o (IF is_dense(c, L) THEN Dense(c) ELSE Moe(c))

plan_model(c, embed, lm_head) ==
    (IF embed THEN <<reqn("embed", c.vocab * c.hidden)>> ELSE <<>>)
    \o <<reqw("norm", c.hidden), reqw("out_res_norm", c.hidden), reqw("out_res_proj", c.hidden)>>
    \o (IF lm_head THEN <<reqn("lm_head", c.vocab * c.hidden)>> ELSE <<>>)

-----------------------------------------------------------------------------
(* Laying regions of some sizes one behind another, each on eight bytes, an *)
(* empty one too.                                                           *)

Nowhere == -1                    \* the size of what needs no region

align8_Not(x) == x               \* mutant
align8(x) == ((x + 7) \div 8) * 8

Ends(size) ==
    LET end[i \in 0 .. Len(size)] ==
            IF i = 0 THEN 0
            ELSE IF size[i] = Nowhere THEN end[i - 1] ELSE align8(end[i - 1]) + size[i]
    IN end

numel(t) == LET times[i \in 0 .. Len(t.shape)] ==
                    IF i = 0 THEN 1 ELSE t.shape[i] * times[i - 1]
            IN times[Len(t.shape)]

(* What the plan's tensors become, by name. *)
ByName(plan, bound) ==
    [name \in {plan[i].name : i \in DOMAIN plan} |->
        bound[CHOOSE i \in DOMAIN plan : plan[i].name = name]]

-----------------------------------------------------------------------------
(* k3_bind_layer and k3_bind_model_parts: out of the shards into a blob. *)

elem(q) == IF q.narrow THEN 2 ELSE 4

(* plan_resolve refuses these. *)
Unresolved(tensors, q) ==
    \/ q.name \notin DOMAIN tensors
    \/ numel(tensors[q.name]) # q.want
    \/ q.take > q.want

Demoted(tensors, q) == q.narrow /\ tensors[q.name].dt # "BF16"

AllWide(plan) == [i \in DOMAIN plan |-> [plan[i] EXCEPT !.narrow = FALSE]]

(* Mutant: only the tensors that are not BF16 are widened. *)
Resolved_Each(tensors, plan) ==
    [i \in DOMAIN plan |->
        [plan[i] EXCEPT !.narrow = @ /\ ~Demoted(tensors, plan[i])]]

(* One matrix that is not BF16, and the whole layer is bound as floats. *)
Resolved(tensors, plan) ==
    IF \E i \in DOMAIN plan : Demoted(tensors, plan[i]) THEN AllWide(plan) ELSE plan

(* k3_st_read_f32 reads these, and k3_st_read any. *)
Widens(dt) == dt \in {"F32", "BF16", "F16", "U8"}

bind_resident(tensors, plan) ==
    IF \E i \in DOMAIN plan : Unresolved(tensors, plan[i]) THEN Refused
    ELSE LET p == Resolved(tensors, plan)
             size == [i \in DOMAIN p |-> p[i].take * elem(p[i])]
             bound == [i \in DOMAIN p |->
                        [as |-> IF p[i].narrow THEN "BF16" ELSE "F32",
                         from |-> tensors[p[i].name].dt, at |-> "blob",
                         off |-> Ends(size)[i] - size[i], len |-> size[i]]]
         IN IF \E i \in DOMAIN p : ~p[i].narrow /\ ~Widens(tensors[p[i].name].dt)
            THEN Refused
            ELSE [ok |-> TRUE, tag |-> IF p = plan THEN "BF16" ELSE "F32",
                  cap |-> Ends(size)[Len(p)], dest |-> ByName(p, bound)]

-----------------------------------------------------------------------------
(* k3_bind_layer_mem: out of a packed run. *)

(* Mutant: the router gate, which dominates, is forgotten. *)
widen_bytes_NoGate(c) ==
    (6 * c.hidden + c.q_lora + c.kv_lora + c.latent) * 4 + WidenSlack

widen_bytes(c) ==
    (6 * c.hidden + c.q_lora + c.kv_lora + c.latent + c.n_experts * c.hidden) * 4 + WidenSlack

(* Per-row int8: a scale and the row's bytes, so that the bytes tell the    *)
(* rows; the element count of a matrix that stays as it is goes unchecked.  *)
nbytes(t) ==
    CASE t.dt = "F32" -> 4 * numel(t)
      [] t.dt = "U8"  -> numel(t)
      [] t.dt = "I8R" -> 4 * t.shape[1] + numel(t)
      [] OTHER        -> 2 * numel(t)

RowsTell(t, take) ==
    LET rows == (nbytes(t) - take) \div 4 IN
    /\ (nbytes(t) - take) % 4 = 0
    /\ rows > 0 /\ take % rows = 0

Unfit(tensors, q) ==
    \/ q.name \notin DOMAIN tensors
    \/ LET t == tensors[q.name] IN
       IF t.dt = "I8R" THEN ~q.narrow /\ ~RowsTell(t, q.take)
       ELSE numel(t) # q.want \/ q.take > numel(t) \/ t.dt \notin {"BF16", "F32"}

(* A matrix stays where it is, and so do floats; the rest is widened. *)
InPlace(t, q) == q.narrow \/ t.dt = "F32"

bind_layer_mem(c, L, tensors) ==
    LET plan == plan_layer(c, L)
        t(i) == tensors[plan[i].name]
        size == [i \in DOMAIN plan |-> IF InPlace(t(i), plan[i]) THEN Nowhere ELSE plan[i].take * 4]
        i8_seen == \E i \in DOMAIN plan : plan[i].narrow /\ t(i).dt = "I8R"
        narrowed_all == \A i \in DOMAIN plan : plan[i].narrow => t(i).dt \in {"BF16", "I8R"}
        bound == [i \in DOMAIN plan |->
            IF size[i] = Nowhere
            THEN [as |-> t(i).dt, from |-> t(i).dt, at |-> "run", off |-> 0, len |-> 0]
            ELSE [as |-> "F32", from |-> t(i).dt, at |-> "widen",
                  off |-> Ends(size)[i] - size[i], len |-> size[i]]]
    IN IF \/ \E i \in DOMAIN plan : Unfit(tensors, plan[i])
          \/ Ends(size)[Len(plan)] > widen_bytes(c)
          \/ ~narrowed_all /\ ~i8_seen
       THEN Refused
       ELSE [ok |-> TRUE, tag |-> IF i8_seen THEN "I8R" ELSE "BF16",
             cap |-> widen_bytes(c), dest |-> ByName(plan, bound)]

-----------------------------------------------------------------------------
(* model_matrix: a streamed embedding or lm_head, with a format of its own. *)

model_matrix(c, tensors, name) ==
    /\ name \in DOMAIN tensors
    /\ tensors[name].shape = <<c.vocab, c.hidden>>
    /\ tensors[name].dt \in {"BF16", "F32"}

stream_init(c, tensors) ==
    model_matrix(c, tensors, "embed") /\ model_matrix(c, tensors, "lm_head")

-----------------------------------------------------------------------------
(* What the kernels read: a matrix in the format of the tag, the rest as    *)
(* floats.                                                                  *)

Matrices == {"q_a", "q_b", "kv_a", "kv_b", "mla_o", "mla_g", "q", "k", "v", "g", "o",
             "f_a", "f_b", "b", "dense_gate", "dense_up", "dense_down", "down", "up",
             "sh1", "sh3", "sh2", "embed", "lm_head"}

ReadRight(bound, name) ==
    bound.dest[name].as = IF name \in Matrices THEN bound.tag ELSE "F32"

(* Copies lie inside their area, on eight bytes, and share none. *)
Region(d) == d.off .. d.off + d.len - 1
LaidOut(bound) ==
    \A m, n \in DOMAIN bound.dest :
        LET d == bound.dest[m]  e == bound.dest[n] IN
        d.at # "run" =>
            /\ d.off % 8 = 0 /\ d.off + d.len <= bound.cap
            /\ m # n /\ e.at # "run" =>
                  d.off + d.len <= e.off \/ e.off + e.len <= d.off
=============================================================================
