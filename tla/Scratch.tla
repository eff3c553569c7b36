------------------------------- MODULE Scratch -------------------------------
(***************************************************************************)
(* The one work buffer of a pass: how many floats k3_ops.c says a layer    *)
(* needs, which main() allocates once for the longest sequence, and how    *)
(* many the layer's regions, laid one behind another, then reach.          *)
(***************************************************************************)
EXTENDS Config

Larger(a, b) == IF a > b THEN a ELSE b

-----------------------------------------------------------------------------
(* What is asked for. *)

mla_scratch(c, n, cap, held) ==
    n * c.n_heads * (c.qk_nope + c.qk_rope) + c.kv_lora + c.qk_rope + c.q_lora
    + 2 * c.n_heads * c.v_head + Larger(cap, n)
    + IF held THEN 0 ELSE n * c.n_heads * (c.qk_nope + c.v_head) + n * c.qk_rope

kda_scratch_OneRow(c, n) ==      \* mutant: the heads share the gate buffer's row
    LET width == c.kda_heads * c.kda_head_dim IN
    6 * n * width + n * c.kda_heads + width + c.kda_head_dim

kda_scratch(c, n) ==
    LET width == c.kda_heads * c.kda_head_dim IN
    6 * n * width + n * c.kda_heads + 2 * width + c.kda_head_dim

moe_scratch(c) ==
    2 * c.latent + 3 * c.moe_inter + c.latent + 3 * c.moe_inter * c.n_shared + c.hidden

Stack(c) == c.n_layers \div c.attn_res_block + 2

(* The largest of attention and experts: no dense layer among them. *)
sub_scratch(c, n) ==
    Larger(Larger(mla_scratch(c, n, n, FALSE), kda_scratch(c, n)), moe_scratch(c))

layer_scratch_OneGate(c, n) ==   \* mutant: the dense gate and up in one row
    (3 * n + 2 + Stack(c)) * c.hidden + c.dense_inter + sub_scratch(c, n)

layer_scratch(c, n) ==
    (3 * n + 2 + Stack(c)) * c.hidden + 2 * c.dense_inter + sub_scratch(c, n)

(* sc_need of main(). *)
Allocated(c, most) == Larger(layer_scratch(c, most), mla_scratch(c, most, most, TRUE))

-----------------------------------------------------------------------------
(* What is used, over n positions behind cached ones. *)

Sum(regions) ==
    LET sum[i \in 0 .. Len(regions)] == IF i = 0 THEN 0 ELSE sum[i - 1] + regions[i]
    IN sum[Len(regions)]

(* q, the compressed row, q_a's output, accumulator, gate, a score for each *)
(* position seen; keys, values and rope slots where they are not cached.    *)
MlaReach(c, n, cached, held) ==
    Sum(<<n * c.n_heads * (c.qk_nope + c.qk_rope), c.kv_lora + c.qk_rope, c.q_lora,
          c.n_heads * c.v_head, c.n_heads * c.v_head, cached + n,
          IF held THEN 0 ELSE n * c.n_heads * (c.qk_nope + c.v_head),
          IF held THEN 0 ELSE n * c.qk_rope>>)

(* q, k, v, the gate's input, decay, beta, output, gate, scaled q, f_a.     *)
KdaReach(c, n) ==
    LET width == c.kda_heads * c.kda_head_dim IN
    Sum(<<n * width, n * width, n * width, n * width, n * width, n * c.kda_heads,
          n * width, width, width, c.kda_head_dim>>)

(* A batch keeps its latents elsewhere, and lays the shared expert over the *)
(* routed ones.                                                             *)
MoeReach(c, batched) ==
    LET routed == Sum(<<2 * c.moe_inter, c.moe_inter, c.latent>>)
        shared == Sum(<<2 * c.moe_inter * c.n_shared, c.moe_inter * c.n_shared, c.hidden>>)
    IN IF batched THEN Larger(routed, shared) ELSE 2 * c.latent + routed + shared

DenseReach(c) == c.dense_inter

(* Behind residual, output, input, the two folds, the source stack and the  *)
(* dense gate and up.                                                       *)
LayerReach(c, n, sub) ==
    Sum(<<n * c.hidden, n * c.hidden, n * c.hidden, c.hidden, c.hidden,
          Stack(c) * c.hidden, 2 * c.dense_inter, sub>>)

(* The last aggregation: the fold, the snapshots and the residual. *)
RankReach(c, snapshots) == (snapshots + 2) * c.hidden
=============================================================================
