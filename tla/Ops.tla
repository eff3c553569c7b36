--------------------------------- MODULE Ops ---------------------------------
(***************************************************************************)
(* The arithmetic of k3_ops.c.  A vector is one value.  Kernel(op, args)   *)
(* is what op makes of its operands, in their order: two results are the   *)
(* same when they are the same computation of the same operands, and are   *)
(* otherwise taken to differ.                                              *)
(*                                                                         *)
(* w[name] is the value a kernel reads for the weight of that name.        *)
(***************************************************************************)
EXTENDS Config

CONSTANT Kernel(_, _)

(* f itself; for the comparison TLC evaluates all of it once, and not each  *)
(* value where it is used.                                                  *)
Table(f) == IF f = f THEN f ELSE <<>>

Zero == 0                        \* a vector of zeros

(* The leaves. *)
rmsnorm(x, gain, c)   == Kernel("rmsnorm", <<x, gain, c.rms_eps>>)
mmw(x, W)             == Kernel("mmw", <<x, W>>)
add(x, y)             == Kernel("add", <<x, y>>)
mul(x, y)             == Kernel("mul", <<x, y>>)
sigmoid(x)            == Kernel("sigmoid", <<x>>)
situ_glu(gate, up, c) == Kernel("situ_glu", <<gate, up, c.situ_b1, c.situ_b2>>)

(* Scores by the normalised source, sums by the raw one. *)
attn_res(sources, fold, c) == Kernel("attn_res", <<fold, c.rms_eps>> \o sources)

(* Taps run from the oldest input to the newest. *)
conv(inputs, taps) == Kernel("conv", <<taps>> \o inputs)

l2norm(x) == Kernel("l2norm", <<x>>)
decay(z, w, c) == Kernel("decay", <<z, w.A_log, w.dt_bias, c.gate_lb>>)

(* Decay, delta write, then the output from the updated state. *)
kda_step(S, k, v, alpha, beta) == Kernel("kda_step", <<S, k, v, alpha, beta>>)
kda_out(S, q) == Kernel("kda_out", <<S, q>>)

(* An expert's score, and what the selection goes by.  One that is Lowest   *)
(* stands for -INFINITY and NaN, which compare greater than nothing.        *)
Lowest == 0
score(x, e, w) == Kernel("score", <<x, w.gate, e>>)
biased(s, e, bias) == Kernel("bias", <<s, bias, e>>)

(* The routing weight of one of the chosen scores. *)
routed(s, chosen, c) ==
    mul(IF c.moe_renorm /\ c.topk > 1 THEN Kernel("renorm", <<s>> \o chosen) ELSE s,
        c.routed_scale)

(* Do these weights add up to more than zero? *)
Positive(wts) == Kernel("sum", wts) > 0

(* One query over the rows up to its own. *)
attend(query, rows) == Kernel("attend", <<query>> \o rows)

-----------------------------------------------------------------------------
(* Parts of the MoE that both of its paths share. *)

expert(c, L, e, z) == Kernel("expert", <<L, e, z, c.situ_b1, c.situ_b2>>)

(* acc + wt * x for each of some [wt, x], in their order. *)
Accumulate(terms) ==
    LET acc[j \in 0 .. Len(terms)] ==
            IF j = 0 THEN Zero ELSE Kernel("axpy", <<acc[j - 1], terms[j].wt, terms[j].x>>)
    IN acc[Len(terms)]

mlp(x, gate, up, down, c) == mmw(situ_glu(mmw(x, gate), mmw(x, up), c), down)

(* The aggregate normalised, not each expert; the shared expert unweighted. *)
moe_tail(c, x, acc, w) ==
    add(mmw(IF c.latent_norm THEN rmsnorm(acc, w.latent_norm, c) ELSE acc, w.up),
        mlp(x, w.sh1, w.sh3, w.sh2, c))

(* Gate, then project. *)
mla_tail(c, x, acc, w) ==
    mmw(IF c.mla_out_gate THEN mul(acc, sigmoid(mmw(x, w.mla_g))) ELSE acc, w.mla_o)

mla_row(c, x, w) == mmw(rmsnorm(mmw(x, w.kv_a), w.kv_a_norm, c), w.kv_b)
mla_query(c, x, w) == mmw(rmsnorm(mmw(x, w.q_a), w.q_a_norm, c), w.q_b)

(* Norm, then gate, then project. *)
kda_tail(c, x, o, w) ==
    mmw(mul(rmsnorm(o, w.o_norm, c), sigmoid(mmw(x, w.g))), w.o)

fold_attn(w) == mul(w.attn_res_norm, w.attn_res_proj)
fold_mlp(w)  == mul(w.mlp_res_norm, w.mlp_res_proj)
=============================================================================
