----------------------------- MODULE ExactModel -----------------------------
(***************************************************************************)
(* What forward() promises the decode loop and chat, with no cached rows,  *)
(* carried state, chunks, streamed layers or packed formats in sight: the  *)
(* logits are those of the model for the text fed so far, the best token   *)
(* of each position asked about is that of its beginning, or the pass      *)
(* fails.                                                                  *)
(*                                                                         *)
(* The model is defined the way the paper has it, layer by layer over a    *)
(* whole text: each position sees the positions up to it.                  *)
(***************************************************************************)
EXTENDS Ops

CONSTANTS
    Models,          \* names of models
    Meant(_),        \* the dimensions a model was trained with
    Depth(_),        \* the layers that are run
    Weights(_, _),   \* the values of a layer's weights, by name
    Exact(_),        \* the model routes to all of its experts
    Best(_),         \* the token greedy decoding takes from logits
    Texts            \* the texts a caller may arrive at

NoAnswer == [last |-> <<>>, best |-> <<>>]

-----------------------------------------------------------------------------
(* The reference. *)

Top(m) == Meant(m).n_layers      \* where the model-level weights are found

(* A position's convolution inputs, zero before the text begins. *)
Window(xs, t, k) == [i \in 1 .. k |-> IF t - k + i >= 1 THEN xs[t - k + i] ELSE Zero]

Conved(c, w, xs, name, taps) ==
    LET proj == Table([t \in DOMAIN xs |-> mmw(xs[t], w[name])])
    IN Table([t \in DOMAIN xs |-> conv(Window(proj, t, c.conv_k), w[taps])])

KdaStates(c, w, xs) ==
    LET k == Conved(c, w, xs, "k", "k_conv")
        v == Conved(c, w, xs, "v", "v_conv")
        S[t \in 0 .. Len(xs)] ==
            IF t = 0 THEN Zero
            ELSE kda_step(S[t - 1], l2norm(k[t]), v[t],
                          decay(mmw(mmw(xs[t], w.f_a), w.f_b), w, c),
                          sigmoid(mmw(xs[t], w.b)))
    IN Table(S)

Kda(c, w, xs) ==
    LET S == KdaStates(c, w, xs)
        q == Conved(c, w, xs, "q", "q_conv")
    IN [t \in DOMAIN xs |-> kda_tail(c, xs[t], kda_out(S[t], l2norm(q[t])), w)]

Mla(c, w, xs) ==
    LET rows == Table([s \in DOMAIN xs |-> mla_row(c, xs[s], w)])
    IN [t \in DOMAIN xs |->
            mla_tail(c, xs[t], attend(mla_query(c, xs[t], w), SubSeq(rows, 1, t)), w)]

(* The experts ranked by their biased scores; the first topk answer, and a  *)
(* place that falls to one without a score goes to the first, unweighted.   *)
MoeAt(c, w, L, x) ==
    LET s == Table([e \in 0 .. c.n_experts - 1 |-> score(x, e, w)])
        by == Table([e \in DOMAIN s |-> biased(s[e], e, w.bias)])
        Ahead(e) == {f \in DOMAIN by : by[f] > by[e] \/ (by[f] = by[e] /\ f < e)}
        ranked == Table([j \in 1 .. c.topk |->
                    CHOOSE e \in DOMAIN by : Cardinality(Ahead(e)) = j - 1])
        fit == Table([j \in 1 .. c.topk |-> by[ranked[j]] > Lowest])
        raw == Table([j \in 1 .. c.topk |-> IF fit[j] THEN s[ranked[j]] ELSE Zero])
        z == mmw(x, w.down)
    IN moe_tail(c, x,
                Accumulate([j \in 1 .. c.topk |->
                    [wt |-> routed(raw[j], raw, c),
                     x  |-> expert(c, L, IF fit[j] THEN ranked[j] ELSE 0, z)]]), w)

IsFull(c, L) == L + 1 \in {c.full_attn[i] : i \in DOMAIN c.full_attn}

(* Before layer L: the residual of each position, its block snapshots, and  *)
(* the inputs each layer's attention has been given.                        *)
LayerStep(m, L, before) ==
    LET c == Meant(m)
        w == Weights(m, L)
        opens == L % c.attn_res_block = 0
        Each(f(_)) == Table([t \in DOMAIN before.x |-> f(t)])
        sees(t) == IF before.blocks[t] = <<>> THEN before.x[t]
                   ELSE attn_res(Append(before.blocks[t], before.x[t]), fold_attn(w), c)
        given == Each(LAMBDA t : rmsnorm(sees(t), w.in_norm, c))
        blocks == Each(LAMBDA t :
                    IF opens THEN Append(before.blocks[t], before.x[t]) ELSE before.blocks[t])
        mixed == Table(IF IsFull(c, L) THEN Mla(c, w, given) ELSE Kda(c, w, given))
        x == Each(LAMBDA t : IF opens THEN mixed[t] ELSE add(before.x[t], mixed[t]))
        fed == Each(LAMBDA t :
                rmsnorm(attn_res(Append(blocks[t], x[t]), fold_mlp(w), c), w.post_norm, c))
        out(t) == IF is_dense(c, L)
                  THEN mlp(fed[t], w.dense_gate, w.dense_up, w.dense_down, c)
                  ELSE MoeAt(c, w, L, fed[t])
    IN [x |-> Each(LAMBDA t : add(x[t], out(t))), blocks |-> blocks,
        given |-> Append(before.given, given)]

Through(m, text) ==
    LET embed == Weights(m, Top(m)).embed
        start == [x |-> Table([t \in DOMAIN text |-> Kernel("embed", <<embed, text[t]>>)]),
                  blocks |-> [t \in DOMAIN text |-> <<>>],
                  given |-> <<>>]
        after[L \in 0 .. Depth(m)] ==
            IF L = 0 THEN start ELSE LayerStep(m, L - 1, after[L - 1])
    IN after[Depth(m)]

(* The logits at a position that has come through, and after a text. *)
LogitsAt(m, last, t) ==
    LET c == Meant(m)
        w == Weights(m, Top(m))
        top == rmsnorm(attn_res(Append(last.blocks[t], last.x[t]),
                                mul(w.out_res_norm, w.out_res_proj), c), w.norm, c)
    IN Table([v \in 0 .. c.vocab - 1 |-> Kernel("logit", <<top, w.lm_head, v>>)])

Logits(m, given) == LogitsAt(m, Through(m, given), Len(given))

-----------------------------------------------------------------------------
(* The promise. *)

VARIABLES model, text, answer

vars == <<model, text, answer>>

Init == model \in Models /\ text = <<>> /\ answer = NoAnswer

(* The caller adds to the text, goes back to a beginning of it, or starts   *)
(* another.                                                                 *)
Ask ==
    /\ text' \in Texts /\ answer' = NoAnswer
    /\ UNCHANGED model

Answer ==
    /\ text # <<>> /\ answer = NoAnswer
    /\ answer' # NoAnswer
    /\ Exact(model) =>
          /\ answer'.last = Logits(model, text)
          /\ \A p \in DOMAIN answer'.best :
                answer'.best[p] = Best(Logits(model, SubSeq(text, 1, p)))
    /\ UNCHANGED <<model, text>>

Next == Ask \/ Answer

Spec == Init /\ [][Next]_vars
=============================================================================
