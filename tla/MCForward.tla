------------------------------ MODULE MCForward ------------------------------
(* Bounded instances of Forward.  Numbers stand for vectors: an operation   *)
(* on them is a hash of its name and operands, so that two computations     *)
(* agree when they are the same one.                                        *)
EXTENDS Forward, TLC

Names == <<
    "rmsnorm", "mmw", "add", "mul", "sigmoid", "situ_glu", "attn_res", "conv", "l2norm",
    "decay", "kda_step", "kda_out", "attend", "score", "bias", "renorm", "renorm_kept",
    "expert", "axpy", "logit", "int8", "in_norm", "post_norm", "attn_res_norm",
    "attn_res_proj", "mlp_res_norm", "mlp_res_proj", "q_a", "q_a_norm", "q_b", "kv_a",
    "kv_a_norm", "kv_b", "mla_o", "mla_g", "q", "k", "v", "g", "o", "q_conv", "k_conv",
    "v_conv", "f_a", "f_b", "b", "A_log", "dt_bias", "o_norm", "dense_gate", "dense_up",
    "dense_down", "gate", "down", "up", "latent_norm", "sh1", "sh3", "sh2", "embed", "norm",
    "out_res_norm", "out_res_proj", "lm_head", "sum">>

Code == [s \in {Names[i] : i \in DOMAIN Names} |-> CHOOSE i \in DOMAIN Names : Names[i] = s]

Mixed(x, y) == (x * x + 31 * y + 7) % 32749

WeightOf(n, name) == 1000 * n + Code[name]

(* Layer 2 masks all experts but one; and a weight of zero stays zero.      *)
Nil(op, xs) ==
    \/ op = "bias" /\ xs[2] = WeightOf(2, "bias") /\ xs[3] # 1
    \/ op \in {"renorm", "mul"} /\ xs[1] = 0
    \/ op = "sum" /\ \A i \in DOMAIN xs : xs[i] = 0

Hash(op, xs) ==
    LET all[i \in 0 .. Len(xs)] == IF i = 0 THEN Code[op] ELSE Mixed(all[i - 1], xs[i])
    IN IF Nil(op, xs) THEN 0 ELSE Mixed(all[Len(xs)], Code[op]) + 1

Huge(x) == x % 3 = 0

Far(d) == IF d < 3000 THEN 6 ELSE IF d < 9000 THEN 3 ELSE IF d < 20000 THEN 1 ELSE 0

-----------------------------------------------------------------------------
(* Models. *)

A == [hidden |-> 4, n_layers |-> 3, vocab |-> 4, rms_eps |-> 11, kda_heads |-> 2,
      kda_head_dim |-> 3, conv_k |-> 3, gate_lb |-> 5, n_heads |-> 2, q_lora |-> 2,
      kv_lora |-> 2, qk_nope |-> 1, qk_rope |-> 1, v_head |-> 1, n_experts |-> 3,
      topk |-> 2, n_shared |-> 1, latent |-> 2, moe_inter |-> 2, routed_scale |-> 13,
      first_dense |-> 1, dense_inter |-> 5, attn_res_block |-> 2, situ_b1 |-> 17,
      situ_b2 |-> 19, mla_out_gate |-> TRUE, moe_renorm |-> TRUE, latent_norm |-> TRUE,
      full_attn |-> <<2>>]

(* A block at every layer, attention first and last, one expert in three;   *)
(* attention needs most of the work buffer.                                 *)
B == [A EXCEPT !.conv_k = 2, !.topk = 1, !.first_dense = 0, !.attn_res_block = 1,
               !.full_attn = <<3, 1>>, !.n_heads = 6, !.qk_nope = 2, !.v_head = 3]

(* No short convolution to speak of, one block, every expert. *)
C == [A EXCEPT !.n_layers = 4, !.conv_k = 1, !.topk = 3, !.attn_res_block = 3,
               !.full_attn = <<4>>, !.mla_out_gate = FALSE, !.moe_renorm = FALSE, !.latent_norm = FALSE]

(* Two dense layers; the experts need most of the work buffer. *)
D == [A EXCEPT !.first_dense = 2, !.moe_inter = 40]

(* A dense layer wider than attention and the experts; a pass over three    *)
(* positions still fits, one over more does not.                            *)
E == [A EXCEPT !.dense_inter = 220]

(* No dense layer, by a number below zero. *)
F == [B EXCEPT !.first_dense = -1]

-----------------------------------------------------------------------------
(* Configs. *)

Halves(x) == [t |-> "num", v |-> x]
Num(x) == Halves(2 * x)
Some(keys, value(_)) == [k \in keys |-> value(k)]
Empty == [k \in {} |-> 0]

KeyOf(f) == Needed[f]
Linear == {"kda_heads", "kda_head_dim", "conv_k", "gate_lb"}

Bools(m) == [mla_use_output_gate |-> [t |-> "bool", v |-> m.mla_out_gate],
             moe_renormalize |-> [t |-> "bool", v |-> m.moe_renorm],
             latent_moe_use_norm |-> Num(IF m.latent_norm THEN 1 ELSE 0)]
List(m) == [full_attn_layers |-> [t |-> "arr", v |-> [i \in DOMAIN m.full_attn |-> Num(m.full_attn[i])]]]

Keyed(m, fields, n) ==
    [key \in {KeyOf(f)[IF n <= Len(KeyOf(f)) THEN n ELSE 1] : f \in fields} |->
        LET field == CHOOSE f \in fields : \E i \in DOMAIN KeyOf(f) : KeyOf(f)[i] = key
        IN IF field \in Floats THEN Halves(m[field]) ELSE Num(m[field])]

(* As released; other numbers of the vision tower lie at the root.          *)
Nested(m) ==
    [text |-> Keyed(m, DOMAIN Needed \ Linear, 1) @@ Bools(m),
     lin  |-> Keyed(m, Linear, 1) @@ List(m),
     root |-> [hidden_size |-> Num(9), num_hidden_layers |-> Num(2), head_dim |-> Num(7),
               full_attn_layers |-> [t |-> "arr", v |-> <<Num(1), Num(1)>>]]]

(* As the fixtures have it; the optional ones default. *)
Flat(m) == [text |-> Empty, lin |-> Empty,
            root |-> Keyed(m, DOMAIN Needed, 2) @@ List(m)]

With(doc, key, x) ==
    [doc EXCEPT ![IF key \in DOMAIN doc.text THEN "text" ELSE "lin"][key] = x]
Without(doc, key) == [doc EXCEPT !.text = [k \in DOMAIN doc.text \ {key} |-> doc.text[k]]]

-----------------------------------------------------------------------------
(* Checkpoints: shapes as the model has them. *)

Wide(shape)   == [dt |-> "F32", shape |-> shape]
Vector(n)     == [dt |-> "BF16", shape |-> <<n>>]
Matrix(m, n)  == [dt |-> "BF16", shape |-> <<m, n>>]

NormsOf(m) == Some({"in_norm", "post_norm", "attn_res_norm", "attn_res_proj",
                    "mlp_res_norm", "mlp_res_proj"}, LAMBDA k : Vector(m.hidden))

AttentionOf(m, n) ==
    LET d == m.kda_heads * m.kda_head_dim IN
    IF n + 1 \in {m.full_attn[i] : i \in DOMAIN m.full_attn}
    THEN [q_a |-> Matrix(m.q_lora, m.hidden), q_a_norm |-> Vector(m.q_lora),
          q_b |-> Matrix(m.n_heads * (m.qk_nope + m.qk_rope), m.q_lora),
          kv_a |-> Matrix(m.kv_lora + m.qk_rope, m.hidden), kv_a_norm |-> Vector(m.kv_lora),
          kv_b |-> Matrix(m.n_heads * (m.qk_nope + m.v_head), m.kv_lora),
          mla_o |-> Matrix(m.hidden, m.n_heads * m.v_head),
          mla_g |-> Matrix(m.n_heads * m.v_head, m.hidden)]
    ELSE Some({"q", "k", "v", "g"}, LAMBDA k : Matrix(d, m.hidden)) @@
         Some({"q_conv", "k_conv", "v_conv"}, LAMBDA k : Wide(<<d, 1, m.conv_k>>)) @@
         [o |-> Matrix(m.hidden, d), f_a |-> Matrix(m.kda_head_dim, m.hidden),
          f_b |-> Matrix(d, m.kda_head_dim), b |-> Matrix(m.kda_heads, m.hidden),
          A_log |-> Wide(<<m.kda_head_dim>>), dt_bias |-> Wide(<<d>>),
          o_norm |-> Vector(m.kda_head_dim)]

FeedForwardOf(m, n) ==
    IF n < m.first_dense
    THEN [dense_gate |-> Matrix(m.dense_inter, m.hidden), dense_up |-> Matrix(m.dense_inter, m.hidden),
          dense_down |-> Matrix(m.hidden, m.dense_inter)]
    ELSE LET s == m.moe_inter * m.n_shared IN
         [gate |-> Matrix(m.n_experts, m.hidden), bias |-> Wide(<<m.n_experts>>),
          down |-> Matrix(m.latent, m.hidden), up |-> Matrix(m.hidden, m.latent),
          latent_norm |-> Vector(m.latent), sh1 |-> Matrix(s, m.hidden),
          sh3 |-> Matrix(s, m.hidden), sh2 |-> Matrix(m.hidden, s)]

LayerOf(m, n) == NormsOf(m) @@ AttentionOf(m, n) @@ FeedForwardOf(m, n)

ModelLevelOf(m) == [embed |-> Matrix(m.vocab, m.hidden), lm_head |-> Matrix(m.vocab, m.hidden),
                    norm |-> Vector(m.hidden), out_res_norm |-> Vector(m.hidden),
                    out_res_proj |-> Vector(m.hidden)]

Released(m) == [n \in 0 .. m.n_layers |-> IF n = m.n_layers THEN ModelLevelOf(m) ELSE LayerOf(m, n)]

(* All of it in one format; a packed draft keeps its vectors. *)
Cast(all, dt) == [n \in DOMAIN all |-> [k \in DOMAIN all[n] |-> [all[n][k] EXCEPT !.dt = dt]]]
Packed8(all, m) ==
    [n \in DOMAIN all |-> [k \in DOMAIN all[n] |->
        IF n < m.n_layers /\ k \in Matrices THEN [all[n][k] EXCEPT !.dt = "I8R"] ELSE all[n][k]]]
Recast(all, n, k, dt) == [all EXCEPT ![n][k].dt = dt]
Lacks(all, n, k) == [all EXCEPT ![n] = [j \in DOMAIN @ \ {k} |-> @[j]]]

-----------------------------------------------------------------------------
(* Processes. *)

Plain == [incremental |-> TRUE, ultra |-> FALSE, trunk |-> FALSE, batch |-> TRUE,
          draft |-> FALSE, layers |-> 0, greedy |-> TRUE, top_k |-> 0,
          top_p |-> [num |-> 1, den |-> 1]]
Trunk == [Plain EXCEPT !.trunk = TRUE]
Ultra == [Trunk EXCEPT !.ultra = TRUE]

Whole(n) == [layers |-> n, entries |-> {[off |-> 0, nbytes |-> 8, run |-> 8]}]

Job(m, doc, all, o, ok) ==
    [doc |-> doc, meant |-> m, store |-> all, index |-> Whole(m.n_layers), opts |-> o, good |-> ok]
Sound(m, doc, all, o) == Job(m, doc, all, o, TRUE)
Broken(doc, all, o) == Job(A, doc, all, o, FALSE)

Stray == [layers |-> 3, entries |-> {[off |-> 0, nbytes |-> 8, run |-> 8],
                                     [off |-> 4, nbytes |-> 8, run |-> 8]}]

Cases ==
    [resident  |-> Sound(A, Nested(A), Released(A),
                         [Plain EXCEPT !.greedy = FALSE, !.top_k = 3, !.top_p = [num |-> 2, den |-> 3]]),
     mixed     |-> Sound(A, Nested(A), Recast(Recast(Released(A), 1, "kv_b", "F32"), 0, "in_norm", "F16"),
                         [Plain EXCEPT !.batch = FALSE]),
     floats    |-> Sound(F, Flat(F), Cast(Released(F), "F32"), [Plain EXCEPT !.incremental = FALSE]),
     streamed  |-> Sound(A, Nested(A), Released(A), Trunk),
     recompute |-> Sound(C, Nested(C), Released(C), [Trunk EXCEPT !.incremental = FALSE]),
     ultra     |-> Sound(C, Nested(C), Released(C), [Ultra EXCEPT !.incremental = FALSE]),
     ultra_inc |-> Sound(B, Flat(B), Released(B), Ultra),
     int8      |-> Sound(A, Nested(A), Packed8(Released(A), A), Trunk),
     draft     |-> Sound(D, Nested(D), Packed8(Released(D), D), [Trunk EXCEPT !.draft = TRUE]),
     first_two |-> [Sound(C, Nested(C), Released(C), [Trunk EXCEPT !.layers = 2])
                        EXCEPT !.index = Whole(2)],
     wide      |-> Sound(E, Nested(E), Released(E), Trunk),
     fraction  |-> Sound(A, With(Nested(A), "num_hidden_layers", Halves(7)), Released(A), Plain),
     half      |-> Broken(With(Nested(A), "short_conv_kernel_size", Halves(1)), Released(A), Plain),
     nameless  |-> Broken([Nested(A) EXCEPT !.lin.full_attn_layers.v = <<[t |-> "str", v |-> "two"]>>],
                          Released(A), Plain),
     negative  |-> Broken(Nested([A EXCEPT !.kda_heads = -2]), Released(A), Plain),
     no_key    |-> Broken(Without(Nested(A), "rms_norm_eps"), Released(A), Plain),
     no_block  |-> Broken(Nested([A EXCEPT !.attn_res_block = 0]), Released(A), Plain),
     from_zero |-> Broken(Nested([A EXCEPT !.full_attn = <<0>>]), Released(A), Plain),
     no_linear |-> Broken(Nested([A EXCEPT !.full_attn = <<1, 2, 3>>]), Released(A), Plain),
     too_many  |-> Broken(Nested([A EXCEPT !.full_attn = <<1, 2, 3, 1, 2>>]), Released(A), Plain),
     lacking   |-> Broken(Nested(A), Lacks(Released(A), 2, "b"), Plain),
     other     |-> Broken(Nested(B), Released(A), Plain),
     int8_norm |-> Broken(Nested(A), Recast(Released(A), 1, "post_norm", "I8R"), Plain),
     wide_pack |-> Broken(Nested(A), Cast(Released(A), "F32"), Trunk),
     half_pack |-> Broken(Nested(A), Recast(Released(A), 1, "in_norm", "F16"), Trunk),
     stray     |-> [Broken(Nested(A), Released(A), Trunk) EXCEPT !.index = Stray],
     short     |-> [Broken(Nested(A), Released(A), Trunk) EXCEPT !.index = Whole(2)],
     headless  |-> Broken(Nested(A), Lacks(Released(A), 3, "lm_head"), Ultra)]

Processes == {Cases[j] : j \in DOMAIN Cases}

Additions == {<<>>, <<1>>, <<2, 0, 1>>}
=============================================================================
