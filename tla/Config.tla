------------------------------- MODULE Config -------------------------------
(***************************************************************************)
(* k3_cfg_load of k3_cfg.h: a config.json in its two shapes, the released  *)
(* one with a text_config and the flat one of the fixtures, read into the  *)
(* dimensions the engine computes with, or refused.                        *)
(*                                                                         *)
(* A document is [nested, text, lin, root]: three objects, functions from  *)
(* a key to [t, v], its JSON type and value.  text and lin are empty where *)
(* the document has no such object.  A number counts halves, so that a     *)
(* document can hold one that is not whole; those read as integers are     *)
(* within the range of an int.                                             *)
(***************************************************************************)
EXTENDS Integers, Sequences, FiniteSets

CONSTANTS
    FaMax,       \* full-attention layers the caller's buffer holds
    MaxTopk      \* K3_MAX_TOPK

ASSUME ConfigAssumption == FaMax \in Nat /\ MaxTopk \in Nat

Refused == [ok |-> FALSE]        \* of a load, a plan or a bind

(* The fields with no default, and the keys each is found under.            *)
Needed == [
    hidden       |-> <<"hidden_size">>,
    n_layers     |-> <<"num_hidden_layers">>,
    vocab        |-> <<"vocab_size">>,
    rms_eps      |-> <<"rms_norm_eps">>,
    kda_heads    |-> <<"num_heads", "kda_num_heads">>,
    kda_head_dim |-> <<"head_dim", "kda_head_dim">>,
    conv_k       |-> <<"short_conv_kernel_size">>,
    gate_lb      |-> <<"gate_lower_bound">>,
    n_heads      |-> <<"num_attention_heads">>,
    q_lora       |-> <<"q_lora_rank">>,
    kv_lora      |-> <<"kv_lora_rank">>,
    qk_nope      |-> <<"qk_nope_head_dim">>,
    qk_rope      |-> <<"qk_rope_head_dim">>,
    v_head       |-> <<"v_head_dim">>,
    n_experts    |-> <<"num_experts">>,
    topk         |-> <<"num_experts_per_token">>,
    n_shared     |-> <<"num_shared_experts">>,
    latent       |-> <<"routed_expert_hidden_size">>,
    moe_inter    |-> <<"moe_intermediate_size">>,
    routed_scale |-> <<"routed_scaling_factor">>,
    first_dense  |-> <<"first_k_dense_replace">>,
    dense_inter  |-> <<"intermediate_size">>,
    attn_res_block |-> <<"attn_res_block_size">>,
    situ_b1      |-> <<"activation_situ_beta", "situ_beta">>,
    situ_b2      |-> <<"activation_situ_linear_beta", "situ_linear_beta">>]

(* Those kept as floats, in halves too.  The others are ints. *)
Floats == {"rms_eps", "gate_lb", "routed_scale", "situ_b1", "situ_b2"}

(* The three that may be missing; all default to on.                        *)
Optional == [
    mla_out_gate |-> <<"mla_use_output_gate">>,
    moe_renorm   |-> <<"moe_renormalize">>,
    latent_norm  |-> <<"latent_moe_use_norm">>]

Nothing == [t |-> "none", v |-> 0]

(* Mutant: the document root is asked first. *)
Scopes_RootFirst(doc) == <<doc.root, doc.text, doc.lin>>

Scopes(doc) == <<doc.text, doc.lin, doc.root>>

(* k3cfg_find: the first object that has any of the keys, and of its keys   *)
(* the first.                                                               *)
find(doc, keys) ==
    LET Has(i) == {j \in DOMAIN keys : keys[j] \in DOMAIN Scopes(doc)[i]}
        Least(S) == CHOOSE x \in S : \A y \in S : x <= y
        found == {i \in 1 .. 3 : Has(i) # {}}
    IN IF found = {} THEN Nothing
       ELSE Scopes(doc)[Least(found)][keys[Least(Has(Least(found)))]]

number(doc, field) == find(doc, Needed[field])

(* Mutant: to the nearest. *)
whole_Rounded(x) == (x + 1) \div 2

(* The cast of a double to int, toward zero. *)
whole(x) == IF x >= 0 THEN x \div 2 ELSE -((-x) \div 2)

(* k3cfg_b: a boolean, or a number other than zero. *)
flag(doc, field) ==
    LET x == find(doc, Optional[field]) IN
    CASE x.t = "bool" -> x.v
      [] x.t = "num"  -> x.v # 0
      [] OTHER        -> TRUE

full_attn(doc) == find(doc, <<"full_attn_layers">>)

Missing(doc) ==
    {f \in DOMAIN Needed : number(doc, f).t # "num"} \cup
    (IF full_attn(doc).t = "arr" /\ full_attn(doc).v # <<>> THEN {} ELSE {"full_attn"})

(* What is read, before the structural checks. *)
Read(doc) ==
    [f \in DOMAIN Needed \cup DOMAIN Optional \cup {"full_attn"} |->
        CASE f \in Floats                 -> number(doc, f).v
          [] f \in DOMAIN Needed \ Floats -> whole(number(doc, f).v)
          [] f \in DOMAIN Optional        -> flag(doc, f)
          [] OTHER -> [i \in DOMAIN full_attn(doc).v |-> whole(full_attn(doc).v[i].v)]]

(* Can these numbers describe the architecture? *)
Describes_NoBlock(c) ==      \* mutant: a block size of zero goes through
    /\ c.n_layers > 0 /\ c.hidden > 0 /\ c.vocab > 0
    /\ Len(c.full_attn) < c.n_layers
    /\ \A i \in DOMAIN c.full_attn : c.full_attn[i] \in 1 .. c.n_layers
    /\ c.topk <= MaxTopk /\ c.topk <= c.n_experts
    /\ c.conv_k >= 1

Describes(c) ==
    /\ c.n_layers > 0 /\ c.hidden > 0 /\ c.vocab > 0
    /\ Len(c.full_attn) < c.n_layers
    /\ \A i \in DOMAIN c.full_attn : c.full_attn[i] \in 1 .. c.n_layers
    /\ c.topk <= MaxTopk /\ c.topk <= c.n_experts
    /\ c.attn_res_block > 0
    /\ c.conv_k >= 1

(* A layer list that the buffer cannot hold, or not of numbers. *)
BadList(list) == Len(list) > FaMax \/ \E i \in DOMAIN list : list[i].t # "num"

(* The config, or Refused: nothing missing is defaulted. *)
k3_cfg_load(doc) ==
    IF Missing(doc) # {} \/ BadList(full_attn(doc).v) THEN Refused
    ELSE IF ~Describes(Read(doc)) THEN Refused
    ELSE [ok |-> TRUE, c |-> Read(doc)]

(* Mutant: the list is taken to count from zero. *)
is_mla_ZeroBased(c, L) == \E i \in DOMAIN c.full_attn : c.full_attn[i] = L

(* The layer map: the list counts layers from one. *)
is_mla(c, L) == \E i \in DOMAIN c.full_attn : c.full_attn[i] = L + 1
is_dense(c, L) == L < c.first_dense
=============================================================================
