---------------------------- MODULE DecoderLayer ----------------------------
(***************************************************************************)
(* k3_decoder_layer_inc and what it calls, as the code computes it: over   *)
(* the T positions fed in one call, with state that is carried from call   *)
(* to call and updated in place, blocks in a flat array, experts fetched   *)
(* for a chunk of positions at a time.                                     *)
(***************************************************************************)
EXTENDS Ops

CONSTANT Chunk       \* positions of a prefill batch, 64

ASSUME DecoderLayerAssumption == Chunk \in Nat \ {0}

(* attn_res_block snapshots per position, and room for the source stack. *)
maxb_Tight(c) == c.n_layers \div c.attn_res_block          \* mutant
maxb(c) == c.n_layers \div c.attn_res_block + 2

(* The sources of position t: its nb snapshots and its running residual. *)
Sources(c, br, nb, t, x) == [b \in 1 .. nb |-> br[(t - 1) * maxb(c) + b - 1]] \o <<x>>

Aggregated(c, br, nb, xs, fold) ==
    Table([t \in DOMAIN xs |-> attn_res(Sources(c, br, nb, t, xs[t]), fold, c)])

(* The snapshot of a block boundary, behind those of the same position. *)
Snapshots(c, br, nb, xs) ==
    LET at(t) == (t - 1) * maxb(c) + nb IN
    [i \in DOMAIN br |->
        IF \E t \in DOMAIN xs : i = at(t)
        THEN xs[CHOOSE t \in DOMAIN xs : i = at(t)] ELSE br[i]]

-----------------------------------------------------------------------------
(* k3_kda_layer.  A layer's state is the recurrent matrix and, for each of  *)
(* q, k and v, the last conv_k - 1 inputs of its convolution.               *)

ClearState(c) ==
    LET none == [i \in 1 .. c.conv_k - 1 |-> Zero] IN
    [S |-> Zero, q |-> none, k |-> none, v |-> none]

shortconv(xs, taps, hist) ==
    LET stream == hist \o xs IN
    Table([t \in DOMAIN xs |-> conv(SubSeq(stream, t, t + Len(hist)), taps)])

(* Mutant: a feed shorter than the history replaces all of it. *)
Carried_Padded(xs, hist) ==
    [i \in DOMAIN hist |->
        IF Len(xs) - Len(hist) + i >= 1 THEN xs[Len(xs) - Len(hist) + i] ELSE Zero]

(* The inputs the next call begins with. *)
Carried(xs, hist) == SubSeq(hist \o xs, Len(xs) + 1, Len(xs) + Len(hist))

kda_layer(c, w, xs, state) ==
    LET proj == Table([name \in {"q", "k", "v"} |->
                    Table([t \in DOMAIN xs |-> mmw(xs[t], w[name])])])
        q == shortconv(proj.q, w.q_conv, state.q)
        k == shortconv(proj.k, w.k_conv, state.k)
        v == shortconv(proj.v, w.v_conv, state.v)
        alpha(t) == decay(mmw(mmw(xs[t], w.f_a), w.f_b), w, c)
        beta(t) == sigmoid(mmw(xs[t], w.b))
        step[t \in 0 .. Len(xs)] ==
            IF t = 0 THEN state.S
            ELSE kda_step(step[t - 1], l2norm(k[t]), v[t], alpha(t), beta(t))
        S == Table(step)
    IN [out |-> [t \in DOMAIN xs |-> kda_tail(c, xs[t], kda_out(S[t], l2norm(q[t])), w)],
        state |-> [S |-> S[Len(xs)],
                   q |-> Carried(proj.q, state.q),
                   k |-> Carried(proj.k, state.k),
                   v |-> Carried(proj.v, state.v)]]

-----------------------------------------------------------------------------
(* k3_mla_cached.  rows is the cache of this layer, from position 0 on; the *)
(* positions fed begin at cached.                                           *)

RowsWith(c, w, xs, rows, cached) ==
    Table([p \in DOMAIN rows |->
            IF p \in cached .. cached + Len(xs) - 1 THEN mla_row(c, xs[p - cached + 1], w)
            ELSE rows[p]])

(* Mutant: a position scores the rows of the feed and not those before it.  *)
Scored_OwnFeed(rows, cached, t) == [s \in 1 .. t |-> rows[cached + s - 1]]

(* Causal: the rows up to the position's own. *)
Scored(rows, cached, t) == [s \in 1 .. cached + t |-> rows[s - 1]]

mla_cached(c, w, xs, rows, cached) ==
    LET written == RowsWith(c, w, xs, rows, cached) IN
    [out |-> [t \in DOMAIN xs |->
                mla_tail(c, xs[t], attend(mla_query(c, xs[t], w), Scored(written, cached, t)), w)],
     rows |-> written]

(* Without a cache the rows live for one call. *)
LocalRows(xs) == [p \in 0 .. Len(xs) - 1 |-> Zero]

-----------------------------------------------------------------------------
(* k3_router: the topk largest biased scores by repeated search, the first  *)
(* of equal ones; the weights are the unbiased scores.                      *)

scores(c, x, w) == Table([e \in 0 .. c.n_experts - 1 |-> score(x, e, w)])

NoExpert == -1

Ranked(c, choice) ==
    LET best(taken) ==
            CHOOSE e \in DOMAIN choice \ taken :
                \A f \in DOMAIN choice \ taken :
                    choice[f] < choice[e] \/ (choice[f] = choice[e] /\ e <= f)
        idx[j \in 0 .. c.topk] ==
            IF j = 0 THEN <<>>
            ELSE LET before == idx[j - 1] IN
                 Append(before, best({before[i] : i \in 1 .. j - 1}))
    IN idx[c.topk]

Selected_Any(c, choice) == Ranked(c, choice)     \* mutant: Lowest wins if nothing is left

(* No score left is above Lowest: nor is one for any later slot.            *)
Selected(c, choice) ==
    LET idx == Ranked(c, choice)
    IN [j \in DOMAIN idx |-> IF choice[idx[j]] > Lowest THEN idx[j] ELSE NoExpert]

Chosen_Unbiased(c, s, bias) == Selected(c, s)    \* mutant
Chosen(c, s, bias) == Selected(c, Table([e \in DOMAIN s |-> biased(s[e], e, bias)]))

(* A slot with no expert is one of the first expert, at no weight. *)
router(c, x, w) ==
    LET s == scores(c, x, w)
        idx == Table(Chosen(c, s, w.bias))
        raw == Table([j \in DOMAIN idx |-> IF idx[j] = NoExpert THEN Zero ELSE s[idx[j]]])
    IN Table([j \in DOMAIN idx |->
                [id |-> IF idx[j] = NoExpert THEN 0 ELSE idx[j], wt |-> routed(raw[j], raw, c)]])

-----------------------------------------------------------------------------
(* k3_moe and k3_moe_prefill.  lost are the experts whose load fails: their *)
(* contribution is left out, or zeroed in a batch, and forward() refuses    *)
(* the pass afterwards.                                                     *)

Terms(c, L, routes, z, lost) ==
    [j \in DOMAIN routes |->
        [wt |-> routes[j].wt,
         x  |-> IF routes[j].id \in lost THEN Zero ELSE expert(c, L, routes[j].id, z)]]

(* The draft routes among the experts in the cache, renormalised where they *)
(* weigh anything.                                                          *)
OnlyResident(routes, resident) ==
    LET kept == SelectSeq(routes, LAMBDA r : r.id \in resident)
        wts == [j \in DOMAIN kept |-> kept[j].wt]
    IN IF ~Positive(wts) THEN kept
       ELSE [j \in DOMAIN kept |->
                [kept[j] EXCEPT !.wt = Kernel("renorm_kept", <<wts[j]>> \o wts)]]

moe_token(c, w, L, x, routes, lost) ==
    moe_tail(c, x, Accumulate(Terms(c, L, routes, mmw(x, w.down), lost)), w)

k3_moe(c, w, L, xs, lost) ==
    [t \in DOMAIN xs |-> moe_token(c, w, L, xs[t], router(c, xs[t], w), lost)]

moe_draft(c, w, L, xs, resident) ==
    [t \in DOMAIN xs |->
        moe_token(c, w, L, xs[t], OnlyResident(router(c, xs[t], w), resident), {})]

(* The chunk's experts, each once, in the order they are first routed to. *)
Uniq(routes) ==
    LET K == Len(routes[1])
        it(i) == routes[((i - 1) \div K) + 1][((i - 1) % K) + 1].id
        uniq[i \in 0 .. Len(routes) * K] ==
            IF i = 0 THEN <<>>
            ELSE IF \E u \in DOMAIN uniq[i - 1] : uniq[i - 1][u] = it(i) THEN uniq[i - 1]
            ELSE Append(uniq[i - 1], it(i))
    IN uniq[Len(routes) * K]

(* What each expert of the chunk left for each (position, slot).            *)
Contributions(c, w, L, xs, routes, lost) ==
    LET uniq == Uniq(routes)
        z == Table([t \in DOMAIN xs |-> mmw(xs[t], w.down)])
        put[u \in 0 .. Len(uniq)] ==
            IF u = 0 THEN [t \in DOMAIN xs |-> [j \in DOMAIN routes[t] |-> -1]]
            ELSE [t \in DOMAIN xs |-> [j \in DOMAIN routes[t] |->
                    IF routes[t][j].id # uniq[u] THEN put[u - 1][t][j]
                    ELSE IF uniq[u] \in lost THEN Zero
                    ELSE expert(c, L, uniq[u], z[t])]]
    IN put[Len(uniq)]

(* Mutant: summed in the order of the fetches. *)
Summed_AsFetched(routes, t, contrib) ==
    LET uniq == Uniq(routes)
        slots == [j \in DOMAIN routes[t] |-> j]
        mine == SelectSeq([u \in DOMAIN uniq |-> uniq[u]],
                          LAMBDA e : \E j \in DOMAIN slots : routes[t][j].id = e)
        slot(e) == CHOOSE j \in DOMAIN slots : routes[t][j].id = e
    IN [j \in DOMAIN mine |-> [wt |-> routes[t][slot(mine[j])].wt,
                               x |-> contrib[t][slot(mine[j])]]]

(* In the original order of the position's top-k. *)
Summed(routes, t, contrib) ==
    [j \in DOMAIN routes[t] |-> [wt |-> routes[t][j].wt, x |-> contrib[t][j]]]

moe_prefill_chunk(c, w, L, xs, lost) ==
    LET routes == Table([t \in DOMAIN xs |-> router(c, xs[t], w)])
        contrib == Contributions(c, w, L, xs, routes, lost)
    IN [t \in DOMAIN xs |-> moe_tail(c, xs[t], Accumulate(Summed(routes, t, contrib)), w)]

(* A chunk of one position takes the plain path. *)
k3_moe_prefill(c, w, L, xs, lost) ==
    LET Least(a, b) == IF a < b THEN a ELSE b
        part(i) == SubSeq(xs, (i - 1) * Chunk + 1, Least(i * Chunk, Len(xs)))
        done[i \in 0 .. (Len(xs) + Chunk - 1) \div Chunk] ==
            IF i = 0 THEN <<>>
            ELSE done[i - 1] \o IF Len(part(i)) = 1 THEN k3_moe(c, w, L, part(i), lost)
                                ELSE moe_prefill_chunk(c, w, L, part(i), lost)
    IN done[(Len(xs) + Chunk - 1) \div Chunk]

(* What the layer asks the expert source for. *)
Routed(c, w, xs) ==
    UNION {LET routes == router(c, xs[t], w) IN {routes[j].id : j \in DOMAIN routes} :
              t \in DOMAIN xs}

dense(c, w, xs) ==
    [t \in DOMAIN xs |-> mlp(xs[t], w.dense_gate, w.dense_up, w.dense_down, c)]
=============================================================================
