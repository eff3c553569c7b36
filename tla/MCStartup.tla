------------------------------ MODULE MCStartup ------------------------------
(* Bounded instances of Startup.  A unit is 50 MB (GB = 20); the layers are *)
(* small beside the automatic budgets, so explicit ones size the ring.      *)
EXTENDS Startup

Asks == [auto |-> FALSE, ultra |-> FALSE, incremental |-> TRUE, streamed |-> TRUE,
         trunk_gb |-> 20, cache_gb |-> 12, ids |-> 2, gen |-> 1, layers |-> NLayers,
         prior |-> 0, spec |-> FALSE, draft_gb |-> 0]

(* Every budget the ring can make a difference at, the Critical ones too.  *)
Rings == {[Asks EXCEPT !.trunk_gb = b] : b \in 0 .. 30}

(* Automatic budgets, for short and long requests. *)
Autos == {[Asks EXCEPT !.auto = TRUE, !.gen = n, !.incremental = inc, !.streamed = st] :
             n \in {0, 3, 4}, inc \in BOOLEAN, st \in BOOLEAN}

(* The modes, and requests that are refused on the way. *)
Modes ==
    {[Asks EXCEPT !.ultra = u, !.incremental = inc, !.streamed = st, !.layers = n] :
        u \in BOOLEAN, inc \in BOOLEAN, st \in BOOLEAN, n \in {1, NLayers}}
      \cup {[Asks EXCEPT !.ids = n, !.gen = g] : n \in {0, 4, 5}, g \in {0, 4, 5}}
      \cup {[Asks EXCEPT !.cache_gb = 5]}
      \cup {[Asks EXCEPT !.ultra = TRUE, !.auto = TRUE]}
Extras ==
    {[Asks EXCEPT !.prior = p, !.spec = sp, !.draft_gb = d, !.incremental = inc] :
        p \in {0, 6}, sp \in BOOLEAN, d \in {0, 10}, inc \in BOOLEAN}

Everything == Rings \cup Autos \cup Modes \cup Extras
Resumes    == {[Asks EXCEPT !.prior = 6]}

(* Unknown, too small, one that pins in part, two that hold all of it.      *)
Hosts == {[avail |-> 0, total |-> 0], [avail |-> 200, total |-> 320],
          [avail |-> 400, total |-> 640], [avail |-> 1200, total |-> 0],
          [avail |-> 2600, total |-> 2600], [avail |-> 5000, total |-> 5120]}
=============================================================================
