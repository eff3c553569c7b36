------------------------------- MODULE Startup -------------------------------
(***************************************************************************)
(* What main() of src/cli/k3_run.c does between its flags and the first    *)
(* forward pass: it refuses what cannot be run, divides the machine's      *)
(* memory (--preset auto), adds up a plan and refuses one the machine does *)
(* not hold, then allocates: the trunk (through k3_trunk_open, module      *)
(* TrunkSizing), the model's own matrices, the expert cache, the buffers   *)
(* and what drafting needs.  Memory is counted in units of 1/GB gigabyte,  *)
(* where GB is a multiple of 20 so that the percentages stay whole.        *)
(***************************************************************************)
EXTENDS TrunkSizing

CONSTANTS
    GB,
    Requests,         \* what the flags may ask for
    Machines,         \* available and total memory, 0 for unknown
    Mla,              \* the layers with a KV cache
    StatePer, KvPer,  \* recurrent state of a layer; KV of a layer and position
    PosBuf,           \* hidden state, residual blocks, scratch of a position
    Matrices, Chunk,  \* embedding and lm_head; the buffer that streams them
    ExpertSlot, TopK,
    MAX_PROMPT, MAX_GEN

Sized(x) == (x * GB) \div 100      \* x hundredths of a gigabyte

ASSUME StartupAssumption ==
    /\ GB \in Nat /\ GB % 20 = 0 /\ Mla \subseteq Layers
    /\ {StatePer, KvPer, PosBuf, Matrices, Chunk, TopK, MAX_GEN} \subseteq Nat
    /\ {ExpertSlot, MAX_PROMPT} \subseteq Nat \ {0} /\ Chunk <= Matrices
    /\ Requests \subseteq
          [auto : BOOLEAN, ultra : BOOLEAN, incremental : BOOLEAN,
           streamed : BOOLEAN,              \* --trunk
           trunk_gb : Nat, cache_gb : Nat,
           ids : Nat, gen : Nat,            \* prompt ids given, ids to generate
           layers : 1 .. NLayers,
           prior : Nat,                     \* positions in --load-state's file
           spec : BOOLEAN,
           draft_gb : Nat]                  \* 0 without --draft-trunk
    /\ \A m \in Machines : m.avail \in Nat /\ m.avail % 20 = 0 /\ m.total \in Nat

VARIABLES
    req, machine,
    pc,
    trunk_gb, cache_gb,
    np,              \* prompt ids read
    planned,         \* the memory plan
    used             \* allocated so far

request == <<req, machine>>
vars == <<sizing, request, pc, trunk_gb, cache_gb, np, planned, used>>

Init ==
    /\ SizingInit
    /\ req \in Requests /\ machine \in Machines
    /\ pc = "flags" /\ trunk_gb = req.trunk_gb /\ cache_gb = req.cache_gb
    /\ np = 0 /\ planned = 0 /\ used = 0

Goes(there) == pc' = there /\ UNCHANGED <<sizing, request>>
Refuses     == Goes("refused") /\ UNCHANGED <<trunk_gb, cache_gb, np, planned, used>>

-----------------------------------------------------------------------------
Clash == req.ultra /\ (~req.streamed \/ req.auto \/ req.spec \/ req.draft_gb > 0)

Flags ==
    /\ pc = "flags"
    /\ \/ Clash /\ Refuses
       \/ /\ ~Clash /\ Goes("budget")
          /\ UNCHANGED <<trunk_gb, cache_gb, np, planned, used>>

(* K3_MEM_ADMIT: what a plan may take of the memory available.              *)
Admits(a) == (95 * a) \div 100

Reserve_98 == Sized(840) + (2 * machine.avail) \div 100     \* mutant: 98 %
Reserve == Sized(840) + machine.avail - Admits(machine.avail)

slot_min   == Sized(250)
cache_min  == Sized(50)
trunk_full == Sized(11100)

usable  == machine.avail - Reserve
Enough  == machine.avail > 0 /\ usable >= slot_min + cache_min
Whole   == usable - cache_min >= trunk_full     \* the trunk stays resident
ceiling == IF machine.total > 0 THEN (55 * machine.total) \div 100 ELSE usable
cap     == Max({ceiling - Reserve - cache_min, slot_min})

AutoBudget ==
    /\ pc = "budget" /\ req.auto /\ Enough
    /\ trunk_gb' = IF Whole THEN trunk_full ELSE Min({usable - cache_min, cap})
    /\ cache_gb' = IF Whole THEN usable - trunk_full ELSE cache_min
    /\ Goes("prompt") /\ UNCHANGED <<np, planned, used>>

AutoRefuses == pc = "budget" /\ req.auto /\ ~Enough /\ Refuses

FixedBudget ==
    /\ pc = "budget" /\ ~req.auto /\ Goes("prompt")
    /\ UNCHANGED <<trunk_gb, cache_gb, np, planned, used>>

(* The parser stops at the MAX_PROMPT-th id and drops the rest. *)
Prompt ==
    /\ pc = "prompt"
    /\ \/ req.ids = 0 /\ Refuses
       \/ /\ req.ids > 0 /\ np' = Min({req.ids, MAX_PROMPT}) /\ Goes("limits")
          /\ UNCHANGED <<trunk_gb, cache_gb, planned, used>>

Tm == np + req.gen + 1
kv_need == Tm * KvPer * Cardinality(Mla)
Beyond ==
    \/ req.gen > MAX_GEN \/ np > MAX_PROMPT \/ Tm > MAX_PROMPT + MAX_GEN
    \/ /\ req.incremental /\ machine.avail > 0
       /\ 100 * kv_need > 90 * machine.avail

Limits ==
    /\ pc = "limits"
    /\ \/ Beyond /\ Refuses
       \/ /\ ~Beyond /\ Goes("plan")
          /\ UNCHANGED <<trunk_gb, cache_gb, np, planned, used>>

-----------------------------------------------------------------------------
(* The plan. *)
MlaIn(n) == Cardinality({L \in Mla : L < n})
Total    == LET upto[n \in 0 .. NLayers] ==      \* the layers that will run
                    IF n = 0 THEN 0 ELSE upto[n - 1] + nbytes[n - 1]
            IN upto[req.layers]

state_layers == IF req.ultra /\ ~req.incremental THEN 1 ELSE req.layers
w_model == IF req.ultra THEN Chunk ELSE Matrices
w_buf   == Tm * PosBuf
w_kv    == IF req.incremental THEN kv_need ELSE 0
w_state == StatePer * state_layers

Plan_NoKv ==      \* mutant: the one term that grows with context is missed
    (IF req.streamed THEN trunk_gb ELSE Total) + w_model + cache_gb + w_state + w_buf
Plan ==
    (IF req.streamed THEN trunk_gb ELSE Total)
      + w_model + cache_gb + w_state + w_buf + w_kv

Fits(n) == machine.avail = 0 \/ n <= Admits(machine.avail)

Admit ==
    /\ pc = "plan" /\ planned' = Plan
    /\ Goes(IF Fits(Plan) THEN "trunk" ELSE "too big")
    /\ UNCHANGED <<trunk_gb, cache_gb, np, used>>

-----------------------------------------------------------------------------
(* What is allocated, in the order it is. *)

Takes(n, there) ==
    /\ used' = used + n /\ pc' = there
    /\ UNCHANGED <<request, trunk_gb, cache_gb, np, planned>>

BindAll ==
    /\ pc = "trunk" /\ ~req.streamed
    /\ Takes(Total, "model") /\ UNCHANGED sizing

OpenTrunk ==
    /\ pc = "trunk" /\ req.streamed /\ Open(trunk_gb) /\ pc' = "sizing"
    /\ UNCHANGED <<request, trunk_gb, cache_gb, np, planned, used>>

SizesRing ==
    /\ pc = "sizing" /\ Pass
    /\ UNCHANGED <<request, pc, trunk_gb, cache_gb, np, planned, used>>

TrunkOpened == pc = "sizing" /\ done /\ Takes(taken, "model") /\ UNCHANGED sizing

ModelParts == pc = "model" /\ Takes(w_model, "cache") /\ UNCHANGED sizing

nslot == cache_gb \div ExpertSlot

CacheInit ==
    /\ pc = "cache"
    /\ \/ nslot < TopK + 1 /\ Refuses
       \/ nslot >= TopK + 1 /\ Takes(nslot * ExpertSlot, "peek") /\ UNCHANGED sizing

(* The header of a state file says how many positions come before. *)
Peek ==
    /\ pc = "peek"
    /\ Goes(IF req.prior > 0 /\ ~req.incremental THEN "refused" ELSE "buffers")
    /\ UNCHANGED <<trunk_gb, cache_gb, np, planned, used>>

Tmax == req.prior + Tm
kv   == Tmax * KvPer * MlaIn(req.layers)

Buffers ==
    /\ pc = "buffers"
    /\ Takes(Tmax * PosBuf + w_state + (IF req.incremental THEN kv ELSE 0), "draft")
    /\ UNCHANGED sizing

(* --spec keeps a snapshot of the recurrent state; a draft trunk has its    *)
(* own budget, states and KV cache.  Without --incremental both are         *)
(* ignored, and a draft trunk without --trunk.                              *)
Drafts == req.draft_gb > 0 /\ req.incremental /\ req.streamed
Snaps  == Drafts \/ (req.spec /\ req.incremental)

Drafting ==
    LET state == StatePer * req.layers
    IN /\ pc = "draft"
       /\ Takes((IF Snaps THEN state ELSE 0)
                  + (IF Drafts THEN req.draft_gb + 2 * state + kv ELSE 0), "running")
       /\ UNCHANGED sizing

Next ==
    \/ Flags \/ AutoBudget \/ AutoRefuses \/ FixedBudget \/ Prompt \/ Limits \/ Admit
    \/ BindAll \/ OpenTrunk \/ SizesRing \/ TrunkOpened \/ ModelParts \/ CacheInit
    \/ Peek \/ Buffers \/ Drafting

Spec == Init /\ [][Next]_vars

-----------------------------------------------------------------------------
(* Properties *)

(* Type correctness, with that of the ring being sized; a budget that auto  *)
(* has set is never negative.                                               *)
TypeOK ==
    /\ SizingTypeOK
    /\ req \in Requests /\ machine \in Machines
    /\ pc \in {"flags", "budget", "prompt", "limits", "plan", "trunk", "sizing", "model",
               "cache", "peek", "buffers", "draft", "running", "refused", "too big"}
    /\ trunk_gb \in Nat /\ cache_gb \in Nat
    /\ np \in 0 .. MAX_PROMPT /\ planned \in Nat /\ used \in Nat

Plain == req.prior = 0 /\ ~req.spec /\ req.draft_gb = 0

(* The budget counts the bytes of a pinned layer, its buffer is whole pages.*)
Padding == IF req.streamed THEN Cardinality(chosen) * (ALIGN - 1) ELSE 0

(* The memory plan covers what is then allocated, but for less than a page  *)
(* per pinned layer, for a request without resumed state or drafting and a  *)
(* trunk budget of one slot at least.                                       *)
PlanCovers ==
    (pc = "running" /\ Plain /\ (req.streamed => ring_slot <= trunk_gb))
        => used <= planned + Padding

(* --preset auto never chooses budgets the memory plan then refuses, unless *)
(* states, buffers and KV cache need more than it has set aside for them:   *)
(* what is left of its reserve beside the model's matrices.                 *)
AutoAdmitted ==
    (pc = "too big" /\ req.auto /\ req.streamed)
        => w_state + w_buf + w_kv > Sized(840) - Matrices

(* "Add up EVERYTHING before allocating anything": whatever starts running  *)
(* has taken no more than a plan may take.                                  *)
Covered == pc = "running" => Fits(used)
=============================================================================
