----------------------------- MODULE Checkpoint -----------------------------
(***************************************************************************)
(* The shard index of src/io/k3_st.c: k3_st_open scans the header of every *)
(* safetensors file of a directory, refuses spans that do not tile the     *)
(* data, and enters the names into an open-addressed hash table that       *)
(* k3_st_find probes.                                                      *)
(*                                                                         *)
(* A header is a set of entries; its JSON is left out, as is the report on *)
(* what is missing (k3_st_explain_missing).  An entry says where its bytes *)
(* are, how many its dtype and shape need, and whether dtype and shape are *)
(* what an expert's tensor must have.  Tensors count from 1 here, and 0 is *)
(* an empty bucket.                                                        *)
(***************************************************************************)
EXTENDS Integers, SequencesExt

CONSTANTS
    NShards,
    Names,        \* tensor names
    Hash(_),      \* fnv1a
    MinBuckets,   \* buckets of a small index
    Disks         \* what the directory may hold

Shards == 1 .. NShards
Entries == [name : Names, o0 : Int, o1 : Int, bytes : Nat, form : BOOLEAN]

ASSUME CheckpointAssumption ==
    /\ NShards \in Nat \ {0} /\ MinBuckets \in Nat \ {0}
    /\ \A n \in Names : Hash(n) \in Nat
    /\ \A d \in Disks : \A s \in Shards :
          /\ d[s].base \in Nat /\ d[s].size \in Nat
          /\ IsFiniteSet(d[s].entries)
          /\ \A e \in d[s].entries : e \in Entries

VARIABLES
    disk,
    st,           \* "closed", "open" or "refused"
    t, bucket     \* the tensors and the hash table

checkpoint == <<disk, st, t, bucket>>

CheckpointInit ==
    /\ disk \in Disks /\ st = "closed" /\ t = <<>> /\ bucket = <<>>

(* The header fits the file; a span lies in the data and has the length the *)
(* shape implies.                                                           *)
HeaderFits(s) == disk[s].base <= disk[s].size
Sane(s, e) ==
    /\ 0 <= e.o0 /\ e.o0 <= e.o1
    /\ e.o1 <= disk[s].size - disk[s].base
    /\ e.o1 - e.o0 = e.bytes

(* cmp_span, and the spans in an order it allows: equal ones come either way. *)
Precedes(x, y) == x.o0 < y.o0 \/ (x.o0 = y.o0 /\ x.o1 < y.o1)
Orders(s) ==
    {sp \in SetToSeqs(disk[s].entries) :
        \A i, j \in DOMAIN sp : i < j => ~Precedes(sp[j], sp[i])}

(* Where the spans before each have ended. *)
Cursor(sp) ==
    LET c[i \in 0 .. Len(sp)] == IF i = 0 THEN 0 ELSE Max({c[i - 1], sp[i].o1})
    IN c

(* Mutant: gaps are refused, overlaps are not. *)
Swept_Gaps(s) ==
    \E sp \in Orders(s) : \A i \in 1 .. Len(sp) : sp[i].o0 <= Cursor(sp)[i - 1]
(* sweep_spans: each span starts where the ones before it have ended.       *)
Swept(s) ==
    \E sp \in Orders(s) : \A i \in 1 .. Len(sp) : sp[i].o0 = Cursor(sp)[i - 1]

Scans(s) ==
    /\ HeaderFits(s) /\ \A e \in disk[s].entries : Sane(s, e)
    /\ Swept(s)

Pushed(s) ==
    LET es == SetToSeq(disk[s].entries)
    IN [i \in 1 .. Len(es) |->
           [name |-> es[i].name, shard |-> s, off |-> disk[s].base + es[i].o0,
            nbytes |-> es[i].bytes, form |-> es[i].form]]

-----------------------------------------------------------------------------
(* Doubled until no more than half of the buckets are used. *)
Buckets(n) ==
    LET nb[k \in 0 .. 2 * n] ==
            IF k = 0 THEN MinBuckets
            ELSE IF nb[k - 1] < 2 * n THEN 2 * nb[k - 1] ELSE nb[k - 1]
    IN nb[2 * n]

(* The bucket where the search for a name ends: empty, or the name's.       *)
Probe(ts, b, name) ==
    LET nb == Cardinality(DOMAIN b)
        At(k) == (Hash(name) + k) % nb
        ends == {k \in 0 .. nb - 1 : b[At(k)] = 0 \/ ts[b[At(k)]].name = name}
    IN At(Min(ends))

Duplicate == <<>>
Indexed(ts) ==
    LET nb == Buckets(Len(ts))
        ins[i \in 0 .. Len(ts)] ==
            IF i = 0 THEN [j \in 0 .. nb - 1 |-> 0]
            ELSE LET b == ins[i - 1] IN
                 IF b = Duplicate THEN b
                 ELSE LET j == Probe(ts, b, ts[i].name)
                      IN IF b[j] # 0 THEN Duplicate ELSE [b EXCEPT ![j] = i]
    IN ins[Len(ts)]

find(name) == bucket[Probe(t, bucket, name)]

Open ==
    /\ st = "closed"
    /\ LET ts == FlattenSeq([s \in Shards |-> Pushed(s)]) IN
       IF (\A s \in Shards : Scans(s)) /\ Indexed(ts) # Duplicate
       THEN st' = "open" /\ t' = ts /\ bucket' = Indexed(ts)
       ELSE st' = "refused" /\ UNCHANGED <<t, bucket>>
    /\ UNCHANGED disk
-----------------------------------------------------------------------------
(* Every tensor of an open checkpoint is the one its name finds, and each   *)
(* byte of a shard up to its last tensor belongs to exactly one of them.    *)
OneOwner ==
    st = "open" =>
        /\ \A i \in 1 .. Len(t) : find(t[i].name) = i
        /\ \A s \in Shards :
              LET own == {i \in 1 .. Len(t) : t[i].shard = s}
                  end == Max({disk[s].base} \cup {t[i].off + t[i].nbytes : i \in own})
              IN \A p \in disk[s].base .. end - 1 :
                    Cardinality({i \in own : t[i].off <= p /\ p < t[i].off + t[i].nbytes}) = 1
=============================================================================
