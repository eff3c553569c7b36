--------------------------- MODULE TrunkRingProofs ---------------------------
(***************************************************************************)
(* Proofs about the streaming trunk, for every number of layers and slots, *)
(* every pinned set and every bound: the bookkeeping of the ring is        *)
(* consistent, and a fetch lends the caller its own layer's bytes until    *)
(* the next fetch.                                                         *)
(***************************************************************************)
EXTENDS TrunkRing, Facts, SequenceTheorems, FiniteSetTheorems, TLAPS

USE TrunkAssumption

(* Slots, layers and the two markers are told apart; the next slot wraps    *)
(* around inside the ring.                                                  *)
LEMMA SlotArithmetic ==
    /\ \A s \in Slots : s \in Int /\ (s + 1) % NSlots \in Slots
    /\ 0 \in Slots /\ 0 \in Layers
    /\ None \notin Slots /\ None \notin Layers /\ None \notin Content
    /\ Layers \subseteq Content /\ Layers \subseteq Nat /\ Slots \subseteq Nat
    /\ Torn \in Content
BY DEF Slots, Layers, None, Torn, Content

(* The invariant holds of an empty ring, no read pending. *)
LEMMA InitInv == Init => IInv
<1> SUFFICES ASSUME Init PROVE IInv
  OBVIOUS
<1>4. pass \in Nat /\ fails \in Nat /\ hits \in Int /\ misses \in Int /\ scan \in Nat
  BY DEF Init
<1>5. q \in Seq([layer : Layers, slot : Slots])
  BY DEF Init
<1>6. rpc \in {"look", "asleep", "read", "exited"}
  BY DEF Init
<1>7. pinned \in SUBSET Layers
  BY DEF Init
<1>8. ring \in Slots /\ walk \in Layers
  BY SlotArithmetic DEF Init
<1>1. TypeOK
  BY <1>4, <1>5, <1>6, <1>7, <1>8, SlotArithmetic DEF Init, TypeOK
<1>2. MapsAgree /\ PublishedWhole /\ OneCopy
  BY SlotArithmetic DEF Init, MapsAgree, PublishedWhole, OneCopy
<1>3. SlotOwners /\ WalkKnows
  BY SlotArithmetic DEF Init, SlotOwners, WalkKnows, Lent
<1>9. QED
  BY <1>1, <1>2, <1>3 DEF IInv

(* A claim hands out a slot nobody reads into and the caller does not use.  *)
LEMMA ClaimedIsFree ==
    ASSUME NEW s, IsClaimed(s), TypeOK
    PROVE  s \in Slots /\ pending[s] = None /\ s # held
<1>1. PICK i \in 0 .. NSlots - 1 : s = (ring + i) % NSlots /\ Claimable(s)
  BY DEF IsClaimed
<1>2. ring + i \in Nat
  BY <1>1 DEF TypeOK, Slots
<1>3. s \in Slots
  BY <1>1, <1>2 DEF Slots
<1>4. QED
  BY <1>1, <1>3 DEF Claimable

(* Every element of a queue is one of the jobs queued.                      *)
LEMMA QueueItems ==
    ASSUME NEW S, NEW s \in Seq(S)
    PROVE  Len(s) \in Nat /\ \A i \in 1 .. Len(s) : s[i] \in S
BY LenProperties, ElementOfSeq

(* The head of the queue and its tail, as the reader takes it. *)
LEMMA QueueHead ==
    ASSUME NEW S, NEW s \in Seq(S), s # <<>>
    PROVE  /\ 1 \in 1 .. Len(s) /\ Head(s) = s[1] /\ s[1] \in S
           /\ Tail(s) \in Seq(S) /\ Len(Tail(s)) = Len(s) - 1
           /\ \A i \in 1 .. Len(Tail(s)) : Tail(s)[i] = s[i + 1]
<1>1. Len(s) \in Nat \ {0}
  BY EmptySeq, LenProperties
<1>2. 1 \in 1 .. Len(s)
  BY <1>1
<1>3. Head(s) = s[1]
  BY <1>1
<1>4. s[1] \in S
  BY <1>2, ElementOfSeq
<1>5. QED
  BY <1>2, <1>3, <1>4, HeadTailProperties

(* A read that ends, whole or short, keeps its two counters numbers.        *)
LEMMA ReadTypes ==
    ASSUME NEW L \in Layers, ReadWhole(L) \/ ReadShort(L), TypeOK
    PROVE  reads_of' \in [Layers -> Nat] /\ fails' \in Nat
<1>1. reads_of \in [Layers -> Nat] /\ fails \in Nat
  BY DEF TypeOK
<1>2. reads_of' = [reads_of EXCEPT ![L] = @ + 1] /\ fails' \in Nat
  BY <1>1 DEF ReadWhole, ReadShort
<1>3. QED
  BY <1>1, <1>2

(* Every step keeps the types. *)
LEMMA TypeStep ==
    ASSUME IInv, [Next]_vars
    PROVE  TypeOK'
<1> USE DEF maps, main, reader, counts
<1>t. TypeOK
  BY DEF IInv
<1>o. SlotOwners /\ WalkKnows
  BY DEF IInv
<1>0. CASE UNCHANGED vars
  BY <1>t, <1>0 DEF vars, TypeOK
<1>1. ASSUME NEW L \in Layers, FetchEnter(L) PROVE TypeOK'
  BY <1>t, <1>1 DEF FetchEnter, NextLayer, TypeOK
<1>2. CASE PinnedReadBegins
  BY <1>t, <1>2, SlotArithmetic DEF PinnedReadBegins, TypeOK
<1>3. CASE PinnedReadEnds
  <2>1. reads_of' \in [Layers -> Nat] /\ fails' \in Nat
    BY <1>t, <1>3, ReadTypes DEF PinnedReadEnds, TypeOK
  <2>2. pin' \in [Layers -> Content]
    BY <1>t, <1>3, SlotArithmetic DEF PinnedReadEnds, TypeOK
  <2>3. slot_of' \in [Layers -> Layers \cup Slots \cup {None}] /\ misses' \in Int
    BY <1>t, <1>3 DEF PinnedReadEnds, TypeOK
  <2>4. QED
    BY <1>t, <1>3, <2>1, <2>2, <2>3 DEF PinnedReadEnds, TypeOK
<1>4. CASE PinnedReadFails
  <2>1. reads_of' \in [Layers -> Nat] /\ fails' \in Nat
    BY <1>t, <1>4, ReadTypes DEF PinnedReadFails, TypeOK
  <2>2. QED
    BY <1>t, <1>4, <2>1 DEF PinnedReadFails, TypeOK
<1>5. CASE PinnedHit
  BY <1>t, <1>5 DEF PinnedHit, TypeOK
<1>6. CASE PinnedReturns
  BY <1>t, <1>6 DEF PinnedReturns, TypeOK
<1>7. CASE StreamEnter
  BY <1>t, <1>7 DEF StreamEnter, TypeOK
<1>8. CASE LookFinds
  <2>1. hits' \in Int /\ misses' \in Int
    BY <1>t, <1>8 DEF LookFinds, TypeOK
  <2>2. slot_of[walk] \in Slots
    BY <1>t, <1>o, <1>8, SlotArithmetic DEF LookFinds, TypeOK, SlotOwners, WalkKnows
  <2>3. fresh' \in [Slots -> BOOLEAN] /\ held' \in Slots \cup {None}
    BY <1>t, <1>8, <2>2 DEF LookFinds, TypeOK
  <2>4. QED
    BY <1>t, <1>8, <2>1, <2>3 DEF LookFinds, TypeOK
<1>9. CASE LookWaits
  <2>1. misses' \in Int
    BY <1>t, <1>9 DEF LookWaits, ChargeMiss, TypeOK
  <2>2. first' \in BOOLEAN
    BY <1>9 DEF LookWaits, ChargeMiss
  <2>3. QED
    BY <1>t, <1>9, <2>1, <2>2 DEF LookWaits, TypeOK
<1>10. ASSUME NEW s \in Slots, LookClaims(s) PROVE TypeOK'
  <2>1. ring' \in Slots /\ data' \in [Slots -> Content]
    BY <1>t, <1>10, SlotArithmetic DEF LookClaims, claim_slot, TypeOK
  <2>2. /\ slot_of' \in [Layers -> Layers \cup Slots \cup {None}]
        /\ layer_of' \in [Slots -> Layers \cup {None}]
        /\ pending' \in [Slots -> Layers \cup {None}]
        /\ fresh' \in [Slots -> BOOLEAN]
    BY <1>t, <1>10 DEF LookClaims, claim_slot, TypeOK
  <2>3. misses' \in Int
    BY <1>t, <1>10 DEF LookClaims, ChargeMiss, TypeOK
  <2>4. first' \in BOOLEAN
    BY <1>10 DEF LookClaims, ChargeMiss
  <2>5. QED
    BY <1>t, <1>10, <2>1, <2>2, <2>3, <2>4 DEF LookClaims, TypeOK
<1>11. CASE MainReadEnds
  <2>1. walk \in Layers /\ mslot \in Slots
    BY <1>t, <1>o, <1>11 DEF MainReadEnds, TypeOK, SlotOwners
  <2>2. reads_of' \in [Layers -> Nat] /\ fails' \in Nat
    BY <1>t, <2>1, <1>11, ReadTypes DEF MainReadEnds
  <2>3. data' \in [Slots -> Content]
    BY <1>t, <1>11, <2>1, SlotArithmetic DEF MainReadEnds, TypeOK
  <2>4. QED
    BY <1>t, <1>11, <2>1, <2>2, <2>3 DEF MainReadEnds, TypeOK
<1>12. CASE MainReadFails
  <2>1. walk \in Layers /\ mslot \in Slots
    BY <1>t, <1>o, <1>12 DEF MainReadFails, TypeOK, SlotOwners
  <2>2. reads_of' \in [Layers -> Nat] /\ fails' \in Nat
    BY <1>t, <2>1, <1>12, ReadTypes DEF MainReadFails
  <2>3. QED
    BY <1>t, <1>12, <2>1, <2>2 DEF MainReadFails, TypeOK
<1>14. CASE PrefetchBegins
  <2>1. scan' \in Nat
    BY <1>t, <1>14, SlotArithmetic DEF PrefetchBegins, TypeOK
  <2>2. QED
    BY <1>t, <1>14, <2>1 DEF PrefetchBegins, TypeOK
<1>15. CASE PrefetchSkips
  BY <1>t, <1>15 DEF PrefetchSkips, TypeOK
<1>16. ASSUME NEW s \in Slots, PrefetchQueues(s) PROVE TypeOK'
  <2>1. ring' \in Slots /\ scan \in Layers /\ scan' \in Nat
    BY <1>t, <1>16, SlotArithmetic DEF PrefetchQueues, ScanContinues, claim_slot, TypeOK, Layers
  <2>2. /\ slot_of' \in [Layers -> Layers \cup Slots \cup {None}]
        /\ layer_of' \in [Slots -> Layers \cup {None}]
        /\ pending' \in [Slots -> Layers \cup {None}]
        /\ fresh' \in [Slots -> BOOLEAN]
    BY <1>t, <1>16, <2>1 DEF PrefetchQueues, claim_slot, TypeOK
  <2>3. q' \in Seq([layer : Layers, slot : Slots])
    BY <1>t, <1>16, <2>1 DEF PrefetchQueues, TypeOK
  <2>4. QED
    BY <1>t, <1>16, <2>1, <2>2, <2>3 DEF PrefetchQueues, TypeOK
<1>17. CASE PrefetchReturns
  BY <1>t, <1>17 DEF PrefetchReturns, TypeOK
<1>18. CASE CloseStops
  <2>1. stop' \in BOOLEAN
    BY <1>18 DEF CloseStops, running
  <2>2. QED
    BY <1>t, <1>18, <2>1 DEF CloseStops, TypeOK
<1>19. CASE CloseFrees
  BY <1>t, <1>19 DEF CloseFrees, TypeOK
<1>20. CASE ReaderSleeps
  BY <1>t, <1>20 DEF ReaderSleeps, TypeOK
<1>21. CASE ReaderExits
  BY <1>t, <1>21 DEF ReaderExits, TypeOK
<1>22. CASE ReaderTakes
  <2>1. Head(q) \in [layer : Layers, slot : Slots] /\ q' \in Seq([layer : Layers, slot : Slots])
    BY <1>t, <1>22, HeadTailProperties DEF ReaderTakes, TypeOK
  <2>2. data' \in [Slots -> Content]
    BY <1>t, <1>22, <2>1, SlotArithmetic DEF ReaderTakes, TypeOK
  <2>3. QED
    BY <1>t, <1>22, <2>1, <2>2 DEF ReaderTakes, TypeOK
<1>23. CASE ReaderPublishes
  <2>1. job.layer \in Layers /\ job.slot \in Slots
    BY <1>o, <1>23 DEF ReaderPublishes, ReaderDone, SlotOwners
  <2>2. reads_of' \in [Layers -> Nat] /\ fails' \in Nat
    BY <1>t, <1>23, <2>1, ReadTypes DEF ReaderPublishes
  <2>3. data' \in [Slots -> Content]
    BY <1>t, <1>23, <2>1, SlotArithmetic DEF ReaderPublishes, TypeOK
  <2>4. QED
    BY <1>t, <1>23, <2>1, <2>2, <2>3 DEF ReaderPublishes, ReaderDone, TypeOK
<1>24. CASE ReaderFails
  <2>1. job.layer \in Layers /\ job.slot \in Slots
    BY <1>o, <1>24 DEF ReaderFails, ReaderDone, SlotOwners
  <2>2. reads_of' \in [Layers -> Nat] /\ fails' \in Nat
    BY <1>t, <1>24, <2>1, ReadTypes DEF ReaderFails
  <2>3. QED
    BY <1>t, <1>24, <2>1, <2>2 DEF ReaderFails, ReaderDone, TypeOK
<1> QED
  BY <1>0, <1>1, <1>2, <1>3, <1>4, <1>5, <1>6, <1>7, <1>8, <1>9,
     <1>10, <1>11, <1>12, <1>14, <1>15, <1>16, <1>17, <1>18, <1>19,
     <1>20, <1>21, <1>22, <1>23, <1>24 DEF Next, Main, Reader, Closed

(* The steps that change what the ring maps say, and the ones that do not.  *)
Rings == <<pinned, layer_of, slot_of, pending>>

(* The steps that change the ring: every other one leaves all four maps.    *)
LEMMA RingSteps ==
    ASSUME [Next]_vars
    PROVE  \/ UNCHANGED Rings
           \/ PinnedReadEnds \/ MainReadEnds \/ MainReadFails
           \/ ReaderPublishes \/ ReaderFails
           \/ \E s \in Slots : LookClaims(s) \/ PrefetchQueues(s)
<1> USE DEF Rings, maps, main, reader, counts
<1>1. CASE UNCHANGED vars
  BY <1>1 DEF vars
<1>2. CASE Main
  BY <1>2 DEF Main, FetchEnter, PinnedReadBegins, PinnedReadFails, PinnedHit, PinnedReturns,
     StreamEnter, LookFinds, LookWaits, PrefetchBegins, PrefetchSkips,
     PrefetchReturns, CloseStops, CloseFrees
<1>3. CASE Reader
  BY <1>3 DEF Reader, ReaderSleeps, ReaderExits, ReaderTakes
<1>4. QED
  BY <1>1, <1>2, <1>3 DEF Next, Closed

(* A claim for an absent layer keeps the maps inverse and the copies single. *)
LEMMA ClaimKeepsMaps ==
    ASSUME TypeOK, MapsAgree, OneCopy, pinned' = pinned,
           NEW s \in Slots, NEW L \in Layers,
           pending[s] = None, Streaming(L), slot_of[L] = None, ~IsPending(L),
           claim_slot(s, L)
    PROVE  MapsAgree' /\ OneCopy'
<1>1. /\ layer_of \in [Slots -> Layers \cup {None}] /\ slot_of \in [Layers -> Layers \cup Slots \cup {None}]
      /\ pending \in [Slots -> Layers \cup {None}]
  BY DEF TypeOK
<1>2. \A t \in Slots : layer_of[t] # L /\ pending[t] # L
  BY SlotArithmetic DEF MapsAgree, IsPending
<1>3. \A t \in Slots : layer_of'[t] = (IF t = s THEN None ELSE layer_of[t])
  BY <1>1 DEF claim_slot
<1>4. \A t \in Slots : pending'[t] = (IF t = s THEN L ELSE pending[t])
  BY <1>1 DEF claim_slot
<1>5. \A K \in Layers : slot_of'[K] = (IF K = layer_of[s] THEN None ELSE slot_of[K])
  BY <1>1, SlotArithmetic DEF claim_slot
<1>6. MapsAgree'
  <2> SUFFICES ASSUME NEW K \in Layers, NEW t \in Slots
               PROVE  layer_of'[t] = K <=> Streaming(K) /\ slot_of'[K] = t
    BY DEF MapsAgree, Streaming
  <2>1. layer_of[t] = K <=> Streaming(K) /\ slot_of[K] = t
    BY DEF MapsAgree
  <2>2. layer_of[s] = K <=> Streaming(K) /\ slot_of[K] = s
    BY DEF MapsAgree
  <2>3. CASE K = layer_of[s]
    BY <1>3, <1>5, <2>1, <2>2, <2>3, SlotArithmetic
  <2>4. CASE K # layer_of[s]
    BY <1>3, <1>5, <2>1, <2>2, <2>4, SlotArithmetic
  <2>5. QED
    BY <2>3, <2>4
<1>7. OneCopy'
  <2> SUFFICES ASSUME NEW t \in Slots, NEW u \in Slots, NEW K \in Layers,
                      K \in {layer_of'[t], pending'[t]}, K \in {layer_of'[u], pending'[u]}
               PROVE  t = u
    BY DEF OneCopy
  <2>1. CASE K = L
    BY <1>2, <1>3, <1>4, <2>1, SlotArithmetic
  <2>2. CASE K # L
    BY <1>3, <1>4, <2>2, SlotArithmetic DEF OneCopy
  <2>3. QED
    BY <2>1, <2>2
<1>8. QED
  BY <1>6, <1>7

(* Publishing the layer that was landing in a slot keeps both too.          *)
LEMMA PublishKeepsMaps ==
    ASSUME TypeOK, MapsAgree, OneCopy, pinned' = pinned,
           NEW s \in Slots, NEW L \in Layers,
           pending[s] = L, layer_of[s] = None, Streaming(L), slot_of[L] \in Slots \cup {None},
           pending' = [pending EXCEPT ![s] = None],
           layer_of' = [layer_of EXCEPT ![s] = L],
           slot_of' = [slot_of EXCEPT ![L] = s]
    PROVE  MapsAgree' /\ OneCopy'
<1>1. /\ layer_of \in [Slots -> Layers \cup {None}] /\ slot_of \in [Layers -> Layers \cup Slots \cup {None}]
      /\ pending \in [Slots -> Layers \cup {None}]
  BY DEF TypeOK
<1>2. \A t \in Slots : layer_of[t] # L
  BY SlotArithmetic DEF OneCopy
<1>3. MapsAgree'
  <2> SUFFICES ASSUME NEW K \in Layers, NEW t \in Slots
               PROVE  layer_of'[t] = K <=> Streaming(K) /\ slot_of'[K] = t
    BY DEF MapsAgree, Streaming
  <2>1. layer_of[t] = K <=> Streaming(K) /\ slot_of[K] = t
    BY DEF MapsAgree
  <2>2. layer_of[s] = K <=> Streaming(K) /\ slot_of[K] = s
    BY DEF MapsAgree
  <2>3. CASE K = L
    BY <1>1, <1>2, <2>1, <2>3
  <2>4. CASE K # L
    BY <1>1, <2>1, <2>2, <2>4, SlotArithmetic
  <2>5. QED
    BY <2>3, <2>4
<1>4. OneCopy'
  <2> SUFFICES ASSUME NEW t \in Slots, NEW u \in Slots, NEW K \in Layers,
                      K \in {layer_of'[t], pending'[t]}, K \in {layer_of'[u], pending'[u]}
               PROVE  t = u
    BY DEF OneCopy
  <2>1. K \in {layer_of[t], pending[t]} /\ K \in {layer_of[u], pending[u]}
    BY <1>1, SlotArithmetic
  <2>2. QED
    BY <2>1 DEF OneCopy
<1>5. QED
  BY <1>3, <1>4

(* Taking a landing entry away keeps the maps inverse and the copies single.*)
LEMMA DropKeepsMaps ==
    ASSUME TypeOK, MapsAgree, OneCopy, UNCHANGED <<pinned, layer_of, slot_of>>,
           NEW s \in Slots, pending' = [pending EXCEPT ![s] = None]
    PROVE  MapsAgree' /\ OneCopy'
<1>1. MapsAgree'
  BY DEF MapsAgree, Streaming
<1>2. \A t \in Slots : pending'[t] \in {pending[t], None}
  BY DEF TypeOK
<1>3. OneCopy'
  <2> SUFFICES ASSUME NEW t \in Slots, NEW u \in Slots, NEW K \in Layers,
                      K \in {layer_of'[t], pending'[t]}, K \in {layer_of'[u], pending'[u]}
               PROVE  t = u
    BY DEF OneCopy
  <2>1. K \in {layer_of[t], pending[t]} /\ K \in {layer_of[u], pending[u]}
    BY <1>2, SlotArithmetic
  <2>2. QED
    BY <2>1 DEF OneCopy
<1>4. QED
  BY <1>1, <1>3

(* Every step keeps the maps inverse and the copies single.                 *)
LEMMA MapStep ==
    ASSUME IInv, [Next]_vars
    PROVE  MapsAgree' /\ OneCopy'
<1>t. TypeOK /\ MapsAgree /\ OneCopy
  BY DEF IInv
<1>o. SlotOwners /\ WalkKnows
  BY DEF IInv
<1>w. walk \in Layers
  BY <1>t DEF TypeOK
<1>1. CASE UNCHANGED Rings
  BY <1>t, <1>1 DEF Rings, MapsAgree, OneCopy, Streaming
<1>2. CASE PinnedReadEnds
  <2>1. UNCHANGED <<pinned, layer_of, pending>> /\ slot_of' = [slot_of EXCEPT ![walk] = walk]
    BY <1>2 DEF PinnedReadEnds
  <2>2. ~Streaming(walk)
    BY <1>o, <1>2 DEF PinnedReadEnds, WalkKnows
  <2>3. \A K \in Layers : Streaming(K) => slot_of'[K] = slot_of[K]
    BY <1>t, <2>1, <2>2 DEF TypeOK
  <2>4. MapsAgree'
    BY <1>t, <2>1, <2>3 DEF MapsAgree, Streaming
  <2>5. OneCopy'
    BY <1>t, <2>1 DEF OneCopy
  <2>6. QED
    BY <2>4, <2>5
<1>3. CASE MainReadEnds
  <2>1. mslot \in Slots /\ pending[mslot] = walk /\ Streaming(walk)
    BY <1>o, <1>3 DEF MainReadEnds, SlotOwners, WalkKnows
  <2>2. layer_of[mslot] = None /\ slot_of[walk] \in Slots \cup {None}
    BY <1>o, <1>w, <2>1, SlotArithmetic DEF SlotOwners
  <2>3. QED
    BY <1>t, <1>w, <1>3, <2>1, <2>2, PublishKeepsMaps DEF MainReadEnds
<1>4. CASE MainReadFails
  <2>1. mslot \in Slots
    BY <1>o, <1>4 DEF MainReadFails, SlotOwners
  <2>2. QED
    BY <1>t, <1>4, <2>1, DropKeepsMaps DEF MainReadFails
<1>5. CASE ReaderPublishes
  <2>1. job.slot \in Slots /\ job.layer \in Layers /\ pending[job.slot] = job.layer
    BY <1>o, <1>5 DEF ReaderPublishes, ReaderDone, SlotOwners
  <2>2. layer_of[job.slot] = None /\ Streaming(job.layer) /\ slot_of[job.layer] \in Slots \cup {None}
    BY <1>o, <2>1, SlotArithmetic DEF SlotOwners
  <2>3. QED
    BY <1>t, <1>5, <2>1, <2>2, PublishKeepsMaps DEF ReaderPublishes, ReaderDone
<1>6. CASE ReaderFails
  <2>1. job.slot \in Slots
    BY <1>o, <1>6 DEF ReaderFails, ReaderDone, SlotOwners
  <2>2. QED
    BY <1>t, <1>6, <2>1, DropKeepsMaps DEF ReaderFails, ReaderDone
<1>7. ASSUME NEW s \in Slots, LookClaims(s) PROVE MapsAgree' /\ OneCopy'
  <2>1. pending[s] = None
    BY <1>t, <1>7, ClaimedIsFree DEF LookClaims
  <2>2. Streaming(walk)
    BY <1>o, <1>7 DEF LookClaims, WalkKnows
  <2>3. QED
    BY <1>t, <1>w, <1>7, <2>1, <2>2, ClaimKeepsMaps DEF LookClaims
<1>8. ASSUME NEW s \in Slots, PrefetchQueues(s) PROVE MapsAgree' /\ OneCopy'
  <2>1. pending[s] = None
    BY <1>t, <1>8, ClaimedIsFree DEF PrefetchQueues
  <2>2. scan \in Layers
    BY <1>t, <1>8 DEF PrefetchQueues, ScanContinues, TypeOK, Layers
  <2>3. QED
    BY <1>t, <1>8, <2>1, <2>2, ClaimKeepsMaps DEF PrefetchQueues, ScanSkips
<1>9. QED
  BY <1>1, <1>2, <1>3, <1>4, <1>5, <1>6, <1>7, <1>8, RingSteps

(* A published slot keeps its bytes: only a slot that was emptied first is  *)
(* ever read into.                                                          *)
LEMMA WholeStep ==
    ASSUME IInv, [Next]_vars
    PROVE  PublishedWhole'
<1> USE DEF maps, main, reader, counts
<1>t. TypeOK /\ MapsAgree /\ PublishedWhole
  BY DEF IInv
<1>o. SlotOwners /\ WalkKnows
  BY DEF IInv
<1>w. walk \in Layers
  BY <1>t DEF TypeOK
<1>v. /\ layer_of \in [Slots -> Layers \cup {None}] /\ data \in [Slots -> Content]
      /\ slot_of \in [Layers -> Layers \cup Slots \cup {None}] /\ pin \in [Layers -> Content]
      /\ pinned \subseteq Layers
  BY <1>t DEF TypeOK
<1>1. CASE UNCHANGED <<pinned, layer_of, slot_of, data, pin>>
  BY <1>t, <1>1 DEF PublishedWhole
<1>2. CASE PinnedReadBegins
  BY <1>t, <1>v, <1>2 DEF PinnedReadBegins, PublishedWhole
<1>3. CASE PinnedReadEnds
  BY <1>t, <1>v, <1>w, <1>3 DEF PinnedReadEnds, PublishedWhole
<1>4. CASE MainReadEnds
  <2>1. mslot \in Slots /\ Streaming(walk)
    BY <1>o, <1>4 DEF MainReadEnds, SlotOwners, WalkKnows
  <2>2. QED
    BY <1>t, <1>v, <1>w, <1>4, <2>1 DEF MainReadEnds, PublishedWhole, Streaming
<1>5. CASE ReaderTakes
  <2>1. q \in Seq([layer : Layers, slot : Slots]) /\ q # <<>>
    BY <1>t, <1>5 DEF ReaderTakes, TypeOK
  <2>2. q[1] \in [layer : Layers, slot : Slots] /\ Head(q) = q[1] /\ 1 \in 1 .. Len(q)
    BY <2>1, QueueHead
  <2>3. pending[q[1].slot] = q[1].layer
    BY <1>o, <2>2 DEF SlotOwners
  <2>4. layer_of[q[1].slot] = None
    BY <1>o, <2>2, <2>3, SlotArithmetic DEF SlotOwners
  <2>5. data' = [data EXCEPT ![q[1].slot] = Torn] /\ UNCHANGED <<pinned, layer_of, slot_of, pin>>
    BY <1>5, <2>2 DEF ReaderTakes
  <2>6. QED
    BY <1>t, <1>v, <2>2, <2>4, <2>5 DEF PublishedWhole
<1>6. CASE ReaderPublishes
  <2>1. job.slot \in Slots /\ job.layer \in Layers /\ pending[job.slot] = job.layer
    BY <1>o, <1>6 DEF ReaderPublishes, ReaderDone, SlotOwners
  <2>2. Streaming(job.layer)
    BY <1>o, <2>1, SlotArithmetic DEF SlotOwners
  <2>3. QED
    BY <1>t, <1>v, <1>6, <2>1, <2>2 DEF ReaderPublishes, PublishedWhole, Streaming
<1>7. ASSUME NEW s \in Slots, NEW L \in Layers, claim_slot(s, L), UNCHANGED <<pinned, pin>>,
             data' = data \/ data' = [data EXCEPT ![s] = Torn]
      PROVE  PublishedWhole'
  <2>1. layer_of[s] # None => Streaming(layer_of[s])
    BY <1>t, <1>v DEF MapsAgree
  <2>2. \A K \in pinned : slot_of'[K] = slot_of[K]
    BY <1>v, <1>7, <2>1 DEF claim_slot, Streaming
  <2>3. \A t \in Slots : t # s => layer_of'[t] = layer_of[t] /\ data'[t] = data[t]
    BY <1>v, <1>7 DEF claim_slot
  <2>4. layer_of'[s] = None
    BY <1>v, <1>7 DEF claim_slot
  <2>5. QED
    BY <1>t, <1>7, <2>2, <2>3, <2>4 DEF PublishedWhole
<1>8. ASSUME NEW s \in Slots, LookClaims(s) PROVE PublishedWhole'
  BY <1>w, <1>7, <1>8 DEF LookClaims
<1>9. ASSUME NEW s \in Slots, PrefetchQueues(s) PROVE PublishedWhole'
  <2>1. scan \in Layers
    BY <1>t, <1>9 DEF PrefetchQueues, ScanContinues, TypeOK, Layers
  <2>2. QED
    BY <1>7, <1>9, <2>1 DEF PrefetchQueues
<1>10. CASE Main
  <2>1. CASE \E s \in Slots : LookClaims(s) \/ PrefetchQueues(s)
    BY <1>8, <1>9, <2>1
  <2>2. CASE PinnedReadBegins \/ PinnedReadEnds \/ MainReadEnds
    BY <1>2, <1>3, <1>4, <2>2
  <2>3. CASE (\E L \in Layers : FetchEnter(L)) \/ PinnedReadFails \/ PinnedHit \/ PinnedReturns
             \/ StreamEnter \/ LookFinds \/ LookWaits \/ MainReadFails
    BY <1>1, <2>3 DEF FetchEnter, PinnedReadFails, PinnedHit, PinnedReturns, StreamEnter,
       LookFinds, LookWaits, MainReadFails
  <2>4. CASE PrefetchBegins \/ PrefetchSkips \/ PrefetchReturns
             \/ CloseStops \/ CloseFrees
    BY <1>1, <2>4 DEF PrefetchBegins, PrefetchSkips, PrefetchReturns,
       CloseStops, CloseFrees
  <2>5. QED
    BY <1>10, <2>1, <2>2, <2>3, <2>4 DEF Main
<1>11. CASE Reader
  BY <1>1, <1>5, <1>6, <1>11 DEF Reader, ReaderSleeps, ReaderExits, ReaderFails
<1>12. CASE UNCHANGED vars
  BY <1>1, <1>12 DEF vars
<1>13. QED
  BY <1>10, <1>11, <1>12 DEF Next, Closed

(* Every landing slot keeps exactly one owner. *)
LEMMA OwnersStep ==
    ASSUME IInv, [Next]_vars
    PROVE  SlotOwners'
<1> USE DEF maps, main, reader, counts
<1> DEFINE Job == [layer : Layers, slot : Slots]
<1>t. TypeOK /\ MapsAgree /\ OneCopy
  BY DEF IInv
<1>o. SlotOwners /\ WalkKnows
  BY DEF IInv
<1>v. /\ layer_of \in [Slots -> Layers \cup {None}] /\ pending \in [Slots -> Layers \cup {None}]
      /\ slot_of \in [Layers -> Layers \cup Slots \cup {None}]
      /\ q \in Seq(Job) /\ walk \in Layers /\ pinned \subseteq Layers
  BY <1>t DEF TypeOK
<1>l. Len(q) \in Nat /\ \A i \in 1 .. Len(q) : q[i] \in Job /\ q[i].slot \in Slots /\ q[i].layer \in Layers
  <2>1. Len(q) \in Nat /\ \A i \in 1 .. Len(q) : q[i] \in Job
    BY <1>v, QueueItems
  <2>2. QED
    BY <2>1
<1>1. ASSUME UNCHANGED <<pinned, layer_of, slot_of, pending, q>>,
             rpc' = "read" => UNCHANGED <<rpc, job>>,
             pc' = "read" => UNCHANGED <<pc, mslot, walk>>
      PROVE  SlotOwners'
  BY <1>o, <1>1 DEF SlotOwners, Streaming
<1>2. CASE PinnedReadEnds
  <2>1. ~Streaming(walk)
    BY <1>o, <1>2 DEF PinnedReadEnds, WalkKnows
  <2>2. \A K \in Layers : Streaming(K) => slot_of'[K] = slot_of[K]
    BY <1>v, <1>2, <2>1 DEF PinnedReadEnds
  <2>3. QED
    BY <1>o, <1>2, <2>2 DEF PinnedReadEnds, SlotOwners, Streaming
<1>3. CASE MainReadEnds \/ MainReadFails
  <2>1. /\ mslot \in Slots /\ pending[mslot] = walk
        /\ \A i \in 1 .. Len(q) : q[i].slot # mslot
        /\ rpc = "read" => job.slot # mslot
    BY <1>o, <1>3 DEF MainReadEnds, MainReadFails, SlotOwners
  <2>2. /\ pending' = [pending EXCEPT ![mslot] = None]
        /\ UNCHANGED <<pinned, q, rpc, job>> /\ pc' # "read"
        /\ \/ UNCHANGED <<layer_of, slot_of>>
           \/ /\ layer_of' = [layer_of EXCEPT ![mslot] = walk]
              /\ slot_of' = [slot_of EXCEPT ![walk] = mslot]
    BY <1>3 DEF MainReadEnds, MainReadFails
  <2>3. \A L \in Layers : Streaming(L) => slot_of'[L] \in Slots \cup {None}
    BY <1>o, <1>v, <2>1, <2>2 DEF SlotOwners
  <2>4. \A s \in Slots : pending'[s] # None => layer_of'[s] = None /\ Streaming(pending'[s])
    BY <1>o, <1>v, <2>1, <2>2 DEF SlotOwners
  <2>5. \A i \in 1 .. Len(q) : pending'[q[i].slot] = q[i].layer
    BY <1>o, <1>v, <1>l, <2>1, <2>2 DEF SlotOwners
  <2>6. rpc = "read" => pending'[job.slot] = job.layer
    BY <1>o, <1>v, <2>1, <2>2 DEF SlotOwners
  <2>7. QED
    BY <1>o, <2>2, <2>3, <2>4, <2>5, <2>6 DEF SlotOwners, Streaming
<1>4. CASE ReaderPublishes \/ ReaderFails
  <2>1. /\ job.slot \in Slots /\ job.layer \in Layers /\ pending[job.slot] = job.layer
        /\ \A i \in 1 .. Len(q) : q[i].slot # job.slot
        /\ pc = "read" => job.slot # mslot
    BY <1>o, <1>4 DEF ReaderPublishes, ReaderFails, ReaderDone, SlotOwners
  <2>2. /\ pending' = [pending EXCEPT ![job.slot] = None]
        /\ UNCHANGED <<pinned, q, mslot, walk>> /\ rpc' # "read"
        /\ pc' = "read" => pc = "read"
        /\ \/ UNCHANGED <<layer_of, slot_of>>
           \/ /\ layer_of' = [layer_of EXCEPT ![job.slot] = job.layer]
              /\ slot_of' = [slot_of EXCEPT ![job.layer] = job.slot]
    BY <1>4 DEF ReaderPublishes, ReaderFails, ReaderDone
  <2>3. \A L \in Layers : Streaming(L) => slot_of'[L] \in Slots \cup {None}
    BY <1>o, <1>v, <2>1, <2>2 DEF SlotOwners
  <2>4. \A s \in Slots : pending'[s] # None => layer_of'[s] = None /\ Streaming(pending'[s])
    BY <1>o, <1>v, <2>1, <2>2 DEF SlotOwners
  <2>5. \A i \in 1 .. Len(q) : pending'[q[i].slot] = q[i].layer
    BY <1>o, <1>v, <1>l, <2>1, <2>2 DEF SlotOwners
  <2>6. pc = "read" => pending'[mslot] = walk
    BY <1>o, <1>v, <2>1, <2>2 DEF SlotOwners
  <2>7. QED
    BY <1>o, <2>2, <2>3, <2>4, <2>5, <2>6 DEF SlotOwners, Streaming
<1>5. CASE ReaderTakes
  <2>0. q # <<>> /\ q' = Tail(q)
    BY <1>5 DEF ReaderTakes
  <2>1. /\ q[1] \in Job /\ Head(q) = q[1] /\ Len(q') = Len(q) - 1
        /\ \A i \in 1 .. Len(q') : q'[i] = q[i + 1]
    BY <1>v, <2>0, QueueHead
  <2>2. UNCHANGED <<pinned, layer_of, slot_of, pending, pc, mslot, walk>> /\ job' = q[1] /\ rpc = "look"
    BY <1>5, <2>1 DEF ReaderTakes
  <2>3. \A i \in 1 .. Len(q') : i + 1 \in 1 .. Len(q) /\ i + 1 # 1
    BY <1>l, <2>1
  <2>4. 1 \in 1 .. Len(q)
    BY <1>v, <2>0, QueueHead
  <2>5. \A i \in 1 .. Len(q') : pending[q'[i].slot] = q'[i].layer /\ q'[i].slot # q[1].slot
    BY <1>o, <2>1, <2>3, <2>4 DEF SlotOwners
  <2>6. \A i, j \in 1 .. Len(q') : q'[i].slot = q'[j].slot => i = j
    BY <1>o, <1>l, <2>1, <2>3 DEF SlotOwners
  <2>7. pending[q[1].slot] = q[1].layer /\ q[1] \in Job
    BY <1>o, <1>l, <2>4 DEF SlotOwners
  <2>8. pc = "read" => q[1].slot # mslot /\ \A i \in 1 .. Len(q') : q'[i].slot # mslot
    BY <1>o, <2>1, <2>3, <2>4 DEF SlotOwners
  <2>9. QED
    BY <1>o, <2>2, <2>5, <2>6, <2>7, <2>8 DEF SlotOwners, Streaming
<1>6. ASSUME NEW s \in Slots, NEW L \in Layers, claim_slot(s, L), pending[s] = None,
             Streaming(L), UNCHANGED pinned
      PROVE  /\ \A K \in Layers : (Streaming(K) => slot_of[K] \in Slots \cup {None})'
             /\ \A t \in Slots : (pending[t] # None => layer_of[t] = None /\ Streaming(pending[t]))'
             /\ \A i \in 1 .. Len(q) : pending'[q[i].slot] = q[i].layer /\ q[i].slot # s
             /\ rpc = "read" => pending'[job.slot] = job.layer /\ job.slot # s
             /\ pc = "read" => pending'[mslot] = walk /\ mslot # s
             /\ pending'[s] = L
  <2>1. \A K \in Layers : slot_of'[K] \in {slot_of[K], None}
    BY <1>v, <1>6 DEF claim_slot
  <2>2. \A t \in Slots : /\ layer_of'[t] = IF t = s THEN None ELSE layer_of[t]
                         /\ pending'[t] = IF t = s THEN L ELSE pending[t]
    BY <1>v, <1>6 DEF claim_slot
  <2>3. \A K \in Layers : (Streaming(K) => slot_of[K] \in Slots \cup {None})'
    BY <1>o, <1>6, <2>1 DEF SlotOwners, Streaming
  <2>4. \A t \in Slots : (pending[t] # None => layer_of[t] = None /\ Streaming(pending[t]))'
    BY <1>o, <1>6, <2>2 DEF SlotOwners, Streaming
  <2>5. \A i \in 1 .. Len(q) : pending'[q[i].slot] = q[i].layer /\ q[i].slot # s
    <3> SUFFICES ASSUME NEW i \in 1 .. Len(q)
                 PROVE  pending'[q[i].slot] = q[i].layer /\ q[i].slot # s
      OBVIOUS
    <3>1. pending[q[i].slot] = q[i].layer
      BY <1>o DEF SlotOwners
    <3>2. q[i].slot \in Slots /\ q[i].layer # None
      BY <1>l, SlotArithmetic
    <3>3. QED
      BY <1>6, <2>2, <3>1, <3>2
  <2>6. rpc = "read" => pending'[job.slot] = job.layer /\ job.slot # s
    BY <1>o, <1>6, <2>2, SlotArithmetic DEF SlotOwners
  <2>7. pc = "read" => pending'[mslot] = walk /\ mslot # s
    BY <1>o, <1>v, <1>6, <2>2, SlotArithmetic DEF SlotOwners
  <2>8. QED
    BY <2>2, <2>3, <2>4, <2>5, <2>6, <2>7
<1>7. ASSUME NEW s \in Slots, LookClaims(s) PROVE SlotOwners'
  <2>1. pending[s] = None /\ Streaming(walk)
    BY <1>t, <1>o, <1>7, ClaimedIsFree DEF LookClaims, WalkKnows
  <2>2. UNCHANGED <<pinned, q, rpc, job, walk>> /\ claim_slot(s, walk) /\ mslot' = s
    BY <1>7 DEF LookClaims
  <2>3. QED
    BY <1>o, <1>v, <1>6, <2>1, <2>2 DEF SlotOwners
<1>8. ASSUME NEW s \in Slots, PrefetchQueues(s) PROVE SlotOwners'
  <2>1. pending[s] = None /\ scan \in Layers /\ Streaming(scan)
    <3>1. pending[s] = None
      BY <1>t, <1>8, ClaimedIsFree DEF PrefetchQueues
    <3>2. scan \in Layers /\ Streaming(scan)
      BY <1>t, <1>8 DEF PrefetchQueues, ScanSkips, ScanContinues, TypeOK, Layers
    <3>3. QED
      BY <3>1, <3>2
  <2>2. /\ UNCHANGED <<pinned, rpc, job, walk, pc, mslot>> /\ claim_slot(s, scan)
        /\ q' = Append(q, [layer |-> scan, slot |-> s])
    BY <1>8 DEF PrefetchQueues
  <2>3. /\ Len(q') = Len(q) + 1 /\ \A i \in 1 .. Len(q) : q'[i] = q[i]
        /\ q'[Len(q) + 1] = [layer |-> scan, slot |-> s]
    BY <1>v, <2>1, <2>2, AppendProperties
  <2>4. \A i \in 1 .. Len(q') : i \in 1 .. Len(q) \/ i = Len(q) + 1
    BY <1>l, <2>3
  <2>5. /\ \A i \in 1 .. Len(q) : pending'[q[i].slot] = q[i].layer /\ q[i].slot # s
        /\ pending'[s] = scan
    BY <1>6, <2>1, <2>2
  <2>6. \A i \in 1 .. Len(q') : pending'[q'[i].slot] = q'[i].layer
    BY <2>3, <2>4, <2>5
  <2>7. \A i, j \in 1 .. Len(q') : q'[i].slot = q'[j].slot => i = j
    BY <1>o, <1>l, <2>3, <2>4, <2>5 DEF SlotOwners
  <2>8. rpc = "read" => /\ pending'[job.slot] = job.layer
                        /\ \A i \in 1 .. Len(q') : q'[i].slot # job.slot
    BY <1>o, <1>6, <2>1, <2>2, <2>3, <2>4 DEF SlotOwners
  <2>9. pc # "read"
    BY <1>8 DEF PrefetchQueues
  <2>10. /\ \A K \in Layers : (Streaming(K) => slot_of[K] \in Slots \cup {None})'
         /\ \A t \in Slots : (pending[t] # None => layer_of[t] = None /\ Streaming(pending[t]))'
    BY <1>6, <2>1, <2>2
  <2>11. QED
    BY <1>o, <2>2, <2>6, <2>7, <2>8, <2>9, <2>10 DEF SlotOwners
<1>9. CASE Main
  <2>1. CASE \E s \in Slots : LookClaims(s) \/ PrefetchQueues(s)
    BY <1>7, <1>8, <2>1
  <2>2. CASE PinnedReadEnds \/ MainReadEnds \/ MainReadFails
    BY <1>2, <1>3, <2>2
  <2>3. CASE (\E L \in Layers : FetchEnter(L)) \/ PinnedReadBegins \/ PinnedReadFails \/ PinnedHit
             \/ PinnedReturns \/ StreamEnter \/ LookFinds \/ LookWaits
    BY <1>1, <2>3 DEF FetchEnter, PinnedReadBegins, PinnedReadFails, PinnedHit, PinnedReturns,
       StreamEnter, LookFinds, LookWaits
  <2>4. CASE PrefetchBegins \/ PrefetchSkips \/ PrefetchReturns
             \/ CloseStops \/ CloseFrees
    BY <1>1, <2>4 DEF PrefetchBegins, PrefetchSkips, PrefetchReturns,
       CloseStops, CloseFrees
  <2>5. QED
    BY <1>9, <2>1, <2>2, <2>3, <2>4 DEF Main
<1>10. CASE Reader
  BY <1>1, <1>4, <1>5, <1>10 DEF Reader, ReaderSleeps, ReaderExits
<1>11. CASE UNCHANGED vars
  BY <1>1, <1>11 DEF vars
<1>12. QED
  BY <1>9, <1>10, <1>11 DEF Next, Closed

(* What the main thread knows of the layer it walks stays true: a slot it   *)
(* holds is neither claimed nor landing.                                    *)
LEMMA KnowsStep ==
    ASSUME IInv, [Next]_vars
    PROVE  WalkKnows'
<1> USE DEF maps, main, reader, counts
<1>t. TypeOK /\ MapsAgree
  BY DEF IInv
<1>o. SlotOwners /\ WalkKnows
  BY DEF IInv
<1>v. /\ layer_of \in [Slots -> Layers \cup {None}] /\ slot_of \in [Layers -> Layers \cup Slots \cup {None}]
      /\ walk \in Layers
  BY <1>t DEF TypeOK
<1>1. CASE UNCHANGED <<pinned, walk, held, layer_of, slot_of>>
           /\ (pc' = pc \/ pc' \in {"enter", "failed", "join", "closed"})
  BY <1>o, <1>1 DEF WalkKnows, Lent, Streaming
<1>2. ASSUME NEW L \in Layers, FetchEnter(L) PROVE WalkKnows'
  BY <1>2 DEF FetchEnter, WalkKnows, Lent
<1>3. CASE PinnedReadBegins
  BY <1>3 DEF PinnedReadBegins, WalkKnows, Lent, Streaming
<1>4. CASE PinnedReadEnds
  <2>1. slot_of'[walk] = walk /\ ~Streaming(walk)
    BY <1>o, <1>v, <1>4 DEF PinnedReadEnds, WalkKnows
  <2>2. QED
    BY <1>4, <1>v, <2>1, SlotArithmetic DEF PinnedReadEnds, WalkKnows, Lent, Streaming
<1>5. CASE PinnedHit
  BY <1>5 DEF PinnedHit, WalkKnows, Lent, Streaming
<1>6. CASE PinnedReturns
  BY <1>o, <1>6 DEF PinnedReturns, WalkKnows, Lent, Streaming
<1>7. CASE StreamEnter
  BY <1>7 DEF StreamEnter, WalkKnows, Lent, Streaming
<1>8. CASE LookFinds
  <2>1. Streaming(walk) /\ slot_of[walk] \in Slots
    BY <1>o, <1>v, <1>8 DEF LookFinds, WalkKnows, SlotOwners
  <2>2. layer_of[slot_of[walk]] = walk
    BY <1>t, <1>v, <2>1 DEF MapsAgree
  <2>3. QED
    BY <1>8, <2>1, <2>2 DEF LookFinds, WalkKnows, Lent, Streaming
<1>9. CASE LookWaits
  BY <1>o, <1>9 DEF LookWaits, WalkKnows, Lent, Streaming
<1>10. ASSUME NEW s \in Slots, LookClaims(s) PROVE WalkKnows'
  BY <1>o, <1>10 DEF LookClaims, WalkKnows, Lent, Streaming
<1>11. CASE MainReadEnds
  <2>1. Streaming(walk) /\ mslot \in Slots
    BY <1>o, <1>11 DEF MainReadEnds, WalkKnows, SlotOwners
  <2>2. layer_of'[mslot] = walk
    BY <1>v, <1>11, <2>1 DEF MainReadEnds
  <2>3. QED
    BY <1>11, <2>1, <2>2 DEF MainReadEnds, WalkKnows, Lent, Streaming
<1>12. CASE PrefetchBegins \/ PrefetchReturns
  <2>1. /\ UNCHANGED <<pinned, walk, held, layer_of, slot_of>>
        /\ Lent /\ pc' \in {"compute", "scan"}
    BY <1>12 DEF PrefetchBegins, PrefetchReturns, Lent
  <2>2. QED
    BY <1>o, <2>1 DEF WalkKnows, Lent, Streaming
<1>13. ASSUME NEW s \in Slots, PrefetchQueues(s) PROVE WalkKnows'
  <2>1. s # held /\ claim_slot(s, scan) /\ pc = "scan"
    BY <1>t, <1>13, ClaimedIsFree DEF PrefetchQueues
  <2>2. UNCHANGED <<pinned, walk, held, pc>>
    BY <1>13 DEF PrefetchQueues
  <2>3. Streaming(walk) => layer_of'[held] = layer_of[held]
    BY <1>o, <1>v, <2>1 DEF claim_slot, WalkKnows, Lent
  <2>4. ~Streaming(walk) => slot_of'[walk] = slot_of[walk]
    BY <1>t, <1>v, <2>1, SlotArithmetic DEF claim_slot, MapsAgree
  <2>5. QED
    BY <1>o, <2>1, <2>2, <2>3, <2>4 DEF WalkKnows, Lent, Streaming
<1>14. CASE ReaderPublishes
  <2>1. /\ job.slot \in Slots /\ job.layer \in Layers
        /\ layer_of[job.slot] = None /\ Streaming(job.layer)
    <3>1. job.slot \in Slots /\ job.layer \in Layers /\ pending[job.slot] = job.layer
      BY <1>o, <1>14 DEF ReaderPublishes, ReaderDone, SlotOwners
    <3>2. QED
      BY <1>o, <3>1, SlotArithmetic DEF SlotOwners
  <2>2. /\ UNCHANGED <<pinned, walk, held>>
        /\ pc' = pc \/ (pc = "asleep" /\ pc' = "look")
        /\ layer_of' = [layer_of EXCEPT ![job.slot] = job.layer]
        /\ slot_of' = [slot_of EXCEPT ![job.layer] = job.slot]
    BY <1>14 DEF ReaderPublishes, ReaderDone
  <2>3. pc = "release" \/ Lent =>
           IF Streaming(walk) THEN layer_of'[held] = layer_of[held] ELSE slot_of'[walk] = slot_of[walk]
    BY <1>o, <1>v, <2>1, <2>2, SlotArithmetic DEF WalkKnows
  <2>4. QED
    BY <1>o, <2>2, <2>3 DEF WalkKnows, Lent, Streaming
<1>15. CASE ReaderFails
  BY <1>o, <1>15 DEF ReaderFails, ReaderDone, WalkKnows, Lent, Streaming
<1>16. CASE Main
  <2>1. CASE (\E s \in Slots : LookClaims(s) \/ PrefetchQueues(s)) \/ (\E L \in Layers : FetchEnter(L))
    BY <1>2, <1>10, <1>13, <2>1
  <2>2. CASE PinnedReadBegins \/ PinnedReadEnds \/ PinnedHit \/ PinnedReturns
             \/ StreamEnter \/ LookFinds \/ LookWaits \/ MainReadEnds
    BY <1>3, <1>4, <1>5, <1>6, <1>7, <1>8, <1>9, <1>11, <2>2
  <2>3. CASE PrefetchBegins \/ PrefetchReturns
    BY <1>12, <2>3
  <2>4. CASE PinnedReadFails \/ MainReadFails \/ PrefetchSkips \/ CloseStops \/ CloseFrees
    BY <1>1, <2>4 DEF PinnedReadFails, MainReadFails, PrefetchSkips, CloseStops, CloseFrees
  <2>5. QED
    BY <1>16, <2>1, <2>2, <2>3, <2>4 DEF Main
<1>17. CASE Reader
  BY <1>1, <1>14, <1>15, <1>17 DEF Reader, ReaderSleeps, ReaderExits, ReaderTakes
<1>18. CASE UNCHANGED vars
  BY <1>1, <1>18 DEF vars
<1>19. QED
  BY <1>16, <1>17, <1>18 DEF Next, Closed

(* The inductive invariant of the ring: types, inverse maps, whole bytes    *)
(* under every published slot, single copies and single owners, whichever   *)
(* way the two threads' critical sections interleave.                       *)
THEOREM InvHolds == Spec => []IInv
<1>1. IInv /\ [Next]_vars => IInv'
  BY TypeStep, MapStep, WholeStep, OwnersStep, KnowsStep DEF IInv
<1>2. QED
  BY InitInv, <1>1, PTL DEF Spec

(* Type correctness of the state k3_trunk.c keeps.                          *)
THEOREM TypesHold == Spec => []TypeOK
<1>1. IInv => TypeOK
  BY DEF IInv
<1>2. QED
  BY InvHolds, <1>1, PTL

(* layer_of and slot_of are inverse at every step of both threads.          *)
THEOREM MapsHold == Spec => []MapsAgree
<1>1. IInv => MapsAgree
  BY DEF IInv
<1>2. QED
  BY InvHolds, <1>1, PTL

(* No slot is registered before its layer's bytes are all there.            *)
THEOREM WholeHolds == Spec => []PublishedWhole
<1>1. IInv => PublishedWhole
  BY DEF IInv
<1>2. QED
  BY InvHolds, <1>1, PTL

(* No layer is resident or landing twice.                                   *)
THEOREM CopiesHold == Spec => []OneCopy
<1>1. IInv => OneCopy
  BY DEF IInv
<1>2. QED
  BY InvHolds, <1>1, PTL

(* What the caller of a fetch holds is the layer it asked for.              *)
LoanIsWalk == Lent => LoanBytes = walk

(* A lent layer is the one the walk is at. *)
LEMMA LentIsWalk == IInv => LoanIsWalk
<1> SUFFICES ASSUME IInv, Lent PROVE LoanBytes = walk
  BY DEF LoanIsWalk
<1>1. TypeOK /\ MapsAgree /\ PublishedWhole /\ WalkKnows /\ walk \in Layers
  BY DEF IInv, TypeOK
<1>2. CASE Streaming(walk)
  BY <1>1, <1>2, SlotArithmetic DEF LoanBytes, WalkKnows, PublishedWhole
<1>3. CASE ~Streaming(walk)
  BY <1>1, <1>3 DEF LoanBytes, WalkKnows, PublishedWhole, Streaming
<1>4. QED
  BY <1>2, <1>3

(* How each step of the ring moves the loan.                                *)
LEMMA LoanStep ==
    ASSUME IInv, LoanIsWalk, LoanIsWalk', [Next]_vars
    PROVE  [Source!Next]_Source!vars
<1> USE DEF maps, main, reader, counts
<1> DEFINE Asking == {"enter", "pinread", "release", "look", "asleep", "read"}
<1>t. TypeOK /\ walk \in Layers
  BY DEF IInv, TypeOK
<1>l. /\ Lent => LoanState = "lent" /\ LoanBytes = walk
      /\ ~Lent => LoanBytes = None
      /\ pc = "call" => LoanState = "idle"
      /\ pc \in Asking => LoanState = "asked"
      /\ pc = "failed" => LoanState = "failed"
      /\ pc \in {"join", "closed"} => LoanState = "closed"
  BY DEF LoanIsWalk, LoanState, LoanBytes, Lent
<1>p. /\ Lent' => LoanState' = "lent" /\ LoanBytes' = walk'
      /\ ~Lent' => LoanBytes' = None
      /\ pc' = "call" => LoanState' = "idle"
      /\ pc' \in Asking => LoanState' = "asked"
      /\ pc' = "failed" => LoanState' = "failed"
      /\ pc' \in {"join", "closed"} => LoanState' = "closed"
  BY DEF LoanIsWalk, LoanState, LoanBytes, Lent
<1>1. CASE UNCHANGED walk /\ (pc' = pc \/ (pc \in Asking /\ pc' \in Asking) \/ (Lent /\ Lent'))
  <2>1. UNCHANGED LoanState /\ UNCHANGED LoanBytes
    BY <1>l, <1>p, <1>1 DEF Lent, LoanState
  <2>2. QED
    BY <1>1, <2>1 DEF Source!vars
<1>2. CASE UNCHANGED walk /\ pc \in Asking /\ Lent'
  BY <1>l, <1>p, <1>2 DEF Source!Next, Source!Lend, Lent
<1>3. CASE UNCHANGED walk /\ pc \in Asking /\ pc' = "failed"
  BY <1>l, <1>p, <1>3 DEF Source!Next, Source!Refuse, Lent
<1>4. ASSUME NEW L \in Layers, FetchEnter(L) PROVE [Source!Next]_Source!vars
  <2>1. LoanState \in {"idle", "lent"}
    BY <1>l, <1>4 DEF FetchEnter, NextLayer, Lent
  <2>2. pc' \in Asking /\ ~Lent' /\ walk' = L
    BY <1>4 DEF FetchEnter, Lent
  <2>3. Source!Ask(L)
    BY <1>p, <2>1, <2>2 DEF Source!Ask
  <2>4. QED
    BY <2>3 DEF Source!Next
<1>5. CASE CloseStops
  <2>1. LoanState \in {"idle", "lent", "failed"}
    BY <1>l, <1>5 DEF CloseStops, Lent
  <2>2. pc' = "join" /\ ~Lent' /\ walk' = walk
    BY <1>5 DEF CloseStops, Lent
  <2>3. Source!Close
    BY <1>p, <2>1, <2>2 DEF Source!Close
  <2>4. QED
    BY <2>3 DEF Source!Next
<1>6. CASE CloseFrees
  <2>1. LoanState = "closed" /\ LoanState' = "closed" /\ LoanBytes = None /\ LoanBytes' = None
    BY <1>l, <1>p, <1>6 DEF CloseFrees, Lent
  <2>2. QED
    BY <1>6, <2>1 DEF CloseFrees, Source!vars
<1>7. CASE Main
  <2>1. CASE (\E L \in Layers : FetchEnter(L)) \/ CloseStops \/ CloseFrees
    BY <1>4, <1>5, <1>6, <2>1
  <2>2. CASE PinnedReadFails \/ MainReadFails
    BY <1>3, <2>2 DEF PinnedReadFails, MainReadFails
  <2>3. CASE PinnedReturns \/ LookFinds \/ MainReadEnds
    BY <1>2, <2>3 DEF PinnedReturns, LookFinds, MainReadEnds, Lent
  <2>4. CASE PinnedReadBegins \/ PinnedReadEnds \/ PinnedHit \/ StreamEnter \/ LookWaits
             \/ \E s \in Slots : LookClaims(s)
    BY <1>1, <2>4 DEF PinnedReadBegins, PinnedReadEnds, PinnedHit, StreamEnter, LookWaits, LookClaims
  <2>5. CASE PrefetchBegins \/ PrefetchSkips \/ PrefetchReturns
             \/ \E s \in Slots : PrefetchQueues(s)
    BY <1>1, <2>5 DEF PrefetchBegins, PrefetchSkips, PrefetchReturns,
       PrefetchQueues, Lent
  <2>6. QED
    BY <1>7, <2>1, <2>2, <2>3, <2>4, <2>5 DEF Main
<1>8. CASE Reader
  BY <1>1, <1>8 DEF Reader, ReaderSleeps, ReaderExits, ReaderTakes, ReaderPublishes,
     ReaderFails, ReaderDone
<1>9. CASE UNCHANGED vars
  BY <1>1, <1>9 DEF vars
<1>10. QED
  BY <1>7, <1>8, <1>9 DEF Next, Closed

(* The streaming trunk implements the abstract source: whatever the reader  *)
(* thread does meanwhile, a fetch lends its caller the bytes of the layer   *)
(* it asked for, and they stay in place until the next fetch or the close.  *)
THEOREM Refinement == Spec => KeepsLoan
<1>1. Init => Source!Init
  BY SlotArithmetic DEF Init, Source!Init, LoanState, LoanBytes, Lent
<1>2. IInv /\ LoanIsWalk /\ LoanIsWalk' /\ [Next]_vars => [Source!Next]_Source!vars
  BY LoanStep
<1>3. QED
  BY InvHolds, LentIsWalk, <1>1, <1>2, PTL DEF Spec, KeepsLoan, Source!Spec
-----------------------------------------------------------------------------
(* What the counters and the reads owe.  Two measures carry the proof: how  *)
(* many binds are completed or charged at each point of the main thread,    *)
(* and how many reads a layer has had or has under way.                     *)

Base == pass * NBound + walk

(* hits and misses at each point of the main thread.                        *)
Counted ==
    /\ pc = "call" => pass = 0 /\ walk = 0
    /\ pc \in {"call", "enter", "pinread", "failed"} => hits + misses = Base
    /\ pc = "release" \/ Lent => hits + misses = Base + 1
    /\ pc \in {"look", "asleep"} => hits + misses = Base + (IF first THEN 0 ELSE 1)
    /\ pc \in {"asleep", "read"} => ~first
    /\ pc = "read" => hits + misses = Base + 1

Resident(L) == slot_of[L] # None \/ IsPending(L)
Between(L)  == {n \in walk + 1 .. L - 1 : Streaming(n)}
Near(L)     == Cardinality(Between(L)) < NSlots
Asked       == {"call", "enter", "look", "asleep"}
Ahead(L)    == L > walk \/ (L = walk /\ pc \in Asked)
Debt(L)     == reads_of[L] + (IF IsPending(L) THEN 1 ELSE 0)

(* A pinned layer has been read once it has its buffer, and never before.   *)
PinnedOnce ==
    /\ pc = "pinread" => slot_of[walk] = None
    /\ fails = 0 =>
          \A L \in Layers : ~Streaming(L) =>
              reads_of[L] <= IF slot_of[L] = None THEN 0 ELSE 1

(* A streaming layer has had, or has under way, one read per pass begun; a  *)
(* layer still to come in this pass has this pass's read only while it is   *)
(* in the ring and so near that no claim can evict it.                      *)
Owed ==
    fails = 0 =>
        \A L \in Layers : Streaming(L) =>
            /\ Debt(L) <= pass + 1
            /\ Ahead(L) /\ ~(Resident(L) /\ Near(L)) => Debt(L) <= pass

(* The prefetch loop has passed over only what is in the ring or landing.   *)
Scanned ==
    pc = "scan" =>
        /\ scan \in walk + 1 .. NLayers
        /\ \A n \in walk + 1 .. scan - 1 : Streaming(n) => Resident(n)

Paced == Counted /\ PinnedOnce /\ Owed /\ Scanned

(* The streaming layers between the walk and a layer: finitely many, more   *)
(* for a layer further on, one more at most for the next one.               *)
LEMMA BetweenGrows ==
    ASSUME walk \in Nat, NEW m \in Nat, m > walk
    PROVE  /\ IsFiniteSet(Between(m)) /\ Cardinality(Between(m)) \in Nat
           /\ \A n \in walk + 1 .. m :
                 Between(n) \subseteq Between(m) /\ Cardinality(Between(n)) <= Cardinality(Between(m))
<1>1. IsFiniteSet(walk + 1 .. m - 1)
  BY FS_Interval
<1>2. IsFiniteSet(Between(m))
  BY <1>1, FS_Subset DEF Between
<1>3. ASSUME NEW n \in walk + 1 .. m
      PROVE  Between(n) \subseteq Between(m) /\ Cardinality(Between(n)) <= Cardinality(Between(m))
  <2>1. Between(n) \subseteq Between(m)
    BY DEF Between
  <2>2. QED
    BY <1>2, <2>1, FS_Subset
<1>4. QED
  BY <1>2, <1>3, FS_CardinalityType

(* While the prefetch loop can still claim a slot, fewer than NSlots        *)
(* streaming layers lie between the walk and where it looks: each of them   *)
(* would fill a slot that no claim may take.                                *)
LEMMA Crowded ==
    ASSUME IInv, Scanned, pc = "scan", NEW s \in Slots, Claimable(s)
    PROVE  Near(scan)
<1>t. TypeOK /\ MapsAgree /\ OneCopy /\ SlotOwners
  BY DEF IInv
<1>w. walk \in Nat /\ scan \in walk + 1 .. NLayers /\ NLayers \in Nat /\ NSlots \in Nat \ {0}
  BY <1>t, TrunkAssumption, SlotArithmetic DEF TypeOK, Scanned
<1>z. pending[s] = None /\ (layer_of[s] \in Layers => ~(layer_of[s] > walk /\ Near(layer_of[s])))
  BY DEF Claimable, upcoming, Near, Between
<1> DEFINE N == scan - (walk + 1)
           Few == {k \in 0 .. N : Cardinality(Between(walk + 1 + k)) < NSlots}
<1>1. 0 \in Few
  <2>1. Between(walk + 1 + 0) = {}
    BY <1>w DEF Between
  <2>2. Cardinality(Between(walk + 1 + 0)) = 0
    BY <2>1, FS_EmptySet
  <2>3. QED
    BY <1>w, <2>2
<1>2. ASSUME NEW k \in 0 .. N - 1, k \in Few PROVE k + 1 \in Few
  <2> DEFINE m == walk + 1 + k
             B == Between(m + 1)
  <2>1. m \in Nat /\ m > walk /\ m + 1 \in Nat /\ m < scan /\ walk + 1 + (k + 1) = m + 1 /\ k + 1 \in 0 .. N
    BY <1>w
  <2>2. Cardinality(Between(m)) < NSlots
    BY <1>2
  <2> HIDE DEF m
  <2>3. IsFiniteSet(B) /\ Cardinality(B) \in Nat
    BY <1>w, <2>1, BetweenGrows
  <2>4. ASSUME NEW n \in B PROVE \E t \in Slots \ {s} : layer_of[t] = n \/ pending[t] = n
    <3>1. n \in walk + 1 .. m /\ Streaming(n) /\ n \in Layers /\ n > walk /\ n \in walk + 1 .. scan - 1
      BY <1>w, <2>1 DEF Between, Layers
    <3>2. Cardinality(Between(m)) \in Nat /\ Cardinality(Between(n)) <= Cardinality(Between(m))
      BY <1>w, <2>1, <3>1, BetweenGrows
    <3>3. Cardinality(Between(n)) \in Nat
      BY <1>w, <3>1, SlotArithmetic, BetweenGrows
    <3>4. Near(n)
      BY <1>w, <2>2, <3>2, <3>3 DEF Near
    <3>5. layer_of[s] # n /\ pending[s] # n
      BY <1>z, <3>1, <3>4, SlotArithmetic
    <3>6. Resident(n)
      BY <3>1 DEF Scanned
    <3>7. CASE IsPending(n)
      BY <3>5, <3>7 DEF IsPending
    <3>8. CASE slot_of[n] # None
      <4>1. slot_of[n] \in Slots
        BY <1>t, <3>1, <3>8 DEF SlotOwners
      <4>2. layer_of[slot_of[n]] = n
        BY <1>t, <3>1, <4>1 DEF MapsAgree
      <4>3. QED
        BY <3>5, <4>1, <4>2
    <3>9. QED
      BY <3>6, <3>7, <3>8 DEF Resident
  <2>5. IsFiniteSet(Slots \ {s}) /\ Cardinality(Slots \ {s}) = NSlots - 1
    <3>1. IsFiniteSet(Slots) /\ Cardinality(Slots) = NSlots
      BY <1>w, FS_Interval DEF Slots
    <3>2. QED
      BY <3>1, FS_RemoveElement
  <2> DEFINE home == [n \in B |-> CHOOSE t \in Slots \ {s} : layer_of[t] = n \/ pending[t] = n]
  <2>6. \A n \in B : home[n] \in Slots \ {s} /\ (layer_of[home[n]] = n \/ pending[home[n]] = n)
    BY <2>4
  <2>7. home \in [B -> Slots \ {s}]
    BY <2>6
  <2>8. \A x, y \in B : x # y => home[x] # home[y]
    <3> SUFFICES ASSUME NEW x \in B, NEW y \in B, home[x] = home[y] PROVE x = y
      OBVIOUS
    <3> DEFINE t == home[x]
    <3>1. t \in Slots /\ (layer_of[t] = x \/ pending[t] = x) /\ (layer_of[t] = y \/ pending[t] = y)
      BY <2>6
    <3>2. x # None /\ y # None
      BY <1>w, <2>1 DEF Between, None
    <3> HIDE DEF t, home
    <3>3. QED
      BY <1>t, <3>1, <3>2 DEF SlotOwners
  <2> HIDE DEF home, B
  <2>9. ~ (Cardinality(Slots \ {s}) < Cardinality(B))
    BY <2>3, <2>5, <2>7, <2>8, FS_PigeonHole
  <2>10. Cardinality(B) < NSlots
    BY <1>w, <2>3, <2>5, <2>9
  <2>11. QED
    BY <2>1, <2>10 DEF B
<1>3. N \in Nat /\ \A k \in 0 .. N - 1 : k \in Few => k + 1 \in Few
  BY <1>w, <1>2
<1>4. N \in Few
  <2> HIDE DEF Few, N
  <2>1. N \in 0 .. N
    BY <1>3
  <2>2. QED
    BY <1>1, <1>3, <2>1, Climbs
<1>5. walk + 1 + N = scan
  BY <1>w
<1>6. QED
  BY <1>4, <1>5 DEF Near
(* A step that touches no slot map and asks for no layer owes what it owed. *)
LEMMA OwesStill ==
    ASSUME Owed, UNCHANGED <<pinned, slot_of, pending, reads_of, walk, pass, fails>>,
           pc' \in Asked => pc \in Asked
    PROVE  Owed'
<1> SUFFICES ASSUME fails' = 0, NEW L \in Layers, Streaming(L)'
             PROVE  /\ Debt(L)' <= pass' + 1
                    /\ Ahead(L)' /\ ~(Resident(L)' /\ Near(L)') => Debt(L)' <= pass'
  BY DEF Owed
<1>1. Streaming(L) /\ fails = 0
  BY DEF Streaming
<1>2. Debt(L)' = Debt(L) /\ (Resident(L)' <=> Resident(L)) /\ (Ahead(L)' => Ahead(L))
  BY DEF Debt, Resident, IsPending, Ahead
<1>3. Near(L)' <=> Near(L)
  BY DEF Near, Between, Streaming
<1>4. QED
  BY <1>1, <1>2, <1>3 DEF Owed

(* A claim for an absent layer that is near, and its eviction, which only   *)
(* takes a layer the walk has passed or one too far to be protected.        *)
LEMMA ClaimOwes ==
    ASSUME IInv, Owed, NEW s \in Slots, Claimable(s), NEW K \in Layers, Streaming(K),
           Ahead(K), ~Resident(K), Near(K), claim_slot(s, K),
           UNCHANGED <<pinned, reads_of, walk, pass, fails>>,
           pc' \notin Asked
    PROVE  Owed'
<1>t. TypeOK /\ MapsAgree /\ OneCopy /\ SlotOwners
  BY DEF IInv
<1>v. /\ layer_of \in [Slots -> Layers \cup {None}] /\ slot_of \in [Layers -> Layers \cup Slots \cup {None}]
      /\ pending \in [Slots -> Layers \cup {None}] /\ reads_of \in [Layers -> Nat] /\ pass \in Nat
      /\ walk \in Nat /\ walk \in Layers
  BY <1>t, SlotArithmetic DEF TypeOK
<1> SUFFICES ASSUME fails' = 0, NEW L \in Layers, Streaming(L)'
             PROVE  /\ Debt(L)' <= pass' + 1
                    /\ Ahead(L)' /\ ~(Resident(L)' /\ Near(L)') => Debt(L)' <= pass'
  BY DEF Owed
<1>1. Streaming(L) /\ fails = 0 /\ Debt(L) <= pass + 1
      /\ (Ahead(L) /\ ~(Resident(L) /\ Near(L)) => Debt(L) <= pass)
  BY DEF Streaming, Owed
<1>2. Near(L)' <=> Near(L)
  BY DEF Near, Between, Streaming
<1>3. Ahead(L)' => Ahead(L) /\ L > walk
  BY DEF Ahead
<1>4. pending[s] = None /\ ~upcoming(s) /\ ~IsPending(K) /\ slot_of[K] = None
  BY DEF Claimable, Resident
<1>5. \A t \in Slots : pending'[t] = IF t = s THEN K ELSE pending[t]
  BY <1>v DEF claim_slot
<1>6. CASE L = K
  <2>1. IsPending(L)' /\ Debt(L)' = reads_of[K] + 1
    BY <1>5, <1>6 DEF IsPending, Debt
  <2>2. reads_of[K] <= pass /\ reads_of[K] \in Nat
    BY <1>1, <1>4, <1>6, <1>v DEF Debt
  <2>3. Resident(L)' /\ Near(L)'
    BY <1>2, <1>6, <2>1 DEF Resident
  <2>4. QED
    BY <1>v, <2>1, <2>2, <2>3
<1>7. CASE L # K
  <2>1. IsPending(L)' <=> IsPending(L)
    BY <1>4, <1>5, <1>7, SlotArithmetic DEF IsPending
  <2>2. Debt(L)' = Debt(L)
    BY <2>1 DEF Debt
  <2>3. CASE layer_of[s] # L
    <3>1. slot_of'[L] = slot_of[L]
      BY <1>v, <2>3, SlotArithmetic DEF claim_slot
    <3>2. Resident(L)' <=> Resident(L)
      BY <2>1, <3>1 DEF Resident
    <3>3. QED
      BY <1>1, <1>2, <1>3, <2>2, <3>2
  <2>4. CASE layer_of[s] = L
    <3>1. L <= walk \/ ~Near(L)
      BY <1>4, <1>v, <2>4, SlotArithmetic DEF upcoming, Near, Between
    <3>2. CASE ~Near(L)
      BY <1>1, <1>2, <1>3, <2>2, <3>2
    <3>3. CASE L <= walk
      BY <1>1, <1>3, <1>v, <2>2, <3>3, SlotArithmetic
    <3>4. QED
      BY <3>1, <3>2, <3>3, <1>v, SlotArithmetic
  <2>5. QED
    BY <2>3, <2>4
<1>8. QED
  BY <1>6, <1>7

(* The read that lands turns what was under way into a read had.            *)
LEMMA LandOwes ==
    ASSUME IInv, Owed, NEW s \in Slots, NEW K \in Layers, Streaming(K),
           pending[s] = K,
           pending' = [pending EXCEPT ![s] = None],
           slot_of' = [slot_of EXCEPT ![K] = s],
           reads_of' = [reads_of EXCEPT ![K] = @ + 1],
           UNCHANGED <<pinned, walk, pass, fails>>,
           pc' \in Asked => pc \in Asked
    PROVE  Owed'
<1>t. TypeOK /\ OneCopy
  BY DEF IInv
<1>v. /\ slot_of \in [Layers -> Layers \cup Slots \cup {None}]
      /\ pending \in [Slots -> Layers \cup {None}] /\ reads_of \in [Layers -> Nat] /\ pass \in Nat
  BY <1>t DEF TypeOK
<1> SUFFICES ASSUME fails' = 0, NEW L \in Layers, Streaming(L)'
             PROVE  /\ Debt(L)' <= pass' + 1
                    /\ Ahead(L)' /\ ~(Resident(L)' /\ Near(L)') => Debt(L)' <= pass'
  BY DEF Owed
<1>1. Debt(L) <= pass + 1 /\ (Ahead(L) /\ ~(Resident(L) /\ Near(L)) => Debt(L) <= pass)
  BY DEF Streaming, Owed
<1>2. Near(L)' <=> Near(L)
  BY DEF Near, Between, Streaming
<1>3. Ahead(L)' => Ahead(L)
  BY DEF Ahead
<1>4. \A t \in Slots : pending'[t] = IF t = s THEN None ELSE pending[t]
  BY <1>v
<1>5. CASE L = K
  <2>1. IsPending(K) /\ ~IsPending(K)'
    BY <1>t, <1>4, SlotArithmetic DEF IsPending, OneCopy
  <2>2. Debt(L)' = Debt(L)
    BY <1>5, <1>v, <2>1 DEF Debt
  <2>3. Resident(L) /\ Resident(L)'
    BY <1>5, <1>v, <2>1, SlotArithmetic DEF Resident
  <2>4. QED
    BY <1>1, <1>2, <1>3, <2>2, <2>3
<1>6. CASE L # K
  <2>1. (IsPending(L)' <=> IsPending(L)) /\ slot_of'[L] = slot_of[L] /\ reads_of'[L] = reads_of[L]
    BY <1>4, <1>6, <1>v, SlotArithmetic DEF IsPending
  <2>2. Debt(L)' = Debt(L) /\ (Resident(L)' <=> Resident(L))
    BY <2>1 DEF Debt, Resident
  <2>3. QED
    BY <1>1, <1>2, <1>3, <2>2
<1>7. QED
  BY <1>5, <1>6

(* The walk goes on: a layer that is near stays near, and a new pass allows *)
(* each layer one read more.                                                *)
LEMMA AskOwes ==
    ASSUME IInv, Counted, Owed, NEW K \in Layers, FetchEnter(K)
    PROVE  Owed'
<1> USE DEF maps, main, reader, counts
<1>v. walk \in Nat /\ K \in Nat /\ pass \in Nat /\ reads_of \in [Layers -> Nat]
  BY SlotArithmetic DEF IInv, TypeOK
<1> SUFFICES ASSUME fails' = 0, NEW L \in Layers, Streaming(L)'
             PROVE  /\ Debt(L)' <= pass' + 1
                    /\ Ahead(L)' /\ ~(Resident(L)' /\ Near(L)') => Debt(L)' <= pass'
  BY DEF Owed
<1>u. UNCHANGED <<pinned, slot_of, pending, reads_of, fails>> /\ walk' = K /\ NextLayer(K)
  BY DEF FetchEnter
<1>1. Debt(L) <= pass + 1 /\ (Ahead(L) /\ ~(Resident(L) /\ Near(L)) => Debt(L) <= pass)
  BY <1>u DEF Streaming, Owed
<1>2. Debt(L)' = Debt(L) /\ Debt(L) \in Nat /\ (Resident(L)' <=> Resident(L))
  BY <1>u, <1>v DEF Debt, Resident, IsPending
<1>3. CASE pass' = pass /\ K = walk /\ pc = "call"
  <2>1. Ahead(L)' => Ahead(L)
    BY <1>3, <1>u DEF Ahead, Asked
  <2>2. Near(L)' <=> Near(L)
    BY <1>3, <1>u DEF Near, Between, Streaming
  <2>3. QED
    BY <1>1, <1>2, <1>3, <2>1, <2>2
<1>4. CASE pass' = pass /\ K = walk + 1
  <2>1. Ahead(L)' => L > walk /\ Ahead(L)
    BY <1>4, <1>u, <1>v, SlotArithmetic DEF Ahead
  <2>2. ASSUME Near(L), L > walk PROVE Near(L)'
    <3>1. L \in Nat
      BY SlotArithmetic
    <3>2. Between(L)' \subseteq Between(L)
      BY <1>4, <1>u, <1>v, <3>1 DEF Between, Streaming
    <3>3. IsFiniteSet(Between(L)) /\ Cardinality(Between(L)) \in Nat
      BY <1>v, <2>2, <3>1, BetweenGrows
    <3>4. Cardinality(Between(L)') <= Cardinality(Between(L)) /\ IsFiniteSet(Between(L)')
      BY <3>2, <3>3, FS_Subset
    <3>5. Cardinality(Between(L)') \in Nat
      BY <3>4, FS_CardinalityType
    <3> DEFINE a == Cardinality(Between(L)')
               b == Cardinality(Between(L))
    <3>6. b < NSlots /\ NSlots \in Nat /\ a \in Nat /\ b \in Nat /\ a <= b
      BY <2>2, <3>3, <3>4, <3>5 DEF Near
    <3>7. a < NSlots
      <4> HIDE DEF a, b
      <4>1. QED
        BY ONLY <3>6
    <3>8. QED
      BY <3>7 DEF Near
  <2>3. QED
    BY <1>1, <1>2, <1>4, <2>1, <2>2
<1>5. CASE pass' = pass + 1
  BY <1>1, <1>2, <1>5, <1>v
<1>6. QED
  BY <1>3, <1>4, <1>5, <1>u DEF NextLayer, Counted
(* Every step keeps what the streaming layers owe.                          *)
LEMMA OwedStep ==
    ASSUME IInv, Paced, [Next]_vars
    PROVE  Owed'
<1> USE DEF maps, main, reader, counts
<1>t. TypeOK /\ SlotOwners /\ WalkKnows /\ walk \in Layers /\ fails \in Nat /\ walk \in Nat
  BY SlotArithmetic DEF IInv, TypeOK
<1>p. Counted /\ Owed /\ Scanned
  BY DEF Paced
<1>1. CASE /\ UNCHANGED <<pinned, slot_of, pending, reads_of, walk, pass, fails>>
           /\ pc' \in Asked => pc \in Asked
  BY <1>p, <1>1, OwesStill
<1>2. CASE PinnedReadFails \/ MainReadFails \/ ReaderFails
  <2>1. fails' = fails + 1
    BY <1>2 DEF PinnedReadFails, MainReadFails, ReaderFails, ReadShort
  <2>2. fails' # 0
    BY <1>t, <2>1
  <2>3. QED
    BY <2>2 DEF Owed
<1>3. ASSUME NEW K \in Layers, FetchEnter(K) PROVE Owed'
  BY <1>p, <1>3, AskOwes
<1>4. CASE PinnedReadEnds
  <2>1. /\ UNCHANGED <<pinned, pending, walk, pass, fails>> /\ pc' = "release" /\ ~Streaming(walk)
        /\ slot_of' = [slot_of EXCEPT ![walk] = walk]
        /\ reads_of' = [reads_of EXCEPT ![walk] = @ + 1]
    BY <1>t, <1>4 DEF PinnedReadEnds, ReadWhole, WalkKnows
  <2> SUFFICES ASSUME fails' = 0, NEW L \in Layers, Streaming(L)'
               PROVE  /\ Debt(L)' <= pass' + 1
                      /\ Ahead(L)' /\ ~(Resident(L)' /\ Near(L)') => Debt(L)' <= pass'
    BY DEF Owed
  <2>2. Streaming(L) /\ fails = 0 /\ L # walk
    BY <2>1 DEF Streaming
  <2>3. slot_of'[L] = slot_of[L] /\ reads_of'[L] = reads_of[L]
    BY <1>t, <2>1, <2>2 DEF TypeOK
  <2>4. Debt(L)' = Debt(L) /\ (Resident(L)' <=> Resident(L)) /\ (Ahead(L)' => Ahead(L))
    BY <2>1, <2>3 DEF Debt, Resident, IsPending, Ahead, Asked
  <2>5. Near(L)' <=> Near(L)
    BY <2>1 DEF Near, Between, Streaming
  <2>6. QED
    BY <1>p, <2>1, <2>2, <2>4, <2>5 DEF Owed
<1>5. ASSUME NEW s \in Slots, LookClaims(s) PROVE Owed'
  <2>1. /\ Streaming(walk) /\ ~Resident(walk) /\ pc = "look" /\ claim_slot(s, walk) /\ IsClaimed(s)
        /\ UNCHANGED <<pinned, reads_of, walk, pass, fails>> /\ pc' = "read"
    BY <1>t, <1>5 DEF LookClaims, WalkKnows, Resident
  <2>2. Claimable(s)
    BY <2>1 DEF IsClaimed
  <2>3. Ahead(walk)
    BY <2>1 DEF Ahead, Asked
  <2>4. Near(walk)
    <3>1. Between(walk) = {}
      BY <1>t DEF Between
    <3>2. QED
      BY <3>1, FS_EmptySet, TrunkAssumption DEF Near
  <2>5. QED
    BY <1>t, <1>p, <2>1, <2>2, <2>3, <2>4, ClaimOwes DEF Asked
<1>6. ASSUME NEW s \in Slots, PrefetchQueues(s) PROVE Owed'
  <2>1. /\ pc = "scan" /\ Streaming(scan) /\ ~Resident(scan) /\ claim_slot(s, scan) /\ IsClaimed(s)
        /\ UNCHANGED <<pinned, reads_of, walk, pass, fails>> /\ pc' = "scan" /\ scan < NLayers
    BY <1>6 DEF PrefetchQueues, ScanContinues, ScanSkips, Resident
  <2>2. Claimable(s)
    BY <2>1 DEF IsClaimed
  <2>3. scan \in Layers /\ scan > walk
    BY <1>t, <1>p, <2>1, TrunkAssumption DEF Scanned, Layers
  <2>4. Near(scan)
    BY <1>p, <2>1, <2>2, Crowded
  <2>5. QED
    BY <1>p, <2>1, <2>2, <2>3, <2>4, ClaimOwes DEF Asked, Ahead
<1>7. CASE MainReadEnds
  <2>1. /\ mslot \in Slots /\ pending[mslot] = walk /\ Streaming(walk)
        /\ pending' = [pending EXCEPT ![mslot] = None]
        /\ slot_of' = [slot_of EXCEPT ![walk] = mslot]
        /\ reads_of' = [reads_of EXCEPT ![walk] = @ + 1]
        /\ UNCHANGED <<pinned, walk, pass, fails>> /\ pc' = "bound"
    BY <1>t, <1>7 DEF MainReadEnds, ReadWhole, SlotOwners, WalkKnows
  <2>2. QED
    BY <1>t, <1>p, <2>1, LandOwes DEF Asked
<1>8. CASE ReaderPublishes
  <2>1. /\ job.slot \in Slots /\ job.layer \in Layers /\ pending[job.slot] = job.layer
        /\ pending' = [pending EXCEPT ![job.slot] = None]
        /\ slot_of' = [slot_of EXCEPT ![job.layer] = job.slot]
        /\ reads_of' = [reads_of EXCEPT ![job.layer] = @ + 1]
        /\ UNCHANGED <<pinned, walk, pass, fails>>
        /\ pc' \in Asked => pc \in Asked
    BY <1>t, <1>8 DEF ReaderPublishes, ReaderDone, ReadWhole, SlotOwners, Asked
  <2>2. Streaming(job.layer)
    BY <1>t, <2>1, SlotArithmetic DEF SlotOwners
  <2>3. QED
    BY <1>p, <2>1, <2>2, LandOwes
<1>9. CASE Main
  <2>1. CASE (\E L \in Layers : FetchEnter(L)) \/ \E s \in Slots : LookClaims(s) \/ PrefetchQueues(s)
    BY <1>3, <1>5, <1>6, <2>1
  <2>2. CASE PinnedReadFails \/ MainReadFails \/ PinnedReadEnds \/ MainReadEnds
    BY <1>2, <1>4, <1>7, <2>2
  <2>3. CASE PinnedReadBegins \/ PinnedHit \/ PinnedReturns \/ StreamEnter \/ LookFinds \/ LookWaits
    BY <1>1, <2>3 DEF PinnedReadBegins, PinnedHit, PinnedReturns, StreamEnter, LookFinds, LookWaits, Asked
  <2>4. CASE PrefetchBegins \/ PrefetchSkips \/ PrefetchReturns \/ CloseStops \/ CloseFrees
    BY <1>1, <2>4 DEF PrefetchBegins, PrefetchSkips, PrefetchReturns, CloseStops, CloseFrees, Asked
  <2>5. QED
    BY <1>9, <2>1, <2>2, <2>3, <2>4 DEF Main
<1>10. CASE Reader
  BY <1>1, <1>2, <1>8, <1>10 DEF Reader, ReaderSleeps, ReaderExits, ReaderTakes
<1>11. CASE UNCHANGED vars
  BY <1>1, <1>11 DEF vars
<1>12. QED
  BY <1>9, <1>10, <1>11 DEF Next, Closed

(* Every step keeps what the prefetch loop has passed over in the ring.     *)
LEMMA ScannedStep ==
    ASSUME IInv, Paced, [Next]_vars
    PROVE  Scanned'
<1> USE DEF maps, main, reader, counts
<1>t. TypeOK /\ MapsAgree /\ walk \in Layers /\ walk \in Nat /\ scan \in Nat
  BY SlotArithmetic DEF IInv, TypeOK
<1>p. Scanned
  BY DEF Paced
<1>n. NLayers \in Nat /\ walk < NLayers
  BY <1>t, TrunkAssumption DEF Layers
<1>1. CASE PrefetchBegins
  BY <1>1, <1>t, <1>n DEF PrefetchBegins, Scanned
<1>2. CASE PrefetchSkips
  <2>1. /\ pc = "scan" /\ scan < NLayers /\ scan' = scan + 1 /\ (Streaming(scan) => Resident(scan))
        /\ UNCHANGED <<walk, pc, pinned, slot_of, pending>>
    BY <1>2 DEF PrefetchSkips, ScanContinues, ScanSkips, Resident
  <2>2. \A n \in walk + 1 .. scan : Streaming(n) => Resident(n)
    BY <1>p, <1>t, <2>1 DEF Scanned
  <2>3. \A n : (Resident(n)' <=> Resident(n)) /\ (Streaming(n)' <=> Streaming(n))
    BY <2>1 DEF Resident, IsPending, Streaming
  <2>4. scan' \in walk' + 1 .. NLayers /\ walk' + 1 .. scan' - 1 = walk + 1 .. scan
    BY <1>p, <1>t, <1>n, <2>1 DEF Scanned
  <2>5. QED
    BY <2>2, <2>3, <2>4 DEF Scanned
<1>3. ASSUME NEW s \in Slots, PrefetchQueues(s) PROVE Scanned'
  <2>1. /\ pc = "scan" /\ claim_slot(s, scan) /\ IsClaimed(s) /\ scan' = scan + 1 /\ scan < NLayers
        /\ UNCHANGED <<walk, pc, pinned>>
    BY <1>3 DEF PrefetchQueues, ScanContinues
  <2>2. Claimable(s) /\ pending[s] = None /\ ~upcoming(s)
    BY <2>1 DEF IsClaimed, Claimable
  <2>3. Near(scan)
    BY <1>p, <2>1, <2>2, Crowded
  <2>4. /\ layer_of \in [Slots -> Layers \cup {None}] /\ slot_of \in [Layers -> Layers \cup Slots \cup {None}]
        /\ pending \in [Slots -> Layers \cup {None}]
    BY <1>t DEF TypeOK
  <2>5. \A t \in Slots : pending'[t] = IF t = s THEN scan ELSE pending[t]
    BY <2>1, <2>4 DEF claim_slot
  <2>6. ASSUME NEW n \in walk + 1 .. scan, Streaming(n) PROVE Resident(n)'
    <3>1. CASE n = scan
      BY <2>5, <3>1 DEF Resident, IsPending
    <3>2. CASE n # scan
      <4>1. n \in walk + 1 .. scan - 1 /\ n \in Layers /\ n \in Nat /\ n > walk
        BY <1>t, <1>n, <2>1, <3>2 DEF Layers
      <4>2. Near(n)
        <5>1. /\ Cardinality(Between(n)) <= Cardinality(Between(scan))
              /\ Cardinality(Between(scan)) \in Nat /\ Cardinality(Between(n)) \in Nat
          BY <1>p, <1>t, <2>1, <4>1, BetweenGrows DEF Scanned
        <5> DEFINE a == Cardinality(Between(n))
                   b == Cardinality(Between(scan))
        <5>2. a <= b /\ b < NSlots /\ a \in Nat /\ b \in Nat /\ NSlots \in Nat
          BY <2>3, <5>1, TrunkAssumption DEF Near
        <5>3. a < NSlots
          <6> HIDE DEF a, b
          <6>1. QED
            BY ONLY <5>2
        <5>4. QED
          BY <5>3 DEF Near
      <4>3. layer_of[s] # n
        BY <2>2, <4>1, <4>2 DEF upcoming, Near, Between
      <4>4. Resident(n)
        BY <1>p, <2>1, <2>6, <4>1 DEF Scanned
      <4>5. slot_of'[n] = slot_of[n]
        BY <2>1, <2>4, <4>1, <4>3, SlotArithmetic DEF claim_slot
      <4>6. IsPending(n) => IsPending(n)'
        BY <2>2, <2>5, <4>1, SlotArithmetic DEF IsPending
      <4>7. QED
        BY <4>4, <4>5, <4>6 DEF Resident
    <3>3. QED
      BY <3>1, <3>2
  <2>7. scan' \in walk' + 1 .. NLayers /\ walk' + 1 .. scan' - 1 = walk + 1 .. scan
    BY <1>p, <1>t, <1>n, <2>1 DEF Scanned
  <2>8. \A n : Streaming(n)' <=> Streaming(n)
    BY <2>1 DEF Streaming
  <2>9. QED
    BY <2>6, <2>7, <2>8 DEF Scanned
<1>4. CASE pc' # "scan" \/ UNCHANGED <<pc, scan, walk, pinned, slot_of, pending>>
  BY <1>p, <1>4 DEF Scanned, Resident, IsPending, Streaming
<1>5. CASE Main
  <2>1. CASE PrefetchBegins \/ PrefetchSkips \/ \E s \in Slots : PrefetchQueues(s)
    BY <1>1, <1>2, <1>3, <2>1
  <2>2. CASE (\E L \in Layers : FetchEnter(L)) \/ PinnedReadBegins \/ PinnedReadEnds \/ PinnedReadFails
             \/ PinnedHit \/ PinnedReturns \/ StreamEnter \/ LookFinds
    BY <1>4, <2>2 DEF FetchEnter, PinnedReadBegins, PinnedReadEnds, PinnedReadFails, PinnedHit,
       PinnedReturns, StreamEnter, LookFinds
  <2>3. CASE LookWaits \/ (\E s \in Slots : LookClaims(s)) \/ MainReadEnds \/ MainReadFails
             \/ PrefetchReturns \/ CloseStops \/ CloseFrees
    BY <1>4, <2>3 DEF LookWaits, LookClaims, MainReadEnds, MainReadFails, PrefetchReturns,
       CloseStops, CloseFrees
  <2>4. QED
    BY <1>5, <2>1, <2>2, <2>3 DEF Main
<1>6. CASE Reader
  <2>1. pc # "scan" /\ (pc' = pc \/ pc' = "look")
    BY <1>6 DEF Reader, ReaderSleeps, ReaderExits, ReaderTakes, ReaderPublishes, ReaderFails,
       ReaderDone, MutexFree
  <2>2. QED
    BY <1>4, <2>1
<1>7. CASE UNCHANGED vars
  BY <1>4, <1>7 DEF vars
<1>8. QED
  BY <1>5, <1>6, <1>7 DEF Next, Closed
(* Every step keeps the pinned layers read at most once each.               *)
LEMMA PinnedStep ==
    ASSUME IInv, Paced, [Next]_vars
    PROVE  PinnedOnce'
<1> USE DEF maps, main, reader, counts
<1>t. TypeOK /\ MapsAgree /\ SlotOwners /\ WalkKnows /\ walk \in Layers /\ fails \in Nat
  BY DEF IInv, TypeOK
<1>v. /\ layer_of \in [Slots -> Layers \cup {None}] /\ slot_of \in [Layers -> Layers \cup Slots \cup {None}]
      /\ reads_of \in [Layers -> Nat]
  BY <1>t DEF TypeOK
<1>p. PinnedOnce
  BY DEF Paced
<1>1. CASE /\ pc' # "pinread" \/ UNCHANGED <<pc, walk>>
           /\ UNCHANGED <<pinned, fails>>
           /\ \A L \in Layers : ~Streaming(L) => UNCHANGED <<slot_of[L], reads_of[L]>>
  BY <1>p, <1>t, <1>1 DEF PinnedOnce, Streaming, WalkKnows
<1>2. CASE PinnedReadFails \/ MainReadFails \/ ReaderFails
  <2>1. fails' = fails + 1
    BY <1>2 DEF PinnedReadFails, MainReadFails, ReaderFails, ReadShort
  <2>2. fails' # 0
    BY <1>t, <2>1
  <2>3. pc' = "pinread" => pc = "pinread" /\ UNCHANGED <<walk, slot_of>>
    BY <1>2 DEF PinnedReadFails, MainReadFails, ReaderFails, ReaderDone
  <2>4. QED
    BY <1>p, <2>2, <2>3 DEF PinnedOnce
<1>3. CASE PinnedReadBegins
  BY <1>p, <1>3 DEF PinnedReadBegins, PinnedOnce, Streaming
<1>4. CASE PinnedReadEnds
  <2>1. /\ UNCHANGED <<pinned, fails>> /\ pc = "pinread" /\ pc' = "release" /\ slot_of[walk] = None
        /\ slot_of' = [slot_of EXCEPT ![walk] = walk]
        /\ reads_of' = [reads_of EXCEPT ![walk] = @ + 1]
    BY <1>p, <1>4 DEF PinnedReadEnds, ReadWhole, PinnedOnce
  <2> SUFFICES ASSUME fails' = 0, NEW L \in Layers, ~Streaming(L)'
               PROVE  reads_of'[L] <= IF slot_of'[L] = None THEN 0 ELSE 1
    BY <2>1 DEF PinnedOnce
  <2>2. reads_of[L] <= IF slot_of[L] = None THEN 0 ELSE 1
    BY <1>p, <2>1 DEF PinnedOnce, Streaming
  <2>3. CASE L = walk
    BY <1>v, <2>1, <2>2, <2>3, SlotArithmetic
  <2>4. CASE L # walk
    BY <1>v, <2>1, <2>2, <2>4
  <2>5. QED
    BY <2>3, <2>4
<1>5. ASSUME NEW s \in Slots, LookClaims(s) \/ PrefetchQueues(s) PROVE PinnedOnce'
  <2>1. UNCHANGED <<pinned, fails, reads_of>> /\ pc' # "pinread" /\ \E K : claim_slot(s, K)
    BY <1>5 DEF LookClaims, PrefetchQueues
  <2>2. \A L \in Layers : ~Streaming(L) => slot_of'[L] = slot_of[L]
    BY <1>t, <1>v, <2>1, SlotArithmetic DEF claim_slot, MapsAgree
  <2>3. QED
    BY <1>1, <2>1, <2>2
<1>6. CASE MainReadEnds
  <2>1. /\ UNCHANGED <<pinned, fails>> /\ pc' = "bound" /\ Streaming(walk)
        /\ slot_of' = [slot_of EXCEPT ![walk] = mslot]
        /\ reads_of' = [reads_of EXCEPT ![walk] = @ + 1]
    BY <1>t, <1>6 DEF MainReadEnds, ReadWhole, WalkKnows
  <2>2. QED
    BY <1>1, <1>v, <2>1
<1>7. CASE ReaderPublishes
  <2>1. job.slot \in Slots /\ job.layer \in Layers /\ pending[job.slot] = job.layer
    BY <1>t, <1>7 DEF ReaderPublishes, ReaderDone, SlotOwners
  <2>2. Streaming(job.layer)
    BY <1>t, <2>1, SlotArithmetic DEF SlotOwners
  <2>3. /\ UNCHANGED <<pinned, fails, walk>> /\ (pc' # "pinread" \/ pc' = pc)
        /\ slot_of' = [slot_of EXCEPT ![job.layer] = job.slot]
        /\ reads_of' = [reads_of EXCEPT ![job.layer] = @ + 1]
    BY <1>7 DEF ReaderPublishes, ReaderDone, ReadWhole
  <2>4. QED
    BY <1>1, <1>v, <2>2, <2>3
<1>8. CASE UNCHANGED <<pinned, fails, slot_of, reads_of>> /\ (pc' # "pinread" \/ UNCHANGED <<pc, walk>>)
  BY <1>1, <1>8
<1>9. CASE Main
  <2>1. CASE (\E s \in Slots : LookClaims(s) \/ PrefetchQueues(s)) \/ PinnedReadBegins \/ PinnedReadEnds
             \/ PinnedReadFails \/ MainReadEnds \/ MainReadFails
    BY <1>2, <1>3, <1>4, <1>5, <1>6, <2>1
  <2>2. CASE (\E L \in Layers : FetchEnter(L)) \/ PinnedHit \/ PinnedReturns \/ StreamEnter
             \/ LookFinds \/ LookWaits
    BY <1>8, <2>2 DEF FetchEnter, PinnedHit, PinnedReturns, StreamEnter, LookFinds, LookWaits
  <2>3. CASE PrefetchBegins \/ PrefetchSkips \/ PrefetchReturns \/ CloseStops \/ CloseFrees
    BY <1>8, <2>3 DEF PrefetchBegins, PrefetchSkips, PrefetchReturns, CloseStops, CloseFrees
  <2>4. QED
    BY <1>9, <2>1, <2>2, <2>3 DEF Main
<1>10. CASE Reader
  BY <1>2, <1>7, <1>8, <1>10 DEF Reader, ReaderSleeps, ReaderExits, ReaderTakes
<1>11. CASE UNCHANGED vars
  BY <1>8, <1>11 DEF vars
<1>12. QED
  BY <1>9, <1>10, <1>11 DEF Next, Closed

(* The binds before a layer of a pass are whole numbers, and the next fetch *)
(* begins one bind further on.                                              *)
LEMMA BaseMoves ==
    ASSUME TypeOK
    PROVE  /\ Base \in Int
           /\ UNCHANGED <<pass, walk>> => Base' = Base
           /\ pass' = pass /\ walk' = walk + 1 => Base' = Base + 1
           /\ pass' = pass + 1 /\ walk' = 0 /\ walk + 1 = NBound => Base' = Base + 1
<1>1. pass \in Int /\ walk \in Int /\ NBound \in Int
  BY TrunkAssumption, SlotArithmetic DEF TypeOK
<1>2. pass * NBound \in Int /\ (pass + 1) * NBound = pass * NBound + NBound
  BY <1>1
<1>3. ASSUME pass' = pass PROVE pass' * NBound = pass * NBound
  BY <1>3
<1>4. ASSUME pass' = pass + 1 PROVE pass' * NBound = pass * NBound + NBound
  BY <1>2, <1>4
<1> DEFINE m == pass * NBound
           n == pass' * NBound
<1>5. Base = m + walk /\ Base' = n + walk' /\ m \in Int
  BY <1>2 DEF Base
<1> HIDE DEF m, n
<1>6. (pass' = pass => n = m) /\ (pass' = pass + 1 => n = m + NBound)
  BY <1>3, <1>4 DEF m, n
<1>7. QED
  BY <1>1, <1>5, <1>6

(* Every step keeps the counters.                                           *)
LEMMA CountStep ==
    ASSUME IInv, Paced, [Next]_vars
    PROVE  Counted'
<1> USE DEF maps, main, reader, counts
<1>t. TypeOK /\ hits \in Int /\ misses \in Int /\ Base \in Int
  BY BaseMoves DEF IInv, TypeOK
<1>p. Counted
  BY DEF Paced
<1>b. UNCHANGED <<pass, walk>> => Base' = Base
  BY <1>t, BaseMoves
<1>1. CASE UNCHANGED <<pc, first, hits, misses, pass, walk>>
  BY <1>p, <1>b, <1>1 DEF Counted, Lent
<1>2. CASE UNCHANGED <<hits, misses, pass, walk>> /\ pc' \in {"join", "closed"}
  BY <1>2 DEF Counted, Lent
<1>3. ASSUME NEW K \in Layers, FetchEnter(K) PROVE Counted'
  <2>1. CASE pc = "call"
    <3>1. UNCHANGED <<pass, walk, hits, misses>> /\ pc' = "enter"
      BY <1>p, <1>3, <2>1 DEF FetchEnter, NextLayer, Counted
    <3>2. QED
      BY <1>p, <1>b, <2>1, <3>1 DEF Counted, Lent
  <2>2. CASE pc = "compute"
    <3>1. UNCHANGED <<hits, misses>> /\ pc' = "enter" /\ Base' = Base + 1
      BY <1>t, <1>3, <2>2, BaseMoves DEF FetchEnter, NextLayer
    <3>2. hits + misses = Base + 1
      BY <1>p, <2>2 DEF Counted, Lent
    <3>3. QED
      BY <3>1, <3>2 DEF Counted, Lent
  <2>3. QED
    BY <1>3, <2>1, <2>2 DEF FetchEnter, NextLayer
<1>4. CASE PinnedReadBegins \/ PinnedReadFails
  <2>1. /\ UNCHANGED <<pass, walk, hits, misses>> /\ pc \in {"enter", "pinread"}
        /\ pc' \in {"pinread", "failed"}
    BY <1>4 DEF PinnedReadBegins, PinnedReadFails
  <2>2. QED
    BY <1>p, <1>b, <2>1 DEF Counted, Lent
<1>5. CASE PinnedReadEnds \/ PinnedHit
  <2>1. /\ UNCHANGED <<pass, walk>> /\ pc \in {"enter", "pinread"} /\ pc' = "release"
        /\ \/ misses' = misses + 1 /\ hits' = hits
           \/ hits' = hits + 1 /\ misses' = misses
    BY <1>5 DEF PinnedReadEnds, PinnedHit
  <2>2. hits + misses = Base
    BY <1>p, <2>1 DEF Counted
  <2>3. hits' + misses' = Base' + 1
    BY <1>b, <1>t, <2>1, <2>2
  <2>4. QED
    BY <2>1, <2>3 DEF Counted, Lent
<1>6. CASE PinnedReturns \/ PrefetchBegins \/ PrefetchReturns \/ PrefetchSkips
           \/ \E s \in Slots : PrefetchQueues(s)
  <2>1. /\ UNCHANGED <<pass, walk, hits, misses>> /\ (pc = "release" \/ Lent) /\ Lent'
    BY <1>6 DEF PinnedReturns, PrefetchBegins, PrefetchReturns, PrefetchSkips, PrefetchQueues, Lent
  <2>2. QED
    BY <1>p, <1>b, <2>1 DEF Counted, Lent
<1>7. CASE StreamEnter
  <2>1. UNCHANGED <<pass, walk, hits, misses>> /\ pc = "enter" /\ pc' = "look" /\ first'
    BY <1>7 DEF StreamEnter
  <2>2. QED
    BY <1>p, <1>b, <1>t, <2>1 DEF Counted, Lent
<1>8. CASE LookFinds
  <2>1. /\ UNCHANGED <<pass, walk>> /\ pc = "look" /\ pc' = "bound"
        /\ hits' = IF first /\ ~fresh[slot_of[walk]] THEN hits + 1 ELSE hits
        /\ misses' = IF first /\ fresh[slot_of[walk]] THEN misses + 1 ELSE misses
    BY <1>8 DEF LookFinds
  <2>2. hits + misses = Base + (IF first THEN 0 ELSE 1)
    BY <1>p, <2>1 DEF Counted
  <2>3. hits' + misses' = Base' + 1
    <3>1. CASE ~first
      BY <1>b, <1>t, <2>1, <2>2, <3>1
    <3>2. CASE first /\ fresh[slot_of[walk]]
      BY <1>b, <1>t, <2>1, <2>2, <3>2
    <3>3. CASE first /\ ~fresh[slot_of[walk]]
      BY <1>b, <1>t, <2>1, <2>2, <3>3
    <3>4. QED
      BY <3>1, <3>2, <3>3
  <2>4. QED
    BY <2>1, <2>3 DEF Counted, Lent
<1>9. CASE LookWaits \/ \E s \in Slots : LookClaims(s)
  <2>1. /\ UNCHANGED <<pass, walk, hits>> /\ pc = "look" /\ pc' \in {"asleep", "read"}
        /\ misses' = (IF first THEN misses + 1 ELSE misses) /\ ~first'
    BY <1>9 DEF LookWaits, LookClaims, ChargeMiss
  <2>2. hits + misses = Base + (IF first THEN 0 ELSE 1)
    BY <1>p, <2>1 DEF Counted
  <2>3. hits' + misses' = Base' + 1
    BY <1>b, <1>t, <2>1, <2>2
  <2>4. QED
    BY <1>b, <1>t, <2>1, <2>3 DEF Counted, Lent
<1>10. CASE MainReadEnds
  <2>1. UNCHANGED <<pass, walk, hits, misses>> /\ pc = "read" /\ pc' = "bound"
    BY <1>10 DEF MainReadEnds
  <2>2. QED
    BY <1>p, <1>b, <2>1 DEF Counted, Lent
<1>11. CASE MainReadFails
  <2>1. UNCHANGED <<pass, walk, hits>> /\ misses' = misses - 1 /\ pc = "read" /\ pc' = "failed"
    BY <1>11 DEF MainReadFails
  <2>2. hits + misses = Base + 1
    BY <1>p, <2>1 DEF Counted
  <2>3. hits' + misses' = Base'
    BY <1>b, <1>t, <2>1, <2>2
  <2>4. QED
    BY <2>1, <2>3 DEF Counted, Lent
<1>12. CASE ReaderPublishes \/ ReaderFails
  <2>1. /\ UNCHANGED <<pass, walk, hits, misses, first>>
        /\ pc' = pc \/ (pc = "asleep" /\ pc' = "look")
    BY <1>12 DEF ReaderPublishes, ReaderFails, ReaderDone
  <2>2. CASE pc' = pc
    BY <1>1, <2>1, <2>2
  <2>3. CASE pc = "asleep" /\ pc' = "look"
    BY <1>p, <1>b, <2>1, <2>3 DEF Counted, Lent
  <2>4. QED
    BY <2>1, <2>2, <2>3
<1>13. CASE Main
  <2>1. CASE (\E L \in Layers : FetchEnter(L)) \/ PinnedReadBegins \/ PinnedReadFails
             \/ PinnedReadEnds \/ PinnedHit
    BY <1>3, <1>4, <1>5, <2>1
  <2>2. CASE PinnedReturns \/ PrefetchBegins \/ PrefetchReturns \/ PrefetchSkips
             \/ (\E s \in Slots : PrefetchQueues(s)) \/ StreamEnter \/ LookFinds
    BY <1>6, <1>7, <1>8, <2>2
  <2>3. CASE LookWaits \/ (\E s \in Slots : LookClaims(s)) \/ MainReadEnds \/ MainReadFails
    BY <1>9, <1>10, <1>11, <2>3
  <2>4. CASE CloseStops \/ CloseFrees
    BY <1>2, <2>4 DEF CloseStops, CloseFrees
  <2>5. QED
    BY <1>13, <2>1, <2>2, <2>3, <2>4 DEF Main
<1>14. CASE Reader
  BY <1>1, <1>12, <1>14 DEF Reader, ReaderSleeps, ReaderExits, ReaderTakes
<1>15. CASE UNCHANGED vars
  BY <1>1, <1>15 DEF vars
<1>16. QED
  BY <1>13, <1>14, <1>15 DEF Next, Closed

(* At the open nothing has been read and nothing is owed.                   *)
LEMMA InitPaced == Init => Paced
<1> SUFFICES ASSUME Init PROVE Paced
  OBVIOUS
<1>1. pass = 0 /\ walk = 0 /\ hits = 0 /\ misses = 0 /\ pc = "call"
  BY DEF Init
<1>2. Base = 0
  <2>1. 0 * NBound = 0
    BY TrunkAssumption
  <2>2. QED
    BY <1>1, <2>1 DEF Base
<1>3. Counted
  BY <1>1, <1>2 DEF Counted, Lent
<1>4. \A L \in Layers : reads_of[L] = 0 /\ ~IsPending(L)
  BY SlotArithmetic DEF Init, IsPending
<1>5. PinnedOnce
  BY <1>1, <1>4 DEF PinnedOnce
<1>6. Owed
  BY <1>1, <1>4 DEF Owed, Debt
<1>7. Scanned
  BY <1>1 DEF Scanned
<1>8. QED
  BY <1>3, <1>5, <1>6, <1>7 DEF Paced

(* What k3_trunk_report prints adds up, for every trunk, ring and pinned    *)
(* set: hits and misses are the completed binds; and while no read comes    *)
(* back short a pinned layer is read once and a streaming layer once per    *)
(* pass, so that upcoming() protects a prefetched layer until its bind      *)
(* though pinned layers lie between (k3_trunk.c:667-697).                   *)
THEOREM ReadsHold == Spec => []ReadsOwed
<1>1. Init => IInv /\ Paced
  BY InitInv, InitPaced
<1>2. IInv /\ Paced /\ [Next]_vars => IInv' /\ Paced'
  <2>1. IInv /\ [Next]_vars => IInv'
    BY TypeStep, MapStep, WholeStep, OwnersStep, KnowsStep DEF IInv
  <2>2. IInv /\ Paced /\ [Next]_vars => Paced'
    BY CountStep, PinnedStep, OwedStep, ScannedStep DEF Paced
  <2>3. QED
    BY <2>1, <2>2
<1>3. IInv /\ Paced => ReadsOwed
  <2> SUFFICES ASSUME IInv, Paced PROVE ReadsOwed
    OBVIOUS
  <2>1. reads_of \in [Layers -> Nat] /\ pass \in Nat /\ pinned \subseteq Layers
        /\ slot_of \in [Layers -> Layers \cup Slots \cup {None}]
    BY DEF IInv, TypeOK
  <2>2. pc = "failed" \/ Lent => hits + misses = BindsCompleted
    BY BaseMoves DEF Paced, Counted, IInv, Base, BindsCompleted, Lent
  <2>3. ASSUME fails = 0, NEW L \in Layers
        PROVE  reads_of[L] <= IF L \in pinned THEN 1 ELSE pass + 1
    <3>1. CASE L \in pinned
      BY <2>1, <2>3, <3>1 DEF Paced, PinnedOnce, Streaming
    <3>2. CASE L \notin pinned
      <4>1. Debt(L) <= pass + 1
        BY <2>3, <3>2 DEF Paced, Owed, Streaming
      <4>2. QED
        BY <2>1, <3>2, <4>1 DEF Debt
    <3>3. QED
      BY <3>1, <3>2
  <2>4. QED
    BY <2>2, <2>3 DEF ReadsOwed
<1>4. QED
  BY <1>1, <1>2, <1>3, PTL DEF Spec
=============================================================================
