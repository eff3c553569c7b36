--------------------------- MODULE StateFileProofs ---------------------------
(***************************************************************************)
(* Proofs about StateFile for any number of saving processes, saves and    *)
(* damaged bytes: the inductive invariant, the file being whole and a load *)
(* exact at every instant, and that the state file is a StateStore.        *)
(***************************************************************************)
EXTENDS StateFile, TLAPS

USE DEF Parts

(* What a payload written part by part is, from the first write to the last.*)
LEMMA WrittenFacts ==
    ASSUME NEW i \in Images, NEW n \in 0 .. Parts
    PROVE  /\ Written(i, n) \in [1 .. n -> Images \cup {Rotten}]
           /\ Written(i, n) \in Bodies
           /\ Written(i, n) \in Seq(Images)
           /\ Len(Written(i, n)) = n
           /\ Written(i, 0) = <<>>
           /\ n < Parts => Append(Written(i, n), i) = Written(i, n + 1)
<1>1. Written(i, n) \in [1 .. n -> Images \cup {Rotten}]
  BY DEF Written
<1>2. Written(i, n) \in Bodies
  BY <1>1 DEF Bodies
<1>3. Written(i, n) \in Seq(Images) /\ Len(Written(i, n)) = n
  <2>1. Written(i, n) \in [1 .. n -> Images]
    BY DEF Written
  <2>2. n \in Nat
    OBVIOUS
  <2> QED BY <2>1, <2>2, SMT DEF Written
<1>4. Written(i, 0) = <<>>
  BY DEF Written
<1>5. n < Parts => Append(Written(i, n), i) = Written(i, n + 1)
  BY <1>3 DEF Written
<1> QED BY <1>1, <1>2, <1>3, <1>4, <1>5

(* Two images that agree on a payload are one. *)
LEMMA PayloadInjective ==
    ASSUME NEW i, NEW j, Payload(i) = Payload(j)
    PROVE  i = j
<1>1. Payload(i)[1] = i /\ Payload(j)[1] = j
  BY DEF Payload, Written
<1> QED BY <1>1

(* Nothing that is a record of StateFile is None. *)
LEMMA NotNone ==
    ASSUME NEW f \in Files
    PROVE  f # None /\ f.hd \in Headers /\ f.hd # None /\ f.body # None
<1>1. f.hd \in Headers /\ f.body \in Bodies
  BY DEF Files
<1> QED BY <1>1, StateFileAssumption

(* The header a save writes is one of its image. *)
LEMMA HeaderFacts ==
    ASSUME NEW i \in Images, NEW sum \in Bodies
    PROVE  /\ Header(i, sum) \in Headers
           /\ Header(i, sum).image = i /\ Header(i, sum).sum = sum
           /\ Header(i, sum).shape = Shape(i) /\ Shape(i) \in Shapes
           /\ Header(i, sum) = Header(i, Header(i, sum).sum)
<1>1. Shape(i) \in Shapes
  BY StateFileAssumption DEF Shape, Images
<1> QED BY <1>1 DEF Header, Headers

(* An image is not a damaged part. *)
LEMMA ImageSound ==
    ASSUME NEW i \in Images
    PROVE  i # Rotten /\ Payload(i) \in Bodies /\ Payload(i)[1] = i
<1>1. i # Rotten
  BY StateFileAssumption
<1>2. Payload(i) \in Bodies
  BY WrittenFacts DEF Payload
<1> QED BY <1>1, <1>2 DEF Payload, Written

(* Nothing is staged, published or peeked at first. *)
LEMMA InitInv == Init => IInv
<1> SUFFICES ASSUME Init PROVE IInv
  OBVIOUS
<1>1. 0 \in Nat /\ MaxSaves \in Nat /\ MaxFlips \in Nat
  BY StateFileAssumption
<1>2. TypeOK
  <2>1. /\ path \in Files \cup {None} /\ committed \in Files \cup {None}
        /\ hd \in Headers \cup {None} /\ want \in Shapes
        /\ restored \in Bodies \cup {None}
    BY DEF Init
  <2>2. saves \in 0 .. MaxSaves /\ flips \in 0 .. MaxFlips
    BY <1>1 DEF Init
  <2>2a. forged \in BOOLEAN
    BY Zenon DEF Init
  <2>3. /\ tmp \in [Savers -> Files \cup {None}]
        /\ pc \in [Savers -> {"idle", "payload", "sync", "publish"}]
        /\ image \in [Savers -> Images \cup {None}]
        /\ \A s \in Savers : pc[s] = "idle" <=> tmp[s] = None
    BY DEF Init
  <2> QED BY <2>1, <2>2, <2>2a, <2>3 DEF TypeOK
<1> QED BY <1>2 DEF Init, IInv, LoadExact

-----------------------------------------------------------------------------
(* The steps of one save. *)

(* The part of the invariant that is about the stored and the peeked files, *)
(* after a step.                                                            *)
PublishedKept ==
    /\ path' # None => Published(path)'
    /\ committed' # None => Published(committed)'
HeaderKept == hd' # None => \E i \in Images : HeaderOf(hd, i)'

(* A step that neither stores, loads nor damages anything keeps it. *)
LEMMA UnrottenKeeps ==
    ASSUME IInv, UNCHANGED rot
    PROVE  /\ UNCHANGED disk => PublishedKept
           /\ UNCHANGED hd => HeaderKept
           /\ UNCHANGED <<restored, want>> => LoadExact'
<1>1. flips' = flips /\ forged' = forged
  BY DEF rot
<1>2. ASSUME UNCHANGED disk PROVE PublishedKept
  BY <1>1, <1>2 DEF IInv, disk, PublishedKept, Published, PublishedAs, HeaderOf
<1>3. ASSUME UNCHANGED hd PROVE HeaderKept
  BY <1>1, <1>3 DEF IInv, HeaderKept, HeaderOf
<1>4. ASSUME UNCHANGED <<restored, want>> PROVE LoadExact'
  BY <1>1, <1>4 DEF IInv, LoadExact
<1> QED BY <1>2, <1>3, <1>4

(* What the invariant says of the staged files, apart from the rest: proved *)
(* for the process that steps, it holds of all, since a save touches its    *)
(* own file only.                                                           *)
LEMMA SaveKeeps ==
    ASSUME IInv, NEW s \in Savers,
           UNCHANGED <<disk, load, rot>>,
           tmp' \in [Savers -> Files \cup {None}],
           pc' \in [Savers -> {"idle", "payload", "sync", "publish"}],
           image' \in [Savers -> Images \cup {None}],
           saves' \in 0 .. MaxSaves,
           \A t \in Savers \ {s} :
               tmp'[t] = tmp[t] /\ pc'[t] = pc[t] /\ image'[t] = image[t],
           pc'[s] = "idle" <=> tmp'[s] = None,
           pc'[s] # "idle" => Staged(s)'
    PROVE  IInv'
<1>1. TypeOK'
  BY DEF IInv, TypeOK, disk, load, rot
<1>2. ASSUME NEW t \in Savers, pc'[t] # "idle" PROVE Staged(t)'
  <2>1. CASE t = s
    BY <1>2, <2>1
  <2>2. CASE t # s
    BY <1>2, <2>2 DEF IInv, Staged
  <2> QED BY <2>1, <2>2
<1>3. PublishedKept /\ HeaderKept /\ LoadExact'
  BY UnrottenKeeps DEF load, disk, IInv
<1> QED BY <1>1, <1>2, <1>3 DEF IInv, PublishedKept, HeaderKept

(* k3_state_save opens a temporary file of its own. *)
LEMMA StagesInv ==
    ASSUME IInv, NEW s \in Savers, Stages(s) PROVE IInv'
<1> DEFINE i == <<s, saves + 1>>
           h == Header(i, NoSum)
           f == [hd |-> h, body |-> <<>>, synced |-> FALSE]
<1>t. TypeOK
  BY DEF IInv
<1>1. i \in Images /\ saves + 1 \in 0 .. MaxSaves
  BY <1>t, StateFileAssumption DEF TypeOK, Stages, Images
<1>2. NoSum \in Bodies /\ <<>> \in Bodies /\ Written(i, 0) = <<>>
  BY <1>1, WrittenFacts DEF NoSum
<1>2a. h \in Headers /\ h = Header(i, h.sum)
  BY <1>1, <1>2, HeaderFacts
<1> HIDE DEF h
<1>3. f \in Files
  BY <1>2, <1>2a DEF Files
<1>4. f # None
  BY <1>3, NotNone
<1>5. tmp' = [tmp EXCEPT ![s] = f] /\ image' = [image EXCEPT ![s] = i]
      /\ pc' = [pc EXCEPT ![s] = "payload"] /\ saves' = saves + 1
  BY DEF Stages, Goto, h
<1>6. tmp'[s] = f /\ image'[s] = i /\ pc'[s] = "payload"
  BY <1>t, <1>5 DEF TypeOK
<1>7. Staged(s)'
  BY <1>1, <1>2, <1>2a, <1>6 DEF Staged
<1>8. \A t \in Savers \ {s} :
          tmp'[t] = tmp[t] /\ pc'[t] = pc[t] /\ image'[t] = image[t]
  BY <1>t, <1>5 DEF TypeOK
<1>9. /\ tmp' \in [Savers -> Files \cup {None}]
      /\ pc' \in [Savers -> {"idle", "payload", "sync", "publish"}]
      /\ image' \in [Savers -> Images \cup {None}]
  BY <1>t, <1>1, <1>3, <1>5 DEF TypeOK
<1>10. UNCHANGED <<disk, load, rot>>
  BY DEF Stages
<1> QED BY <1>1, <1>4, <1>5, <1>6, <1>7, <1>8, <1>9, <1>10, SaveKeeps

(* What the invariant gives of a save under way. *)
LEMMA Running ==
    ASSUME IInv, NEW s \in Savers, pc[s] # "idle"
    PROVE  /\ tmp[s] \in Files /\ tmp[s].hd \in Headers /\ tmp[s].body \in Bodies
           /\ image[s] \in Images /\ Staged(s)
<1>1. tmp[s] \in Files /\ Staged(s)
  BY DEF IInv, TypeOK
<1>2. tmp[s].hd \in Headers /\ tmp[s].body \in Bodies
  BY <1>1 DEF Files
<1>3. image[s] \in Images
  BY <1>1 DEF Staged
<1> QED BY <1>1, <1>2, <1>3

(* It writes one more part of the payload. *)
LEMMA WritesPartInv ==
    ASSUME IInv, NEW s \in Savers, WritesPart(s) PROVE IInv'
<1> DEFINE f == [tmp[s] EXCEPT !.body = Append(tmp[s].body, image[s])]
<1>t. TypeOK
  BY DEF IInv
<1>r. /\ tmp[s] \in Files /\ tmp[s].hd \in Headers /\ tmp[s].body \in Bodies
      /\ image[s] \in Images /\ Staged(s)
  BY Running DEF WritesPart
<1>1. PICK n \in 0 .. Parts : tmp[s].body = Written(image[s], n)
  BY <1>r DEF Staged
<1>2. n < Parts /\ Append(tmp[s].body, image[s]) = Written(image[s], n + 1)
  BY <1>r, <1>1, WrittenFacts DEF WritesPart
<1>3. n + 1 \in 0 .. Parts /\ Written(image[s], n + 1) \in Bodies
  BY <1>r, <1>2, WrittenFacts
<1>4. f = [hd |-> tmp[s].hd, body |-> Written(image[s], n + 1), synced |-> tmp[s].synced]
  BY <1>r, <1>2 DEF Files
<1>5. f \in Files /\ f # None
  BY <1>r, <1>3, <1>4, NotNone DEF Files
<1>6. tmp' = [tmp EXCEPT ![s] = f] /\ pc[s] = "payload"
      /\ UNCHANGED <<pc, image, saves, disk, load, rot>>
  BY DEF WritesPart
<1>7. tmp'[s] = f
  BY <1>t, <1>6 DEF TypeOK
<1>8. Staged(s)'
  BY <1>r, <1>3, <1>4, <1>6, <1>7 DEF Staged
<1>9. /\ tmp' \in [Savers -> Files \cup {None}]
      /\ pc' \in [Savers -> {"idle", "payload", "sync", "publish"}]
      /\ image' \in [Savers -> Images \cup {None}]
      /\ saves' \in 0 .. MaxSaves
  BY <1>t, <1>5, <1>6 DEF TypeOK
<1>10. \A t \in Savers \ {s} :
          tmp'[t] = tmp[t] /\ pc'[t] = pc[t] /\ image'[t] = image[t]
  BY <1>t, <1>6 DEF TypeOK
<1> QED BY <1>5, <1>6, <1>7, <1>8, <1>9, <1>10, SaveKeeps

(* It rewrites the header once the payload is complete. *)
LEMMA RewritesHeaderInv ==
    ASSUME IInv, NEW s \in Savers, RewritesHeader(s) PROVE IInv'
<1> DEFINE h == Header(image[s], tmp[s].body)
           f == [tmp[s] EXCEPT !.hd = h]
<1>t. TypeOK
  BY DEF IInv
<1>r. /\ tmp[s] \in Files /\ tmp[s].hd \in Headers /\ tmp[s].body \in Bodies
      /\ image[s] \in Images /\ Staged(s)
  BY Running DEF RewritesHeader, Goto
<1>1. PICK n \in 0 .. Parts : tmp[s].body = Written(image[s], n)
  BY <1>r DEF Staged
<1>2. n = Parts /\ tmp[s].body = Payload(image[s])
  BY <1>r, <1>1, WrittenFacts DEF RewritesHeader, Payload
<1>3. h \in Headers /\ h = Header(image[s], h.sum) /\ h.sum = Payload(image[s])
  BY <1>r, <1>2, HeaderFacts
<1> HIDE DEF h
<1>4. f = [hd |-> h, body |-> tmp[s].body, synced |-> tmp[s].synced]
  BY <1>r DEF Files
<1>5. f \in Files /\ f # None
  <2>1. f \in Files
    BY <1>r, <1>3, <1>4 DEF Files
  <2> QED BY <2>1, NotNone
<1>6. tmp' = [tmp EXCEPT ![s] = f] /\ pc' = [pc EXCEPT ![s] = "sync"]
      /\ UNCHANGED <<image, saves, disk, load, rot>>
  BY DEF RewritesHeader, Goto, h
<1>7. tmp'[s] = f /\ pc'[s] = "sync" /\ image'[s] = image[s]
  BY <1>t, <1>6 DEF TypeOK
<1>8. Staged(s)'
  BY <1>r, <1>1, <1>2, <1>3, <1>4, <1>7 DEF Staged
<1>9. /\ tmp' \in [Savers -> Files \cup {None}]
      /\ pc' \in [Savers -> {"idle", "payload", "sync", "publish"}]
      /\ image' \in [Savers -> Images \cup {None}]
      /\ saves' \in 0 .. MaxSaves
  BY <1>t, <1>5, <1>6 DEF TypeOK
<1>10. \A t \in Savers \ {s} :
          tmp'[t] = tmp[t] /\ pc'[t] = pc[t] /\ image'[t] = image[t]
  BY <1>t, <1>6 DEF TypeOK
<1> QED BY <1>5, <1>6, <1>7, <1>8, <1>9, <1>10, SaveKeeps

(* It forces the file to the disk. *)
LEMMA ForcesInv ==
    ASSUME IInv, NEW s \in Savers, Forces(s) PROVE IInv'
<1> DEFINE f == [tmp[s] EXCEPT !.synced = TRUE]
<1>t. TypeOK
  BY DEF IInv
<1>r. /\ tmp[s] \in Files /\ tmp[s].hd \in Headers /\ tmp[s].body \in Bodies
      /\ image[s] \in Images /\ Staged(s)
  BY Running DEF Forces, Goto
<1>4. f \in Files
  BY <1>r DEF Files
<1>5. f # None
  BY <1>4, NotNone
<1>5a. f.hd = tmp[s].hd /\ f.body = tmp[s].body /\ f.synced
  BY <1>r DEF Files
<1>6. tmp' = [tmp EXCEPT ![s] = f] /\ pc' = [pc EXCEPT ![s] = "publish"]
      /\ pc[s] = "sync" /\ UNCHANGED <<image, saves, disk, load, rot>>
  BY DEF Forces, Goto
<1>7. tmp'[s] = f /\ pc'[s] = "publish" /\ image'[s] = image[s]
  BY <1>t, <1>6 DEF TypeOK
<1>8. Staged(s)'
  BY <1>r, <1>5a, <1>6, <1>7 DEF Staged
<1>9. /\ tmp' \in [Savers -> Files \cup {None}]
      /\ pc' \in [Savers -> {"idle", "payload", "sync", "publish"}]
      /\ image' \in [Savers -> Images \cup {None}]
      /\ saves' \in 0 .. MaxSaves
  BY <1>t, <1>4, <1>6 DEF TypeOK
<1>10. \A t \in Savers \ {s} :
          tmp'[t] = tmp[t] /\ pc'[t] = pc[t] /\ image'[t] = image[t]
  BY <1>t, <1>6 DEF TypeOK
<1> QED BY <1>5, <1>6, <1>7, <1>8, <1>9, <1>10, SaveKeeps

(* It fails, or its process is killed. *)
LEMMA FailsInv ==
    ASSUME IInv, NEW s \in Savers, Fails(s) PROVE IInv'
<1>t. TypeOK
  BY DEF IInv
<1>6. /\ tmp' = [tmp EXCEPT ![s] = None] /\ pc' = [pc EXCEPT ![s] = "idle"]
      /\ image' = [image EXCEPT ![s] = None]
      /\ UNCHANGED <<saves, disk, load, rot>>
  BY DEF Fails, Done
<1>7. tmp'[s] = None /\ pc'[s] = "idle"
  BY <1>t, <1>6 DEF TypeOK
<1>9. /\ tmp' \in [Savers -> Files \cup {None}]
      /\ pc' \in [Savers -> {"idle", "payload", "sync", "publish"}]
      /\ image' \in [Savers -> Images \cup {None}]
      /\ saves' \in 0 .. MaxSaves
  BY <1>t, <1>6 DEF TypeOK
<1>10. \A t \in Savers \ {s} :
          tmp'[t] = tmp[t] /\ pc'[t] = pc[t] /\ image'[t] = image[t]
  BY <1>t, <1>6 DEF TypeOK
<1> QED BY <1>6, <1>7, <1>9, <1>10, SaveKeeps

(* The file a save renames is whole and forced. *)
LEMMA PublishedFile ==
    ASSUME IInv, NEW s \in Savers, Publishes(s)
    PROVE  /\ path' = tmp[s] /\ tmp[s] \in Files /\ tmp[s] # None
           /\ image[s] \in Images /\ tmp[s].body = Payload(image[s])
           /\ PublishedAs(tmp[s], image[s])
<1> DEFINE i == image[s]
           f == tmp[s]
<1>1. pc[s] = "publish" /\ path' = f
  BY DEF Publishes
<1>2. f \in Files /\ i \in Images /\ Staged(s)
  BY <1>1, Running
<1>3. f.body = Payload(i) /\ f.synced
  BY <1>1, <1>2 DEF Staged, Payload
<1>4. f.hd = Header(i, f.body)
  BY <1>1, <1>2, <1>3 DEF Staged
<1>5. f # None
  BY <1>2, NotNone
<1>6. f.hd.image = i /\ f.hd.sum = Payload(i) /\ f.hd.shape = Shape(i)
  BY <1>3, <1>4 DEF Header
<1>7. Whole(f)
  BY <1>2, <1>3, <1>4, <1>6 DEF Whole
<1>8. f.body \in [1 .. Parts -> {i, Rotten}]
  BY <1>3 DEF Payload, Written
<1>9. PublishedAs(f, i)
  BY <1>3, <1>6, <1>7, <1>8 DEF PublishedAs, HeaderOf
<1> QED BY <1>1, <1>2, <1>3, <1>5, <1>9

(* It renames the file onto the path. *)
LEMMA PublishesInv ==
    ASSUME IInv, NEW s \in Savers, Publishes(s) PROVE IInv'
<1>t. TypeOK
  BY DEF IInv
<1>1. /\ path' = tmp[s] /\ tmp[s] \in Files /\ image[s] \in Images
      /\ PublishedAs(tmp[s], image[s])
  BY PublishedFile
<1>2. /\ tmp' = [tmp EXCEPT ![s] = None] /\ pc' = [pc EXCEPT ![s] = "idle"]
      /\ image' = [image EXCEPT ![s] = None]
      /\ UNCHANGED <<committed, saves, load, rot>>
  BY DEF Publishes, Done
<1>3. TypeOK'
  BY <1>t, <1>1, <1>2 DEF TypeOK, load, rot
<1>4. \A t \in Savers : pc'[t] # "idle" => Staged(t)'
  <2> SUFFICES ASSUME NEW t \in Savers, pc'[t] # "idle" PROVE Staged(t)'
    OBVIOUS
  <2>1. t # s /\ tmp'[t] = tmp[t] /\ pc'[t] = pc[t] /\ image'[t] = image[t]
    BY <1>t, <1>2 DEF TypeOK
  <2> QED BY <2>1 DEF IInv, Staged
<1>5. Published(path)'
  BY <1>1, <1>2 DEF Published, PublishedAs, HeaderOf, rot
<1>6. committed' # None => Published(committed)'
  BY <1>2 DEF IInv, Published, PublishedAs, HeaderOf, rot
<1>7. HeaderKept /\ LoadExact'
  BY <1>2, UnrottenKeeps DEF load
<1> QED BY <1>3, <1>4, <1>5, <1>6, <1>7 DEF IInv, HeaderKept

-----------------------------------------------------------------------------
(* The loading process and the file system. *)

(* A peek reads the header of a published file, or nothing. *)
LEMMA PeeksInv == ASSUME IInv, Peeks PROVE IInv'
<1>t. TypeOK
  BY DEF IInv
<1>0. UNCHANGED <<disk, save, rot>>
  BY DEF Peeks
<1>1. hd' \in Headers \cup {None} /\ HeaderKept
  <2>1. CASE path = None \/ ~path.hd.magic
    BY <2>1 DEF Peeks, HeaderKept
  <2>2. CASE ~(path = None \/ ~path.hd.magic)
    <3>1. path \in Files /\ hd' = path.hd
      BY <1>t, <2>2 DEF TypeOK, Peeks
    <3>2. \E i \in Images : HeaderOf(path.hd, i)
      BY <2>2 DEF IInv, Published, PublishedAs
    <3>3. path.hd \in Headers
      BY <3>1 DEF Files
    <3>4. forged' = forged
      BY <1>0 DEF rot
    <3> QED BY <3>1, <3>2, <3>3, <3>4 DEF HeaderKept, HeaderOf
  <2> QED BY <2>1, <2>2
<1>2. TypeOK'
  BY <1>t, <1>1 DEF TypeOK, Peeks, disk, save, rot
<1>3. LoadExact'
  BY DEF LoadExact, Peeks
<1>4. \A s \in Savers : pc'[s] # "idle" => Staged(s)'
  BY <1>0 DEF IInv, save, Staged
<1>5. PublishedKept
  BY <1>0, UnrottenKeeps
<1> QED BY <1>1, <1>2, <1>3, <1>4, <1>5 DEF IInv, PublishedKept, HeaderKept

(* A load that accepts reads the whole, undamaged payload the peeked header *)
(* is of, and that is the one in the file the path names; its architecture  *)
(* is the loading process's but for a forged fingerprint.                   *)
LEMMA AcceptsWhole ==
    ASSUME IInv, hd # None, path # None, Accepts
    PROVE  \E i \in Images :
              path.body = Payload(i) /\ (Shape(i) = want \/ forged)
<1>1. path \in Files /\ path.body \in Bodies
  BY DEF IInv, TypeOK, Files
<1>2. PICK i \in Images : HeaderOf(hd, i)
  BY DEF IInv
<1>3. path.body # Rotten
  BY <1>1, StateFileAssumption
<1>4. path.body = Payload(i)
  BY <1>2, <1>3 DEF Accepts, HeaderOf
<1>5. want # Rotten
  <2>1. want \in Shapes
    BY DEF IInv, TypeOK
  <2> QED BY <2>1, StateFileAssumption
<1>6. Shape(i) = want \/ forged
  BY <1>2, <1>5 DEF Accepts, HeaderOf
<1> QED BY <1>4, <1>6

(* k3_state_load accepts one image whole or nothing. *)
LEMMA LoadsInv == ASSUME IInv, Loads PROVE IInv'
<1>t. TypeOK
  BY DEF IInv
<1>1. hd # None /\ path # None /\ hd' = None /\ want' = want
      /\ restored' = (IF Accepts THEN path.body ELSE None)
      /\ UNCHANGED <<disk, save, rot>>
  BY DEF Loads
<1>2. restored' \in Bodies \cup {None} /\ LoadExact'
  <2>1. CASE Accepts
    <3>1. PICK i \in Images :
              path.body = Payload(i) /\ (Shape(i) = want \/ forged)
      BY <1>1, <2>1, AcceptsWhole
    <3>2. restored' = Payload(i) /\ Payload(i) \in Bodies /\ forged' = forged
      BY <1>1, <2>1, <3>1, ImageSound DEF rot
    <3> QED BY <1>1, <3>1, <3>2 DEF LoadExact
  <2>2. CASE ~Accepts
    BY <1>1, <2>2 DEF LoadExact
  <2> QED BY <2>1, <2>2
<1>3. TypeOK'
  BY <1>t, <1>1, <1>2 DEF TypeOK, disk, save, rot
<1>4. \A s \in Savers : pc'[s] # "idle" => Staged(s)'
  BY <1>1 DEF IInv, save, Staged
<1>5. PublishedKept
  BY <1>1, UnrottenKeeps
<1> QED BY <1>1, <1>2, <1>3, <1>4, <1>5 DEF IInv, PublishedKept

(* The directory entry reaches the disk. *)
LEMMA CommitsInv == ASSUME IInv, Commits PROVE IInv'
<1>0. committed' = path /\ path' = path /\ UNCHANGED <<save, load, rot>>
  BY DEF Commits
<1>1. TypeOK'
  BY <1>0 DEF IInv, TypeOK, load, save, rot
<1>2. \A s \in Savers : pc'[s] # "idle" => Staged(s)'
  BY <1>0 DEF IInv, save, Staged
<1>3. PublishedKept
  BY <1>0 DEF IInv, PublishedKept, Published, PublishedAs, HeaderOf, rot
<1>4. HeaderKept /\ LoadExact'
  BY <1>0, UnrottenKeeps DEF load
<1> QED BY <1>1, <1>2, <1>3, <1>4 DEF IInv, PublishedKept, HeaderKept

(* Everything that was committed had been forced, so a power cut leaves it  *)
(* as it was.                                                               *)
LEMMA CutLeaves ==
    ASSUME IInv, PowerCut PROVE path' = committed /\ committed' = committed
<1>1. committed = None \/ committed.synced
  BY DEF IInv, Published, PublishedAs
<1>2. Survives(committed) = {committed}
  BY <1>1 DEF Survives
<1> QED BY <1>2 DEF PowerCut

(* The power is cut. *)
LEMMA PowerCutInv == ASSUME IInv, PowerCut PROVE IInv'
<1>1. path' = committed /\ committed' = committed
  BY CutLeaves
<1>2. TypeOK'
  BY <1>1 DEF IInv, TypeOK, PowerCut, rot
<1>3. \A s \in Savers : pc'[s] # "idle" => Staged(s)'
  BY DEF PowerCut
<1>4. PublishedKept
  BY <1>1 DEF IInv, PowerCut, PublishedKept, Published, PublishedAs, HeaderOf, rot
<1>5. HeaderKept /\ LoadExact'
  BY DEF PowerCut, LoadExact, HeaderKept
<1> QED BY <1>2, <1>3, <1>4, <1>5 DEF IInv, PublishedKept, HeaderKept

(* What is left of a damaged file is as much a published one. *)
LEMMA DamagesInv ==
    ASSUME IInv, path # None, NEW f \in Files, Damages(f),
           forged' \in BOOLEAN, forged => forged',
           \A i \in Images : PublishedAs(path, i) =>
               /\ f.hd.image \in {i, Rotten} /\ f.hd.sum \in {Payload(i), Rotten}
               /\ forged' \/ f.hd.shape \in {Shape(i), Rotten}
               /\ f.body \in [1 .. Parts -> {i, Rotten}] /\ f.synced
    PROVE  IInv'
<1>t. TypeOK
  BY DEF IInv
<1>1. /\ path' = f /\ flips' = flips + 1 /\ flips < MaxFlips
      /\ committed' = (IF committed = path THEN f ELSE committed)
      /\ UNCHANGED <<save, load>>
  BY DEF Damages
<1>2. flips' \in 0 .. MaxFlips /\ flips' # 0
  BY <1>t, <1>1, StateFileAssumption DEF TypeOK
<1>3. TypeOK'
  BY <1>t, <1>1, <1>2 DEF TypeOK, save, load
<1>4. Published(path)'
  <2>1. PICK i \in Images : PublishedAs(path, i)
    BY DEF IInv, Published
  <2>2. PublishedAs(path, i)'
    BY <1>1, <1>2, <2>1 DEF PublishedAs, HeaderOf
  <2> QED BY <2>2 DEF Published
<1>5. committed' # None => Published(committed)'
  <2>1. CASE committed = path
    <3>1. committed' = path'
      BY <1>1, <2>1
    <3> QED BY <1>4, <3>1 DEF Published, PublishedAs, HeaderOf
  <2>2. CASE committed # path
    <3>1. committed' = committed
      BY <1>1, <2>2
    <3> QED BY <1>2, <3>1 DEF IInv, Published, PublishedAs, HeaderOf
  <2> QED BY <2>1, <2>2
<1>6. \A s \in Savers : pc'[s] # "idle" => Staged(s)'
  BY <1>1 DEF IInv, save, Staged
<1>7. HeaderKept
  BY <1>1 DEF IInv, load, HeaderKept, HeaderOf
<1>8. LoadExact'
  BY <1>1 DEF IInv, load, LoadExact
<1> QED BY <1>3, <1>4, <1>5, <1>6, <1>7, <1>8 DEF IInv, HeaderKept

(* The stored file is a record of its fields. *)
LEMMA PathFields ==
    ASSUME IInv, path # None
    PROVE  /\ path \in Files /\ path.hd \in Headers /\ path.body \in Bodies
           /\ path.hd = [magic |-> path.hd.magic, image |-> path.hd.image,
                         shape |-> path.hd.shape, sum |-> path.hd.sum]
           /\ path = [hd |-> path.hd, body |-> path.body, synced |-> path.synced]
<1>1. path \in Files
  BY DEF IInv, TypeOK
<1>2. path.hd \in Headers /\ path.body \in Bodies
  BY <1>1 DEF Files
<1>3. path.hd = [magic |-> path.hd.magic, image |-> path.hd.image,
                 shape |-> path.hd.shape, sum |-> path.hd.sum]
  BY <1>2 DEF Headers
<1> QED BY <1>1, <1>2, <1>3 DEF Files

(* A byte of the payload rots. *)
LEMMA RotsInv ==
    ASSUME IInv, NEW p \in 1 .. Parts, Rots(p) PROVE IInv'
<1> DEFINE b == [path.body EXCEPT ![p] = Rotten]
           f == [path EXCEPT !.body = b]
<1>1. path # None /\ p \in DOMAIN path.body /\ Damages(f) /\ forged' = forged
  BY DEF Rots
<1>2. /\ path \in Files /\ path.hd \in Headers
      /\ path = [hd |-> path.hd, body |-> path.body, synced |-> path.synced]
  BY <1>1, PathFields
<1>3. \A i \in Images : PublishedAs(path, i) => b \in [1 .. Parts -> {i, Rotten}]
  BY DEF PublishedAs
<1>4. b \in Bodies
  <2>1. PICK i \in Images : PublishedAs(path, i)
    BY <1>1 DEF IInv, Published
  <2> QED BY <1>3, <2>1 DEF Bodies
<1> HIDE DEF b
<1>5. f = [hd |-> path.hd, body |-> b, synced |-> path.synced]
  BY <1>2
<1>6. f \in Files
  BY <1>2, <1>4, <1>5 DEF Files
<1>7. \A i \in Images : PublishedAs(path, i) =>
          /\ f.hd.image \in {i, Rotten} /\ f.hd.sum \in {Payload(i), Rotten}
          /\ forged' \/ f.hd.shape \in {Shape(i), Rotten}
          /\ f.body \in [1 .. Parts -> {i, Rotten}] /\ f.synced
  BY <1>1, <1>3, <1>5 DEF PublishedAs, HeaderOf
<1>8. forged' \in BOOLEAN
  BY <1>1 DEF IInv, TypeOK
<1> HIDE DEF f
<1> QED BY <1>1, <1>6, <1>7, <1>8, DamagesInv

(* A header a byte of which has rotted, of a file that is otherwise as it   *)
(* was.                                                                     *)
LEMMA HeaderDamaged ==
    ASSUME IInv, path # None, NEW h \in Headers,
           Damages([path EXCEPT !.hd = h]),
           forged' \in BOOLEAN, forged => forged',
           h.image \in {path.hd.image, Rotten},
           h.sum \in {path.hd.sum, Rotten},
           forged' \/ h.shape \in {path.hd.shape, Rotten}
    PROVE  IInv'
<1> DEFINE f == [path EXCEPT !.hd = h]
<1>1. /\ path \in Files /\ path.body \in Bodies
      /\ path = [hd |-> path.hd, body |-> path.body, synced |-> path.synced]
  BY PathFields
<1>2. f = [hd |-> h, body |-> path.body, synced |-> path.synced]
  BY <1>1
<1>3. f \in Files
  BY <1>1, <1>2 DEF Files
<1>4. \A i \in Images : PublishedAs(path, i) =>
          /\ f.hd.image \in {i, Rotten} /\ f.hd.sum \in {Payload(i), Rotten}
          /\ forged' \/ f.hd.shape \in {Shape(i), Rotten}
          /\ f.body \in [1 .. Parts -> {i, Rotten}] /\ f.synced
  BY <1>2 DEF PublishedAs, HeaderOf
<1>5. Damages(f)
  OBVIOUS
<1> HIDE DEF f
<1> QED BY <1>3, <1>4, <1>5, DamagesInv

(* A byte of the magic, the version, a size or the hash rots. *)
LEMMA RotsHeaderInv ==
    ASSUME IInv, RotsHeader PROVE IInv'
<1>1. path # None /\ forged' = forged /\ forged' \in BOOLEAN
  BY DEF RotsHeader, IInv, TypeOK
<1>2. /\ path \in Files /\ path.hd \in Headers
      /\ path.hd = [magic |-> path.hd.magic, image |-> path.hd.image,
                    shape |-> path.hd.shape, sum |-> path.hd.sum]
      /\ path = [hd |-> path.hd, body |-> path.body, synced |-> path.synced]
  BY <1>1, PathFields
<1> DEFINE a == [path.hd EXCEPT !.magic = FALSE]
           b == [path.hd EXCEPT !.image = Rotten]
           d == [path.hd EXCEPT !.sum = Rotten]
<1>3. a \in Headers /\ b \in Headers /\ d \in Headers
  BY <1>2 DEF Headers
<1>4. /\ a.image = path.hd.image /\ a.sum = path.hd.sum /\ a.shape = path.hd.shape
      /\ b.image = Rotten /\ b.sum = path.hd.sum /\ b.shape = path.hd.shape
      /\ d.image = path.hd.image /\ d.sum = Rotten /\ d.shape = path.hd.shape
  BY <1>2
<1>5. \/ Damages([path EXCEPT !.hd = a]) \/ Damages([path EXCEPT !.hd = b])
      \/ Damages([path EXCEPT !.hd = d])
  BY DEF RotsHeader
<1> HIDE DEF a, b, d
<1> QED BY <1>1, <1>3, <1>4, <1>5, HeaderDamaged

(* A byte of the fingerprint rots. *)
LEMMA RotsShapeInv ==
    ASSUME IInv, NEW shape \in Shapes \cup {Rotten}, RotsShape(shape) PROVE IInv'
<1>1. path # None /\ forged' = (forged \/ shape # Rotten) /\ forged \in BOOLEAN
  BY DEF RotsShape, IInv, TypeOK
<1>2. path.hd \in Headers
  BY <1>1, PathFields
<1> DEFINE h == [path.hd EXCEPT !.shape = shape]
<1>3. h \in Headers
  BY <1>2 DEF Headers
<1>4. h.image = path.hd.image /\ h.sum = path.hd.sum /\ h.shape = shape
  BY <1>2 DEF Headers
<1>5. Damages([path EXCEPT !.hd = h])
  BY DEF RotsShape
<1> HIDE DEF h
<1>6. forged' \in BOOLEAN /\ (forged => forged') /\ (forged' \/ shape = Rotten)
  BY <1>1
<1> QED BY <1>1, <1>3, <1>4, <1>5, <1>6, HeaderDamaged

-----------------------------------------------------------------------------
(* The invariants. *)

(* Every step keeps the invariant. *)
LEMMA StepInv == IInv /\ [Next]_vars => IInv'
<1> SUFFICES ASSUME IInv, [Next]_vars PROVE IInv'
  OBVIOUS
<1>1. ASSUME NEW s \in Savers, Stages(s) PROVE IInv'
  BY <1>1, StagesInv
<1>2. ASSUME NEW s \in Savers, WritesPart(s) PROVE IInv'
  BY <1>2, WritesPartInv
<1>3. ASSUME NEW s \in Savers, RewritesHeader(s) PROVE IInv'
  BY <1>3, RewritesHeaderInv
<1>4. ASSUME NEW s \in Savers, Forces(s) PROVE IInv'
  BY <1>4, ForcesInv
<1>5. ASSUME NEW s \in Savers, Publishes(s) PROVE IInv'
  BY <1>5, PublishesInv
<1>6. ASSUME NEW s \in Savers, Fails(s) PROVE IInv'
  BY <1>6, FailsInv
<1>7. CASE Peeks
  BY <1>7, PeeksInv
<1>8. CASE Loads
  BY <1>8, LoadsInv
<1>9. CASE Commits
  BY <1>9, CommitsInv
<1>10. CASE PowerCut
  BY <1>10, PowerCutInv
<1>11. ASSUME NEW p \in 1 .. Parts, Rots(p) PROVE IInv'
  BY <1>11, RotsInv
<1>12. CASE RotsHeader
  BY <1>12, RotsHeaderInv
<1>13. ASSUME NEW shape \in Shapes \cup {Rotten}, RotsShape(shape) PROVE IInv'
  BY <1>13, RotsShapeInv
<1>14. CASE UNCHANGED vars
  <2>1. UNCHANGED <<disk, save, load, rot>>
    BY <1>14 DEF vars
  <2>2. TypeOK' /\ \A s \in Savers : pc'[s] # "idle" => Staged(s)'
    BY <2>1 DEF disk, save, load, rot, IInv, TypeOK, Staged
  <2> QED BY <2>1, <2>2, UnrottenKeeps DEF load, IInv, PublishedKept, HeaderKept
<1> QED
  BY <1>1, <1>2, <1>3, <1>4, <1>5, <1>6, <1>7, <1>8, <1>9, <1>10, <1>11, <1>12,
     <1>13, <1>14
  DEF Next

(* The inductive invariant holds in every reachable state. *)
THEOREM InvHolds == Spec => []IInv
<1>1. Init => IInv
  BY InitInv
<1>2. IInv /\ [Next]_vars => IInv'
  BY StepInv
<1> QED BY <1>1, <1>2, PTL DEF Spec

(* k3_state_save leaves no temporary file behind when it returns, and no    *)
(* step breaks the types.                                                   *)
THEOREM TypesHold == Spec => []TypeOK
<1>1. IInv => TypeOK
  BY DEF IInv
<1> QED BY <1>1, InvHolds, PTL

(* Until a byte rots, the path and what a power cut would leave of it are   *)
(* complete files, at every instant of every interleaving of saves.         *)
THEOREM WholeHolds == Spec => []PathWhole
<1>1. IInv => PathWhole
  <2> SUFFICES ASSUME IInv, flips = 0, NEW f \in {path, committed}, f # None
               PROVE  Whole(f)
    BY DEF PathWhole
  <2>1. Published(f)
    BY DEF IInv
  <2> QED BY <2>1 DEF Published, PublishedAs
<1> QED BY <1>1, InvHolds, PTL

(* k3_state_load restores whole one image of its own architecture, or       *)
(* refuses: also when the path changes between the peek and the load, and   *)
(* whatever byte of payload or header is damaged, unless the fingerprint    *)
(* itself rotted into that of another architecture.                         *)
THEOREM LoadsExactly == Spec => []LoadExact
<1>1. IInv => LoadExact
  BY DEF IInv
<1> QED BY <1>1, InvHolds, PTL

-----------------------------------------------------------------------------
(* The refinement. *)

held     == ImageOf(path)
settled  == ImageOf(committed)
answered == IF restored = None THEN None ELSE restored[1]

(* The image of a file whose payload is undamaged. *)
LEMMA ImageOfPayload ==
    ASSUME NEW f, f # None, NEW i \in Images, f.body = Payload(i)
    PROVE  ImageOf(f) = i
BY ImageSound DEF ImageOf, Intact

(* The empty path is the empty register. *)
LEMMA StoreInit == Init => Store!Init
BY DEF Init, Store!Init, ImageOf

(* A step that changes neither the disk nor the last answer is a stutter.   *)
LEMMA Stutter ==
    ASSUME UNCHANGED <<disk, restored, rot>> PROVE UNCHANGED Store!vars
<1>1. /\ path' = path /\ committed' = committed
      /\ restored' = restored /\ flips' = flips
  BY DEF disk, rot
<1> QED BY <1>1 DEF Store!vars, ImageOf, Intact

(* The rename is the step that changes the register. *)
LEMMA PublishesStore ==
    ASSUME IInv, NEW s \in Savers, Publishes(s)
    PROVE  \E i \in Images : Store!Publish(i)
<1>1. /\ path' = tmp[s] /\ tmp[s] # None /\ image[s] \in Images
      /\ tmp[s].body = Payload(image[s])
  BY PublishedFile
<1>2. committed' = committed /\ restored' = restored /\ flips' = flips
  BY DEF Publishes, load, rot
<1>3. held' = image[s]
  <2>1. ImageOf(tmp[s]) = image[s]
    BY <1>1, ImageOfPayload
  <2> QED BY <1>1, <2>1 DEF held, ImageOf, Intact
<1>4. Store!Publish(image[s])
  BY <1>2, <1>3 DEF Store!Publish, held, ImageOf, Intact
<1> QED BY <1>1, <1>4

(* A load answers with the register or refuses. *)
LEMMA LoadsStore ==
    ASSUME IInv, Loads PROVE Store!LoadRestores \/ Store!LoadRefuses
<1>1. /\ hd # None /\ path # None
      /\ restored' = IF Accepts THEN path.body ELSE None
      /\ path' = path /\ committed' = committed /\ flips' = flips
  BY DEF Loads, disk, rot
<1>2. CASE Accepts
  <2>1. PICK i \in Images : path.body = Payload(i)
    BY <1>1, <1>2, AcceptsWhole
  <2>2. restored' = Payload(i)
    BY <1>1, <1>2, <2>1
  <2>3. restored'[1] = i /\ ImageOf(path) = i
    BY <1>1, <2>1, <2>2, ImageSound, ImageOfPayload
  <2>4. restored' # None /\ i # None
    BY <2>1, <2>2, ImageSound, StateFileAssumption
  <2>5. ImageOf(path)' = i /\ ImageOf(committed)' = ImageOf(committed)
    BY <1>1, <2>3 DEF ImageOf, Intact
  <2> QED BY <1>1, <2>3, <2>4, <2>5 DEF Store!LoadRestores
<1>3. CASE ~Accepts
  BY <1>1, <1>3 DEF Store!LoadRefuses, ImageOf, Intact
<1> QED BY <1>2, <1>3

(* A damaged file has the image it had, or none. *)
LEMMA DamagesStore ==
    ASSUME IInv, NEW f, path # None, f # None, Damages(f),
           Intact(f) => f.body = path.body
    PROVE  Store!Rot
<1>1. /\ path' = f /\ committed' = (IF committed = path THEN f ELSE committed)
      /\ flips' = flips + 1 /\ restored' = restored
  BY DEF Damages, load
<1>2. ImageOf(f) \in {ImageOf(path), None}
  BY DEF ImageOf, Intact
<1>3. ImageOf(path)' = ImageOf(f)
  BY <1>1 DEF ImageOf, Intact
<1>4. ImageOf(committed)' \in {ImageOf(committed), None}
  <2>1. CASE committed = path
    <3>1. committed' = f
      BY <1>1, <2>1
    <3>2. ImageOf(committed)' = ImageOf(f)
      BY <3>1 DEF ImageOf, Intact
    <3> QED BY <1>2, <2>1, <3>2
  <2>2. CASE committed # path
    <3>1. committed' = committed
      BY <1>1, <2>2
    <3> QED BY <3>1 DEF ImageOf, Intact
  <2> QED BY <2>1, <2>2
<1> QED BY <1>1, <1>2, <1>3, <1>4 DEF Store!Rot

(* A rotten part of the payload costs the image and nothing more. *)
LEMMA RotsStore ==
    ASSUME IInv, NEW p \in 1 .. Parts, Rots(p) PROVE Store!Rot
<1> DEFINE b == [path.body EXCEPT ![p] = Rotten]
           f == [path EXCEPT !.body = b]
<1>1. path # None /\ p \in DOMAIN path.body /\ Damages(f)
  BY DEF Rots
<1>2. /\ path \in Files /\ path.body \in Bodies
      /\ path = [hd |-> path.hd, body |-> path.body, synced |-> path.synced]
  BY <1>1, PathFields
<1>3. f.body = b /\ b[p] = Rotten
  BY <1>1, <1>2 DEF Bodies
<1>4. ~Intact(f)
  <2> SUFFICES ASSUME NEW i \in Images, f.body = Payload(i) PROVE FALSE
    BY DEF Intact
  <2>1. Payload(i)[p] = i
    BY DEF Payload, Written
  <2>2. i # Rotten
    BY ImageSound
  <2> QED BY <1>3, <2>1, <2>2
<1>5. f # None
  <2>1. PICK i \in Images : PublishedAs(path, i)
    BY <1>1 DEF IInv, Published
  <2>2. b \in Bodies
    BY <2>1 DEF PublishedAs, Bodies
  <2>3. f \in Files
    BY <1>2, <2>2 DEF Files
  <2> QED BY <2>3, NotNone
<1> HIDE DEF f
<1> QED BY <1>1, <1>4, <1>5, DamagesStore

(* A rotten header costs no image. *)
LEMMA HeaderStore ==
    ASSUME IInv, path # None, NEW h \in Headers, Damages([path EXCEPT !.hd = h])
    PROVE  Store!Rot
<1> DEFINE f == [path EXCEPT !.hd = h]
<1>1. /\ path \in Files /\ path.body \in Bodies
      /\ path = [hd |-> path.hd, body |-> path.body, synced |-> path.synced]
  BY PathFields
<1>2. f = [hd |-> h, body |-> path.body, synced |-> path.synced]
  BY <1>1
<1>3. f \in Files /\ f.body = path.body
  BY <1>1, <1>2 DEF Files
<1>4. f # None
  BY <1>3, NotNone
<1>5. Damages(f)
  OBVIOUS
<1> HIDE DEF f
<1> QED BY <1>3, <1>4, <1>5, DamagesStore

(* Every step is one of the register, or a stutter. *)
LEMMA StoreStep == IInv /\ [Next]_vars => [Store!Next]_Store!vars
<1> SUFFICES ASSUME IInv, [Next]_vars PROVE [Store!Next]_Store!vars
  OBVIOUS
<1>1. ASSUME NEW s \in Savers,
             \/ Stages(s) \/ WritesPart(s) \/ RewritesHeader(s)
             \/ Forces(s) \/ Fails(s)
      PROVE  [Store!Next]_Store!vars
  <2>1. UNCHANGED <<disk, restored, rot>>
    BY <1>1 DEF Stages, WritesPart, RewritesHeader, Forces, Fails, load
  <2> QED BY <2>1, Stutter
<1>2. ASSUME NEW s \in Savers, Publishes(s) PROVE [Store!Next]_Store!vars
  BY <1>2, PublishesStore DEF Store!Next
<1>3. CASE Peeks
  <2>1. UNCHANGED <<disk, rot>> /\ restored' = None
    BY <1>3 DEF Peeks
  <2> QED BY <2>1 DEF disk, rot, Store!Next, Store!LoadRefuses, ImageOf, Intact
<1>4. CASE Loads
  BY <1>4, LoadsStore DEF Store!Next
<1>5. CASE Commits
  <2>1. /\ committed' = path /\ path' = path /\ restored' = restored
        /\ flips' = flips
    BY <1>5 DEF Commits, load, rot
  <2> QED BY <2>1 DEF Store!Next, Store!Settle, ImageOf, Intact
<1>6. CASE PowerCut
  <2>1. /\ path' = committed /\ committed' = committed
        /\ restored' = None /\ flips' = flips
    BY <1>6, CutLeaves DEF PowerCut, rot
  <2> QED BY <2>1 DEF Store!Next, Store!Cut, ImageOf, Intact
<1>7. ASSUME NEW p \in 1 .. Parts, Rots(p) PROVE [Store!Next]_Store!vars
  BY <1>7, RotsStore DEF Store!Next
<1>8. CASE RotsHeader
  <2>1. path # None /\ path.hd \in Headers
    BY <1>8, PathFields DEF RotsHeader
  <2>2. \E h \in Headers : Damages([path EXCEPT !.hd = h])
    <3> DEFINE a == [path.hd EXCEPT !.magic = FALSE]
               b == [path.hd EXCEPT !.image = Rotten]
               d == [path.hd EXCEPT !.sum = Rotten]
    <3>1. a \in Headers /\ b \in Headers /\ d \in Headers
      BY <2>1 DEF Headers
    <3>2. \/ Damages([path EXCEPT !.hd = a]) \/ Damages([path EXCEPT !.hd = b])
          \/ Damages([path EXCEPT !.hd = d])
      BY <1>8 DEF RotsHeader
    <3> HIDE DEF a, b, d
    <3> QED BY <3>1, <3>2
  <2> QED BY <2>1, <2>2, HeaderStore DEF Store!Next
<1>9. ASSUME NEW shape \in Shapes \cup {Rotten}, RotsShape(shape)
      PROVE  [Store!Next]_Store!vars
  <2> DEFINE h == [path.hd EXCEPT !.shape = shape]
  <2>1. path # None /\ path.hd \in Headers
    BY <1>9, PathFields DEF RotsShape
  <2>2. h \in Headers
    BY <2>1 DEF Headers
  <2>3. Damages([path EXCEPT !.hd = h])
    BY <1>9 DEF RotsShape
  <2> HIDE DEF h
  <2> QED BY <2>1, <2>2, <2>3, HeaderStore DEF Store!Next
<1>10. CASE UNCHANGED vars
  BY <1>10, Stutter DEF vars, load
<1> QED
  BY <1>1, <1>2, <1>3, <1>4, <1>5, <1>6, <1>7, <1>8, <1>9, <1>10 DEF Next

(* The state file implements the register of StateStore: whatever the       *)
(* interleaving of saves, loads, failures, kills, power cuts and damage,    *)
(* its image changes at once or not at all.                                 *)
THEOREM Refinement == Spec => KeepsStore
<1>1. Init => Store!Init
  BY StoreInit
<1>2. IInv /\ [Next]_vars => [Store!Next]_Store!vars
  BY StoreStep
<1> QED BY <1>1, <1>2, InvHolds, PTL DEF Spec, KeepsStore, Store!Spec
=============================================================================
