------------------------------ MODULE StateFile ------------------------------
(***************************************************************************)
(* The conversation state file, src/cli/k3_state.c: k3_state_save stages   *)
(* the file under a temporary name and publishes it by rename, and         *)
(* k3_state_peek followed by k3_state_load reads it back.                  *)
(*                                                                         *)
(* Several processes may save to one path while another loads it, any      *)
(* library call of a save may fail, a saving process may be killed, the    *)
(* power may be cut, and a byte of the stored file, header or payload, may *)
(* rot.  An image is what one save was asked to write: the process and the *)
(* number of its save.  The payload is four parts - seq, ks, the KV slices *)
(* and the rope slices - each kept as the image it came from, and the hash *)
(* of a payload is the payload itself: FNV-1a as k3_state_hash folds it    *)
(* catches any one damaged byte, and two images are taken to hash          *)
(* differently.  The hash does not cover the header.                       *)
(***************************************************************************)
EXTENDS Integers, Sequences, FiniteSets

CONSTANTS
    Savers,      \* processes that run with --save-state on this path
    Shapes,      \* architectures: fingerprint, bound layers, MLA layers
    ShapeOf,     \* [Savers -> Shapes]
    None,
    Rotten,      \* a part, or a field of the header, with a damaged byte
    MaxSaves,    \* bound: saves ever started
    MaxFlips     \* bound: damaged bytes

Parts  == 4                  \* seq, ks, kv, rope
Images == Savers \X (1 .. MaxSaves)
NoSum  == <<>>               \* the zero hash of the first header

(* A file: the header's magic and version, the image its sizes are those    *)
(* of, the architecture and hash in it, the payload, and whether all of it  *)
(* has been forced to the disk.                                             *)
Bodies  == UNION {[1 .. n -> Images \cup {Rotten}] : n \in 0 .. Parts}
Headers == [magic : BOOLEAN, image : Images \cup {Rotten},
            shape : Shapes \cup {Rotten}, sum : Bodies \cup {Rotten}]
Files   == [hd : Headers, body : Bodies, synced : BOOLEAN]

ASSUME StateFileAssumption ==
    /\ ShapeOf \in [Savers -> Shapes]
    /\ MaxSaves \in Nat /\ MaxFlips \in Nat
    /\ None \notin Images \cup Bodies \cup Headers \cup Files
    /\ Rotten \notin Images \cup Shapes \cup Bodies

VARIABLES
    path,        \* the file the path names, or None
    committed,   \* the file it would name after a power cut
    tmp,         \* [saver] its temporary file, or None
    pc,          \* [saver] where its k3_state_save is
    image,       \* [saver] the image it is writing, or None
    saves,       \* saves started so far
    hd,          \* the header a load has peeked, or None
    want,        \* the architecture of the loading process
    restored,    \* the payload the last load accepted, or None
    flips,
    forged       \* whether a fingerprint has rotted into another one

disk == <<path, committed>>
save == <<tmp, pc, image, saves>>
load == <<hd, want, restored>>
rot  == <<flips, forged>>
vars == <<disk, save, load, rot>>

(* The first n parts of an image, and all of them. *)
Written(i, n) == [p \in 1 .. n |-> i]
Payload(i) == Written(i, Parts)
Shape(i) == ShapeOf[i[1]]
Header(i, sum) == [magic |-> TRUE, image |-> i, shape |-> Shape(i), sum |-> sum]
Whole(f) ==
    /\ f.hd.image \in Images
    /\ f.body = Payload(f.hd.image)
    /\ f.hd = Header(f.hd.image, f.body)

Init ==
    /\ path = None /\ committed = None
    /\ tmp = [s \in Savers |-> None]
    /\ pc = [s \in Savers |-> "idle"]
    /\ image = [s \in Savers |-> None]
    /\ saves = 0
    /\ hd = None /\ want \in Shapes /\ restored = None
    /\ flips = 0 /\ forged = FALSE

Goto(s, from, to) == pc[s] = from /\ pc' = [pc EXCEPT ![s] = to]

-----------------------------------------------------------------------------
(* k3_state_save *)

(* mkstemp, fchmod and fdopen, and the first header, its hash still zero.   *)
Stages(s) ==
    /\ Goto(s, "idle", "payload")
    /\ saves < MaxSaves
    /\ saves' = saves + 1
    /\ image' = [image EXCEPT ![s] = <<s, saves + 1>>]
    /\ tmp' = [tmp EXCEPT ![s] =
                  [hd |-> Header(<<s, saves + 1>>, NoSum), body |-> <<>>, synced |-> FALSE]]
    /\ UNCHANGED <<disk, load, rot>>

(* The next part goes out, and into the running hash. *)
WritesPart(s) ==
    /\ pc[s] = "payload"
    /\ Len(tmp[s].body) < Parts
    /\ tmp' = [tmp EXCEPT ![s].body = Append(@, image[s])]
    /\ UNCHANGED <<pc, image, saves, disk, load, rot>>

(* Mutant: the header is not rewritten. *)
RewritesHeader_Not(s) ==
    /\ Goto(s, "payload", "sync")
    /\ Len(tmp[s].body) = Parts
    /\ UNCHANGED <<tmp, image, saves, disk, load, rot>>

(* fseek to the start and the header again, now with the hash. *)
RewritesHeader(s) ==
    /\ Goto(s, "payload", "sync")
    /\ Len(tmp[s].body) = Parts
    /\ tmp' = [tmp EXCEPT ![s].hd = Header(image[s], tmp[s].body)]
    /\ UNCHANGED <<image, saves, disk, load, rot>>

(* Mutant: fflush only, no fsync. *)
Forces_OnlyFlush(s) ==
    /\ Goto(s, "sync", "publish")
    /\ UNCHANGED <<tmp, image, saves, disk, load, rot>>

(* fflush, fsync and fclose. *)
Forces(s) ==
    /\ Goto(s, "sync", "publish")
    /\ tmp' = [tmp EXCEPT ![s].synced = TRUE]
    /\ UNCHANGED <<image, saves, disk, load, rot>>

Done(s) ==
    /\ pc' = [pc EXCEPT ![s] = "idle"]
    /\ tmp' = [tmp EXCEPT ![s] = None]
    /\ image' = [image EXCEPT ![s] = None]

(* rename: the path changes once, from the old file to the new one. *)
Publishes(s) ==
    /\ pc[s] = "publish"
    /\ path' = tmp[s]
    /\ Done(s)
    /\ UNCHANGED <<committed, saves, load, rot>>

(* Mutant: a failed save is published all the same, rc not looked at. *)
Fails_Publishes(s) ==
    /\ pc[s] # "idle"
    /\ path' = tmp[s]
    /\ Done(s)
    /\ UNCHANGED <<committed, saves, load, rot>>

(* Mutant: the temporary file is not unlinked. *)
Fails_LeavesTemp(s) ==
    /\ pc[s] # "idle"
    /\ pc' = [pc EXCEPT ![s] = "idle"]
    /\ UNCHANGED <<disk, tmp, image, saves, load, rot>>

(* Any call fails: the rest is skipped, the temporary file unlinked.  A     *)
(* process killed here leaves it behind, under a name mkstemp gives nobody  *)
(* else, so that nothing reads it again: the same step.                     *)
Fails(s) ==
    /\ pc[s] # "idle"
    /\ Done(s)
    /\ UNCHANGED <<disk, saves, load, rot>>

-----------------------------------------------------------------------------
(* k3_state_peek, then k3_state_load. *)

(* Only the header is read, its magic and version compared; the file is     *)
(* closed again.                                                            *)
Peeks ==
    /\ hd = None
    /\ restored' = None
    /\ want' \in Shapes
    /\ hd' = IF path = None \/ ~path.hd.magic THEN None ELSE path.hd
    /\ UNCHANGED <<disk, save, rot>>

(* Mutant: the hash is not compared. *)
Accepts_AnyHash ==
    /\ hd.shape = want
    /\ hd.image # Rotten /\ Len(path.body) = Parts

(* Mutant: the fingerprint and the layer counts are not compared. *)
Accepts_AnyShape ==
    /\ hd.image # Rotten /\ Len(path.body) = Parts
    /\ path.body = hd.sum

(* The header must be of this architecture, the payload long enough for the *)
(* sizes the header gives, and its hash what the header says.  The payload  *)
(* is read from the file the path names by now.  Damaged sizes ask for more *)
(* than the file has, or for bytes that hash to something else.             *)
Accepts ==
    /\ hd.shape = want
    /\ hd.image # Rotten /\ Len(path.body) = Parts
    /\ path.body = hd.sum

Loads ==
    /\ hd # None /\ path # None
    /\ hd' = None
    /\ restored' = IF Accepts THEN path.body ELSE None
    /\ UNCHANGED <<disk, save, want, rot>>

-----------------------------------------------------------------------------
(* The file system. *)

(* The directory entry reaches the disk. *)
Commits ==
    /\ committed # path
    /\ committed' = path
    /\ UNCHANGED <<path, save, load, rot>>

(* Of a file that was never forced, a prefix may be all that is left. *)
Survives(f) ==
    IF f = None \/ f.synced THEN {f}
    ELSE {[f EXCEPT !.body = SubSeq(@, 1, n)] : n \in 0 .. Len(f.body)}

PowerCut ==
    /\ path' \in Survives(committed)
    /\ committed' = path'
    /\ pc' = [s \in Savers |-> "idle"]
    /\ tmp' = [s \in Savers |-> None]
    /\ image' = [s \in Savers |-> None]
    /\ hd' = None /\ restored' = None
    /\ UNCHANGED <<saves, want, rot>>

(* A byte rots: f is what is left of the stored file, on the disk too once  *)
(* it is there.                                                             *)
Damages(f) ==
    /\ flips < MaxFlips
    /\ path' = f
    /\ committed' = IF committed = path THEN f ELSE committed
    /\ flips' = flips + 1
    /\ UNCHANGED <<save, load>>

(* A byte of one part of the payload. *)
Rots(p) ==
    /\ path # None /\ p \in DOMAIN path.body
    /\ Damages([path EXCEPT !.body[p] = Rotten])
    /\ UNCHANGED forged

(* A byte of the header: the magic or version, a size or layer count, or    *)
(* the hash.  (Of an architecture without MLA layers `cached` is the size   *)
(* of nothing and outside the hash: not modelled.)                          *)
RotsHeader ==
    /\ path # None
    /\ \/ Damages([path EXCEPT !.hd.magic = FALSE])
       \/ Damages([path EXCEPT !.hd.image = Rotten])
       \/ Damages([path EXCEPT !.hd.sum = Rotten])
    /\ UNCHANGED forged

(* A byte of the fingerprint, which may turn it into another architecture's.*)
RotsShape(shape) ==
    /\ path # None /\ shape # path.hd.shape
    /\ Damages([path EXCEPT !.hd.shape = shape])
    /\ forged' = (forged \/ shape # Rotten)

Next ==
    \/ \E s \in Savers :
          \/ Stages(s) \/ WritesPart(s) \/ RewritesHeader(s)
          \/ Forces(s) \/ Publishes(s) \/ Fails(s)
    \/ Peeks \/ Loads
    \/ Commits \/ PowerCut
    \/ \E p \in 1 .. Parts : Rots(p)
    \/ RotsHeader
    \/ \E shape \in Shapes \cup {Rotten} : RotsShape(shape)

Spec == Init /\ [][Next]_vars

-----------------------------------------------------------------------------
(* Properties *)

(* Type correctness; a k3_state_save that has returned, with or without an  *)
(* error, leaves no temporary file.                                         *)
TypeOK ==
    /\ path \in Files \cup {None} /\ committed \in Files \cup {None}
    /\ tmp \in [Savers -> Files \cup {None}]
    /\ pc \in [Savers -> {"idle", "payload", "sync", "publish"}]
    /\ image \in [Savers -> Images \cup {None}]
    /\ saves \in 0 .. MaxSaves
    /\ hd \in Headers \cup {None} /\ want \in Shapes
    /\ restored \in Bodies \cup {None}
    /\ flips \in 0 .. MaxFlips /\ forged \in BOOLEAN
    /\ \A s \in Savers : pc[s] = "idle" <=> tmp[s] = None

(* k3_state_save never leaves a file that cannot be loaded: the path and    *)
(* what a power cut would leave of it are complete files with a matching    *)
(* hash at every instant, whoever is saving, failing or being killed.       *)
PathWhole ==
    flips = 0 => \A f \in {path, committed} : f # None => Whole(f)

(* k3_state_load restores one image, whole, that a process of the loading   *)
(* one's architecture saved, even when the path was replaced between the    *)
(* peek and the load and whatever byte is damaged, with one exception: the  *)
(* hash does not cover the header, so a fingerprint that has itself rotted  *)
(* into another architecture's lets that one load the image.                *)
LoadExact ==
    restored # None =>
        \E i \in Images :
            restored = Payload(i) /\ (Shape(i) = want \/ forged)

(* Why they hold.  A save has written what its stage says and nothing else, *)
(* and forced all of it before it publishes; a published file was whole and *)
(* forced, whatever has rotted since; a peeked header is that of a file     *)
(* once published.                                                          *)
HeaderOf(h, i) ==
    /\ h.image \in {i, Rotten} /\ h.sum \in {Payload(i), Rotten}
    /\ forged \/ h.shape \in {Shape(i), Rotten}

PublishedAs(f, i) ==
    /\ HeaderOf(f.hd, i)
    /\ f.body \in [1 .. Parts -> {i, Rotten}]
    /\ f.synced
    /\ flips = 0 => Whole(f)

Published(f) == \E i \in Images : PublishedAs(f, i)

Staged(s) ==
    /\ image[s] \in Images
    /\ tmp[s].hd = Header(image[s], tmp[s].hd.sum)
    /\ \E n \in 0 .. Parts :
          /\ tmp[s].body = Written(image[s], n)
          /\ pc[s] \in {"sync", "publish"} => n = Parts
    /\ pc[s] \in {"sync", "publish"} => tmp[s].hd.sum = Payload(image[s])
    /\ pc[s] = "publish" => tmp[s].synced

IInv ==
    /\ TypeOK
    /\ \A s \in Savers : pc[s] # "idle" => Staged(s)
    /\ path # None => Published(path)
    /\ committed # None => Published(committed)
    /\ hd # None => \E i \in Images : HeaderOf(hd, i)
    /\ LoadExact

(* The state file is the register of StateStore: every step of every save,  *)
(* load, failure and power cut changes its image at once or not at all.     *)
(* The image is the payload: of a damaged header, a load can but refuse it. *)
Intact(f) == \E i \in Images : f.body = Payload(i)
ImageOf(f) == IF f = None \/ ~Intact(f) THEN None ELSE f.body[1]
Store == INSTANCE StateStore WITH
    held     <- ImageOf(path),
    settled  <- ImageOf(committed),
    restored <- IF restored = None THEN None ELSE restored[1],
    damage   <- flips
KeepsStore == Store!Spec
=============================================================================
