---------------------------- MODULE ArtifactFile ----------------------------
(***************************************************************************)
(* A store is filled, finished, written as an artifact (write_to_inner and *)
(* write_blob_frames of crates/brygge-ir/src/artifact.rs, which compresses *)
(* frames on several threads, a window at a time), read back (from_bytes   *)
(* or read_from) and asked again, while the disk may fail and, once        *)
(* written, the file may be changed by something else.                     *)
(***************************************************************************)
EXTENDS ContentStore

CONSTANTS
    Irs,            \* what may be built: who uses which blob
    Workers,        \* available_parallelism, at most 8
    Window,         \* PARALLEL_WINDOW
    MaxChanges      \* how often the file is changed

ASSUME ArtifactFileConstants ==
    /\ Workers \in Nat \ {0} /\ Window \in Nat /\ Window >= FrameCap
    /\ \A x \in Irs :
          /\ Len(x) \in Nat /\ DOMAIN x = 1..Len(x)
          /\ \A a \in DOMAIN x : /\ IsFiniteSet(DOMAIN x[a]) /\ DOMAIN x[a] \subseteq Nat
                                 /\ \A p \in DOMAIN x[a] : x[a][p] \in Blobs \cup {0}

VARIABLES
    ir,         \* what is built: never written
    stage,      \* build, gather, compress, written, open, or failed
    writer,     \* write_blob_frames: the next frame, the next blob, a frame gathered and not
                \* yet placed, the window's frames, the frames written, and what was hashed
    slots,      \* what the threads have made of the window's frames: none or one each
    changes     \* how often the file was changed: bounds the model

vars == <<storeVars, ir, stage, writer, slots, changes>>

NoWriter == [next |-> 1, blob |-> 1, gathered |-> {}, window |-> <<>>, out |-> <<>>, hashed |-> <<>>]

Order == store_order(ir)
OrderLens == [n \in DOMAIN Order |-> Size[Order[n]]]
FramePlan == Plan(OrderLens)
Table == TableOf(Order, OrderLens)

(* An artifact this brygge did not write: of contract 0.2.0, or one whose  *)
(* frames are not compressed.                                              *)
ById == InOrder(Referenced(ir), {pair \in Referenced(ir) \X Referenced(ir) : pair[1] < pair[2]})

OldArtifact ==
    LET lens == [n \in DOMAIN ById |-> Size[ById[n]]] IN
    Artifact2(Metadata(ir), TableOf(ById, lens), FlattenSeq([n \in DOMAIN ById |-> Content(ById[n])]))

StoredArtifact ==
    LET content == FlattenSeq([n \in DOMAIN Order |-> Content(Order[n])])
        Frame(k) == Cut(content, Offset(OrderLens, FramePlan[k].from), FramePlan[k].len)
    IN  Artifact3(Metadata(ir), Table, [k \in DOMAIN FramePlan |-> Stored(Frame(k))],
                  Digest(Metadata(ir), Table, content))

Init ==
    /\ ir \in Irs
    /\ \/ /\ stage = "build" /\ store \in {Empty("memory"), Empty("file")}
          /\ artifact = Closed
       \/ /\ stage = "written" /\ store = Closed
          /\ artifact = OldArtifact \/ artifact = StoredArtifact
    /\ spill = <<>> /\ cache = <<>> /\ faulty = FALSE /\ faults = 0
    /\ answer = NoAnswer
    /\ writer = NoWriter /\ slots = <<>> /\ changes = 0

-----------------------------------------------------------------------------
(* The store while it is built, and while the artifact is open.            *)
Store(action) == action /\ UNCHANGED <<ir, stage, writer, slots, changes>>

Insert(b) == stage = "build" /\ Store(insert(b))
InsertBreaks(b) == stage = "build" /\ Store(InsertFails(b))
Get(b) == stage \in {"build", "open"} /\ Store(get(b))
GetBreaks(b) == stage \in {"build", "open"} /\ Store(GetFails(b))

\* What a failed write or read leaves: a typed error, and nothing else.
GiveUp ==
    /\ stage' = "failed"
    /\ store' = Closed /\ artifact' = Closed /\ cache' = <<>> /\ spill' = <<>>
    /\ writer' = NoWriter /\ slots' = <<>>

(* IrBuilder::finish, then write_to_inner up to the blob frames: what no   *)
(* operation names is let go, and an orphan refused.                       *)
Write ==
    /\ stage = "build" /\ Referenced(ir) \subseteq Held
    /\ store' = Retained(Referenced(ir))
    /\ stage' = IF Len(Order) = Cardinality(DOMAIN store'.index) THEN "gather" ELSE "failed"
    /\ writer' = NoWriter /\ answer' = NoAnswer
    /\ UNCHANGED <<spill, cache, artifact, faulty, faults, ir, slots, changes>>

(* One frame's bytes: blobs are read, and hashed, until there are as many  *)
(* as the plan says.                                                       *)
BytesAt(b) ==
    IF store.backing = "memory" THEN Place(b) ELSE Cut(spill, Place(b).at, Place(b).len)

\* The bytes of the blobs from the next one up to the n-th.
Through(n) ==
    FlattenSeq([i \in 1..(n - writer.blob + 1) |-> BytesAt(Order[writer.blob + i - 1])])

UpTo(len) ==
    CHOOSE n \in writer.blob - 1..Len(Order) :
        Len(Through(n)) >= len /\ \A m \in writer.blob - 1..(n - 1) : Len(Through(m)) < len

Gather ==
    /\ stage = "gather" /\ writer.gathered = {} /\ writer.next <= Len(FramePlan)
    /\ LET upto == UpTo(FramePlan[writer.next].len)
       IN  writer' = [writer EXCEPT !.gathered = {Through(upto)}, !.next = @ + 1, !.blob = upto + 1,
                                    !.hashed = @ \o Through(upto)]
    /\ UNCHANGED <<storeVars, ir, stage, slots, changes>>

(* A frame joins the window while there is room; one as large as the       *)
(* window is written alone, behind what is queued before it.               *)
WindowTotal == SumOf([n \in DOMAIN writer.window |-> Len(writer.window[n])])

(* Seeded mistake: a frame written alone does not wait for the queue.      *)
FlushesWhenFull(raw) ==
    writer.window # <<>> /\ Len(raw) < Window /\ WindowTotal + Len(raw) > Window

Flushes(raw) ==
    writer.window # <<>> /\ (Len(raw) >= Window \/ WindowTotal + Len(raw) > Window)

StartFlush ==
    /\ stage' = "compress"
    /\ slots' = [n \in DOMAIN writer.window |-> {}]
    /\ UNCHANGED <<storeVars, ir, writer, changes>>

PlaceFrame ==
    /\ stage = "gather"
    /\ \E raw \in writer.gathered :
          \/ Flushes(raw) /\ StartFlush
          \/ /\ ~Flushes(raw)
             /\ writer' = IF Len(raw) >= Window
                          THEN [writer EXCEPT !.gathered = {}, !.out = Append(@, compress_frame(raw))]
                          ELSE [writer EXCEPT !.gathered = {}, !.window = Append(@, raw)]
             /\ UNCHANGED <<storeVars, ir, stage, slots, changes>>

FlushLast ==
    /\ stage = "gather" /\ writer.gathered = {} /\ writer.next > Len(FramePlan)
    /\ writer.window # <<>> /\ StartFlush

(* compress_many_parallel: each thread has its own run of the window's     *)
(* frames, and of the slots, and goes through it in order.                 *)
RunLength ==
    LET workers == IF Workers < Len(writer.window) THEN Workers ELSE Len(writer.window)
    IN  (Len(writer.window) + workers - 1) \div workers

RunOf(worker) == {n \in DOMAIN writer.window : (n - 1) \div RunLength = worker - 1}

Compress(worker) ==
    /\ stage = "compress"
    /\ \E n \in RunOf(worker) :
          /\ slots[n] = {} /\ \A m \in RunOf(worker) : m < n => slots[m] # {}
          /\ slots' = [slots EXCEPT ![n] = {compress_frame(writer.window[n])}]
    /\ UNCHANGED <<storeVars, ir, stage, writer, changes>>

\* flush_pending, when the scope's threads have ended.
Flush ==
    /\ stage = "compress" /\ \A n \in DOMAIN slots : slots[n] # {}
    /\ writer' = [writer EXCEPT !.window = <<>>,
                                !.out = @ \o [n \in DOMAIN slots |-> CHOOSE f \in slots[n] : TRUE]]
    /\ stage' = "gather" /\ slots' = <<>>
    /\ UNCHANGED <<storeVars, ir, changes>>

\* The digest goes to its place at the head, and the building store is gone.
FinishWriting ==
    /\ stage = "gather" /\ writer.gathered = {} /\ writer.next > Len(FramePlan) /\ writer.window = <<>>
    /\ artifact' = Artifact3(Metadata(ir), Table, writer.out,
                             Digest(Metadata(ir), Table, writer.hashed))
    /\ stage' = "written" /\ store' = Closed /\ spill' = <<>> /\ writer' = NoWriter
    /\ UNCHANGED <<cache, faulty, faults, answer, ir, slots, changes>>

\* A write to the artifact, or a read of a blob for it, fails.
WriteBreaks ==
    /\ stage \in {"gather", "compress"} /\ DiskFails
    /\ GiveUp /\ UNCHANGED <<answer, ir, changes>>

-----------------------------------------------------------------------------
(* Reading it back.                                                        *)
Open ==
    /\ stage = "written"
    /\ \/ /\ Reads(artifact)
          /\ store' = InMemory(artifact) \/ store' = read_from(artifact)
          /\ stage' = "open"
          /\ UNCHANGED <<artifact, cache, spill, writer, slots>>
       \/ ~Reads(artifact) /\ GiveUp
    /\ UNCHANGED <<faulty, faults, answer, ir, changes>>

(* What else may become of the file: a frame, or the body, holds other     *)
(* bytes, of the same length or another, or does not inflate; two frames   *)
(* change places; it is cut short, or longer.                              *)
Spoilt(raw) == {[raw EXCEPT ![n] = Junk] : n \in DOMAIN raw} \cup {Append(raw, Junk)}

OtherFrames(frames) ==
    {[frames EXCEPT ![k].gives = {}] : k \in DOMAIN frames}
    \cup (UNION {{[frames EXCEPT ![k].gives = {raw}] : raw \in Spoilt(Raw(frames[k]))} :
                   k \in {i \in DOMAIN frames : Inflates(frames[i])}})
    \cup {[frames EXCEPT ![k] = frames[j], ![j] = frames[k]] : k \in DOMAIN frames, j \in DOMAIN frames}
    \cup {SubSeq(frames, 1, k) : k \in 0..(Len(frames) - 1)}

ChangedFrames(art) == {[art EXCEPT !.frames = frames] : frames \in OtherFrames(art.frames)}

ChangedBody(art) ==
    {[art EXCEPT !.body = bytes] :
        bytes \in Spoilt(art.body) \cup {SubSeq(art.body, 1, k) : k \in 0..(Len(art.body) - 1)}}

Changed(art) ==
    {[art EXCEPT !.trailing = TRUE]}
    \cup {[art EXCEPT !.table = Reverse(@)]}
    \cup (IF art.contract = 2 THEN ChangedBody(art) ELSE ChangedFrames(art))

FileChanges ==
    /\ stage \in {"written", "open"} /\ changes < MaxChanges
    /\ artifact' \in Changed(artifact)
    /\ changes' = changes + 1 /\ faulty' = TRUE
    /\ UNCHANGED <<store, spill, cache, faults, answer, ir, stage, writer, slots>>

Next ==
    \/ \E b \in Blobs : Insert(b) \/ InsertBreaks(b) \/ Get(b) \/ GetBreaks(b)
    \/ Write \/ Gather \/ PlaceFrame \/ FlushLast
    \/ \E worker \in 1..Workers : Compress(worker)
    \/ Flush \/ FinishWriting \/ WriteBreaks \/ Open \/ FileChanges

Spec == Init /\ [][Next]_vars

-----------------------------------------------------------------------------
(* Whatever the backing, whatever the threads' turns, and through being    *)
(* written and read back, the store is a store of blobs: it gives exactly  *)
(* what was put in, and what fails or is refused fails only after the disk *)
(* failed or the file was changed.                                         *)
HeldBlobs ==
    CASE stage = "written" -> Referenced(ir)
      [] stage = "failed"  -> {}
      [] OTHER             -> Held

Blob == INSTANCE BlobStore WITH
    needed <- Referenced(ir), held <- HeldBlobs, sealed <- (stage # "build")

StoresBlobs == Blob!Behaves
=============================================================================
