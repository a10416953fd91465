---------------------------- MODULE ContentStore ----------------------------
(***************************************************************************)
(* ContentStore (crates/brygge-ir/src/content.rs) with its four backings:  *)
(* memory, a private spill file, an artifact of contract 0.2.0 read by     *)
(* offset, and one of 0.3.0 whose frames are inflated again, the last few  *)
(* kept.  A store has an index from ids to places; memory's places are the *)
(* bytes.                                                                  *)
(***************************************************************************)
EXTENDS Frames

CONSTANTS
    CacheFrames,    \* how many inflated frames are kept
    MaxFaults       \* how often the disk fails

ASSUME ContentStoreConstants == CacheFrames \in Nat \ {0}

VARIABLES
    store,      \* the store: its backing and its index
    spill,      \* the cells of the spill file
    cache,      \* frames kept inflated, oldest first
    artifact,   \* the file, if there is one
    faulty,     \* whether the disk failed, or the file was changed
    faults,     \* how often: bounds the model
    answer      \* what the last call returned

storeVars == <<store, spill, cache, artifact, faulty, faults, answer>>

Closed == [backing |-> "closed", index |-> <<>>, frames |-> <<>>]
Empty(backing) == [Closed EXCEPT !.backing = backing]

Answer(blob, what, bytes) == [blob |-> blob, what |-> what, bytes |-> bytes]
NoAnswer == Answer(0, "nothing", <<>>)
Found(b, bytes) == answer' = Answer(b, "found", bytes)
Failed(b) == answer' = Answer(b, "error", <<>>)

Held == DOMAIN store.index

CanFail == faults < MaxFaults

DiskFails == CanFail /\ faults' = faults + 1 /\ faulty' = TRUE

-----------------------------------------------------------------------------
(* insert.  In the spill file the bytes go behind whatever it holds, and   *)
(* the index names them only when all of them are written.                 *)
Indexed(b, place) ==
    [store EXCEPT !.index = [c \in {b} \cup DOMAIN @ |-> IF c = b THEN place ELSE @[c]]]

\* seek(End(0)).
EndOfSpill == Len(spill)

\* A write at an offset, over what is there.
Written(bytes) ==
    SubSeq(spill, 1, EndOfSpill) \o bytes \o SubSeq(spill, EndOfSpill + Len(bytes) + 1, Len(spill))

insert(b) ==
    /\ \/ /\ b \in Held
          /\ UNCHANGED <<store, spill>>
       \/ /\ b \notin Held /\ store.backing = "memory"
          /\ store' = Indexed(b, Content(b)) /\ UNCHANGED spill
       \/ /\ b \notin Held /\ store.backing = "file"
          /\ store' = Indexed(b, [at |-> EndOfSpill, len |-> Size[b]])
          /\ spill' = Written(Content(b))
    /\ answer' = Answer(b, "stored", <<>>)
    /\ UNCHANGED <<cache, artifact, faulty, faults>>

(* Seeded mistake: the entry is made before the write.                     *)
IndexedAnyway(b) == Indexed(b, [at |-> EndOfSpill, len |-> Size[b]])

\* `?` returns before the index has an entry.
AfterFailure(b) == store

\* write_all fails with some of the bytes written.
InsertFails(b) ==
    /\ b \notin Held /\ store.backing = "file" /\ DiskFails
    /\ \E part \in 0..(IF Size[b] = 0 THEN 0 ELSE Size[b] - 1) :
          spill' = Written(SubSeq(Content(b), 1, part))
    /\ store' = AfterFailure(b) /\ Failed(b)
    /\ UNCHANGED <<cache, artifact>>

-----------------------------------------------------------------------------
(* get.                                                                    *)
Place(b) == store.index[b]

\* The re-hash: what is read is the blob, or the artifact has changed.
Rehashed(b, bytes) == IF BlobOf(bytes) = {b} THEN Found(b, bytes) ELSE Failed(b)

GetFromMemory(b) == store.backing = "memory" /\ Found(b, Place(b)) /\ UNCHANGED cache

GetFromSpill(b) ==
    /\ store.backing = "file"
    /\ Found(b, Cut(spill, Place(b).at, Place(b).len))
    /\ UNCHANGED cache

GetFromArtifact(b) ==
    /\ store.backing = "artifact"
    /\ Rehashed(b, Cut(artifact.body, Place(b).at, Place(b).len))
    /\ UNCHANGED cache

(* Seeded mistake: any cached frame will do.                               *)
AnyCached(k) == {n \in DOMAIN cache : TRUE}

CachedAt(k) == {n \in DOMAIN cache : cache[n].frame = k}

\* inflate_frame at the place the verifying pass noted, with what it noted of its lengths.
NotedFrame(k) ==
    IF k \in DOMAIN artifact.frames
    THEN {[store.frames[k] EXCEPT !.gives = artifact.frames[k].gives]}
    ELSE {}

InflatedAgain(k) == UNION {Inflated(f) : f \in NotedFrame(k)}

Kept(k, raw) ==
    Append(IF Len(cache) >= CacheFrames THEN Tail(cache) ELSE cache, [frame |-> k, raw |-> raw])

GetFromFrame(b) ==
    LET k == Place(b).frame  whole == Place(b).len = store.frames[k].rawLen
        Slice(raw) == Rehashed(b, Cut(raw, Place(b).at, Place(b).len))
    IN  /\ store.backing = "compact"
        /\ \/ /\ ~whole /\ CachedAt(k) # {}
              /\ \E n \in CachedAt(k) : Slice(cache[n].raw)
              /\ UNCHANGED cache
           \/ /\ whole \/ CachedAt(k) = {}
              /\ \E raw \in InflatedAgain(k) :
                    Slice(raw) /\ cache' = IF whole THEN cache ELSE Kept(k, raw)
           \/ /\ whole \/ CachedAt(k) = {}
              /\ InflatedAgain(k) = {} /\ Failed(b) /\ UNCHANGED cache

get(b) ==
    /\ \/ b \notin Held /\ answer' = Answer(b, "absent", <<>>) /\ UNCHANGED cache
       \/ /\ b \in Held
          /\ GetFromMemory(b) \/ GetFromSpill(b) \/ GetFromArtifact(b) \/ GetFromFrame(b)
    /\ UNCHANGED <<store, spill, artifact, faulty, faults>>

\* A read that the disk refuses.
GetFails(b) ==
    /\ b \in Held /\ store.backing # "memory" /\ DiskFails
    /\ Failed(b)
    /\ UNCHANGED <<store, spill, cache, artifact>>

(* blob_len: the index knows it.                                           *)
blob_len(b) == IF store.backing = "memory" THEN Len(Place(b)) ELSE Place(b).len

(* Seeded mistake: nothing is let go.                                      *)
KeepAll(keep) == store

(* retain: only the index forgets.                                         *)
Retained(keep) == [store EXCEPT !.index = Restrict(@, keep \cap DOMAIN @)]

-----------------------------------------------------------------------------
(* from_bytes fills a store in memory; read_from keeps the file, and notes *)
(* where each blob is.                                                     *)
InMemory(art) ==
    LET BytesOf(n) == IF art.contract = 2 THEN Body2(art, n) ELSE PieceOf(art, n)
        At(b) == CHOOSE n \in DOMAIN art.table : art.table[n].id = b
    IN  [Empty("memory") EXCEPT !.index = [b \in Range(Ids(art.table)) |-> BytesOf(At(b))]]

ByOffset(art) ==
    LET At(b) == CHOOSE n \in DOMAIN art.table : art.table[n].id = b
    IN  [Empty("artifact") EXCEPT !.index =
            [b \in Range(Ids(art.table)) |->
                [at |-> Offset(Lens(art.table), At(b)), len |-> art.table[At(b)].len]]]

ByFrame(art) ==
    LET lens == Lens(art.table)
        At(b) == CHOOSE n \in DOMAIN art.table : art.table[n].id = b
        FrameOf(n) == CHOOSE k \in DOMAIN Plan(lens) : n \in Plan(lens)[k].from..Plan(lens)[k].upto
    IN  [backing |-> "compact", frames |-> art.frames,
         index |-> [b \in Range(Ids(art.table)) |->
                      LET k == FrameOf(At(b)) IN
                      [frame |-> k, len |-> lens[At(b)],
                       at |-> Offset(lens, At(b)) - Offset(lens, Plan(lens)[k].from)]]]

read_from(art) == IF art.contract = 2 THEN ByOffset(art) ELSE ByFrame(art)
=============================================================================
