------------------------------- MODULE Frames -------------------------------
(***************************************************************************)
(* What an artifact holds of the blobs (crates/brygge-ir/src/artifact.rs,  *)
(* artifact/frame.rs): the order they are stored in, the plan that packs   *)
(* them into frames, a frame and what it inflates to, the digest of the    *)
(* logical stream, and the readers of contracts 0.2.0 and 0.3.0.           *)
(*                                                                         *)
(* A blob is its id, a number, as ids have an order; its bytes are cells   *)
(* that name it, so bytes hash to an id exactly when they are its own.     *)
(* What a frame's stored bytes are is left out: a frame has what it        *)
(* inflates to, if it does, and its two lengths.  A place in the file is   *)
(* the number of the frame, or of the cell.                                *)
(***************************************************************************)
EXTENDS Naturals, SequencesExt

CONSTANTS
    Blobs,          \* the ids
    Size,           \* the length of each
    Compressible,   \* the ones DEFLATE makes smaller
    FrameCap        \* FRAME_CAP

ASSUME FramesConstants ==
    /\ Blobs \subseteq Nat \ {0} /\ Size \in [Blobs -> Nat] /\ FrameCap \in Nat \ {0}
    /\ \A b, c \in Blobs : Size[b] = 0 /\ Size[c] = 0 => b = c

Content(b) == [n \in 1..Size[b] |-> <<b, n>>]

(* BlobId::of: the one blob these bytes are, or none that matters here.    *)
BlobOf(bytes) == {b \in Blobs : Content(b) = bytes}

\* What stands where bytes were changed.
Junk == <<0, 0>>

\* Where each of pieces that follow one another ends.
Ends(lens) ==
    LET end[n \in 0..Len(lens)] == IF n = 0 THEN 0 ELSE end[n - 1] + lens[n]
    IN  end

SumOf(lens) == Ends(lens)[Len(lens)]

\* The bytes from a place on, fewer at the end of what there is.
Cut(bytes, at, len) == SubSeq(bytes, at + 1, IF at + len <= Len(bytes) THEN at + len ELSE Len(bytes))

\* Where the n-th piece begins.
Offset(lens, n) == Ends(lens)[n - 1]

-----------------------------------------------------------------------------
(* store_order: each blob at its first use, in the order of the atoms and  *)
(* of the paths within one; then by the path of that use, and the atom.    *)
(* An IR is here what each of its atoms puts at which path, 0 a deletion.  *)
UsesOf(ir) ==
    UNION {{[atom |-> a, path |-> p, blob |-> ir[a][p]] : p \in DOMAIN ir[a]} : a \in DOMAIN ir}

Referenced(ir) == {u.blob : u \in UsesOf(ir)} \ {0}

FirstUse(ir, b) ==
    CHOOSE u \in UsesOf(ir) :
        /\ u.blob = b
        /\ \A v \in UsesOf(ir) :
              v.blob = b => v.atom > u.atom \/ (v.atom = u.atom /\ v.path >= u.path)

StoredBefore(ir) ==
    {pair \in Referenced(ir) \X Referenced(ir) :
        LET u == FirstUse(ir, pair[1])  v == FirstUse(ir, pair[2])
        IN  u.path < v.path \/ (u.path = v.path /\ u.atom < v.atom)}

\* The elements of a set in an order that is given as the pairs in order.
InOrder(S, before) ==
    [n \in 1..Cardinality(S) |->
        CHOOSE b \in S : Cardinality({c \in S : <<c, b>> \in before}) = n - 1]

store_order(ir) == InOrder(Referenced(ir), StoredBefore(ir))

-----------------------------------------------------------------------------
(* canonical_frame_plan: blobs join a frame while it stays within the cap, *)
(* one above the cap is a frame of its own.                                *)
Joins(frames, len) == frames # <<>> /\ Last(frames).len + len <= FrameCap

Planned(frames, n, len) ==
    IF Joins(frames, len)
    THEN [frames EXCEPT ![Len(frames)] = [len |-> @.len + len, from |-> @.from, upto |-> n]]
    ELSE Append(frames, [len |-> len, from |-> n, upto |-> n])

Plan(lens) ==
    LET plan[n \in 0..Len(lens)] == IF n = 0 THEN <<>> ELSE Planned(plan[n - 1], n, lens[n])
    IN  plan[Len(lens)]

(* fixed_chunk_lens: metadata is cut at the cap.                           *)
Chunks(bytes) ==
    [k \in 1..((Len(bytes) + FrameCap - 1) \div FrameCap) |->
        SubSeq(bytes, (k - 1) * FrameCap + 1, IF k * FrameCap < Len(bytes) THEN k * FrameCap ELSE Len(bytes))]

Stored(raw) == [codec |-> "stored", rawLen |-> Len(raw), storedLen |-> Len(raw), gives |-> {raw}]

(* compress_frame: stored as it is when DEFLATE is not smaller.            *)
Compressed(raw, shrinks) ==
    IF shrinks THEN [Stored(raw) EXCEPT !.codec = "deflate", !.storedLen = Len(raw) - 1]
    ELSE Stored(raw)

compress_frame(raw) == Compressed(raw, \E n \in DOMAIN raw : raw[n][1] \in Compressible)

(* check_frame_bounds.                                                     *)
BoundsHold(frame) ==
    CASE frame.codec = "stored"  -> frame.storedLen = frame.rawLen
      [] frame.codec = "deflate" -> frame.rawLen <= 1032 * frame.storedLen + 64

(* inflate_streamed: exactly raw_len bytes, or an error.                   *)
Inflated(frame) == {raw \in frame.gives : Len(raw) = frame.rawLen}

Inflates(frame) == BoundsHold(frame) /\ Inflated(frame) # {}

Raw(frame) == CHOOSE raw \in Inflated(frame) : TRUE

-----------------------------------------------------------------------------
(* An artifact.                                                            *)
Metadata(ir) == [n \in 1..(Len(ir) + 1) |-> <<ir, n>>]

TableOf(order, lens) == [n \in DOMAIN order |-> [id |-> order[n], len |-> lens[n]]]

Lens(table) == [n \in DOMAIN table |-> table[n].len]
Ids(table) == [n \in DOMAIN table |-> table[n].id]

(* The digest of the logical stream, hash_header_and_table and then each   *)
(* blob's bytes; of the stored bytes, which hold the same, in 0.2.0.       *)
Digest(metadata, table, content) == [metadata |-> metadata, table |-> table, content |-> content]

MetaFrames(metadata) ==
    [k \in DOMAIN Chunks(metadata) |-> Compressed(Chunks(metadata)[k], Len(Chunks(metadata)[k]) > 1)]

Artifact3(metadata, table, frames, digest) ==
    [contract |-> 3, digest |-> digest, meta |-> MetaFrames(metadata), table |-> table,
     nframes |-> Len(frames), frames |-> frames, trailing |-> FALSE]

RawOf(frames) == FlattenSeq([k \in DOMAIN frames |-> Raw(frames[k])])

(* BlobBoundaryWalker: the blobs of the table whose bytes, cut out of what *)
(* their frame gives, are not theirs.                                      *)
PieceOf(art, n) ==
    LET lens  == Lens(art.table)
        k     == CHOOSE i \in DOMAIN Plan(lens) : n \in Plan(lens)[i].from..Plan(lens)[i].upto
        first == Plan(lens)[k].from
    IN  Cut(Raw(art.frames[k]), Offset(lens, n) - Offset(lens, first), lens[n])

Mismatches(art) == {n \in DOMAIN art.table : BlobOf(PieceOf(art, n)) # {art.table[n].id}}

(* check_meta_frame_plan.                                                  *)
MetaFramesFit(frames) ==
    \A k \in DOMAIN frames :
        IF k = Len(frames) THEN frames[k].rawLen <= FrameCap ELSE frames[k].rawLen = FrameCap

(* The frames are the ones the plan asks for.                              *)
Canonical(art) ==
    LET plan == Plan(Lens(art.table))
    IN  /\ art.nframes = Len(plan) /\ Len(art.frames) = art.nframes
        /\ \A k \in DOMAIN plan : art.frames[k].rawLen = plan[k].len

(* from_bytes_v3 and read_from_v3: the plan of the frames is checked       *)
(* before any is inflated, and the digest before the rest is believed.     *)
(* Which check it is that refuses an artifact is left out.                 *)
IrIn(metadata) == Head(metadata)[1]

Reads3(art) ==
    /\ MetaFramesFit(art.meta) /\ \A k \in DOMAIN art.meta : Inflates(art.meta[k])
    /\ Canonical(art) /\ \A k \in DOMAIN art.frames : Inflates(art.frames[k])
    /\ art.digest = Digest(RawOf(art.meta), art.table, RawOf(art.frames))
    /\ ~art.trailing
    /\ Ids(art.table) = store_order(IrIn(RawOf(art.meta)))
    /\ Mismatches(art) = {}

(* from_bytes_v2 and read_from_v2 with read_body_v2 and tiebreak: blobs in *)
(* the order of their ids, one after the other.                            *)
Artifact2(metadata, table, body) ==
    [contract |-> 2, digest |-> Digest(metadata, table, body), meta |-> metadata, table |-> table,
     body |-> body, trailing |-> FALSE]

Body2(art, n) == Cut(art.body, Offset(Lens(art.table), n), art.table[n].len)

Reads2(art) ==
    /\ art.digest = Digest(art.meta, art.table, art.body)
    /\ ~art.trailing
    /\ \A n \in 2..Len(art.table) : art.table[n - 1].id < art.table[n].id
    /\ SumOf(Lens(art.table)) <= Len(art.body)
    /\ \A n \in DOMAIN art.table : BlobOf(Body2(art, n)) = {art.table[n].id}

Reads(art) == IF art.contract = 2 THEN Reads2(art) ELSE Reads3(art)
=============================================================================
