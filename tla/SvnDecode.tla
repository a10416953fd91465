----------------------------- MODULE SvnDecode -----------------------------
(***************************************************************************)
(* The Subversion decoder (crates/brygge-decode-svn): the dump is loaded   *)
(* from a file or captured from svnadmin (Capture), parsed record by       *)
(* record, and its revisions are replayed node by node into a live tree,   *)
(* each revision an atom that holds the difference of two trees.           *)
(*                                                                         *)
(* A source (`input` when its kind is "svn") is                            *)
(*   place    "dumpfile", "repository", or what makes it neither           *)
(*   dump     the records of a dumpfile                                    *)
(*   program  what svnadmin does for a repository (Capture): the items it  *)
(*            writes to "out" are the records of its dump                  *)
(*   version  whether svnadmin --version prints a usable version           *)
(*   refs     the option --reconstruct-refs, with the default layout       *)
(* A record is one unit of Capture's ceilings.  Texts are strings; a       *)
(* stated checksum is the text it is the checksum of.  What may be absent  *)
(* is a set of at most one value.  A path is what its slashes separate, so *)
(* that the root's is <<"">>.                                              *)
(***************************************************************************)
EXTENDS Decoding, Capture

CONSTANT MaxNodeText     \* Limits.max_node_text_bytes

(* A dump is records, wherever it comes from, and paths are lists of names. *)
IsRecord(rec) ==
    rec.rec = "node" => /\ rec.path \in Seq(STRING)
                        /\ \A c \in rec.from : c.path \in Seq(STRING)

IsDump(source) ==
    /\ source.dump \in Seq(ToSet(source.dump))
    /\ \A rec \in ToSet(source.dump) : IsRecord(rec)
    /\ \A n \in 1..Len(source.program.writes) : IsRecord(source.program.writes[n].item)

ASSUME SvnLimits == MaxNodeText \in Nat

VARIABLES
    dump,       \* what is parsed: how many records, the format version, the revisions
    applied,    \* how many nodes of the current revision are applied
    live,       \* the tree the previous revision left
    tree,       \* the tree the current revision is making
    copied,     \* the copies of the current revision
    kept,       \* the trees of the revisions a copy names
    heads,      \* for each root touched, the last atom that touched it
    spent,      \* Budget.reconstructed
    svnLoss     \* Loss: the kinds of property seen, the empty directories, the dates

treeVars == <<applied, live, tree, copied, kept, heads, spent, svnLoss>>
svnVars == <<dump, treeVars>>

NoSvnLoss == [properties |-> {}, emptyDirs |-> 0, dates |-> 0]

SvnIdle ==
    /\ dump = [at |-> 0, version |-> {}, revisions |-> <<>>]
    /\ applied = 0 /\ live = EmptyTree /\ tree = EmptyTree /\ copied = {}
    /\ kept = EmptyTree /\ heads = EmptyTree /\ spent = 0 /\ svnLoss = NoSvnLoss

-----------------------------------------------------------------------------
(* source.rs: where the dump comes from.                                   *)

Records == IF input.place = "dumpfile" THEN input.dump ELSE stdout

LoadDump ==
    /\ stage = "svn load"
    /\ \/ /\ input.place = "dumpfile" /\ Len(input.dump) <= MaxDump
          /\ Goto("svn parse") /\ UNCHANGED builder
       \/ /\ input.place = "dumpfile" /\ Len(input.dump) > MaxDump
          /\ Fail("dumpstream limit")
       \/ /\ input.place \in {"url", "absent", "neither"}
          /\ Fail(input.place)
       \/ /\ input.place = "repository"
          /\ Goto("svn capture") /\ UNCHANGED builder
    /\ UNCHANGED svnVars

Captured ==
    /\ stage = "svn capture" /\ CaptureEnded
    /\ \/ /\ reader = "captured"
          /\ Goto("svn parse") /\ UNCHANGED builder
       \/ /\ reader # "captured"
          /\ Fail(reader)
    /\ UNCHANGED svnVars

-----------------------------------------------------------------------------
(* dumpstream.rs, one record at a time.                                    *)

DeltaFault(version) ==
    IF version = 0 THEN NoFailure
    ELSE IF version \in {1, 2} THEN "svndiff version" ELSE "not svndiff"

(* read_body.  A record's `body` says what is wrong with its framing.      *)
BodyFault(rec) ==
    LET texts == IF rec.rec = "node" THEN rec.text ELSE {}
        blocks == rec.props
    IN  IF rec.body = "lengths disagree" THEN rec.body
        ELSE IF \E t \in texts : ~t.delta /\ Len(t.data) > MaxNodeText THEN "node text limit"
        ELSE IF rec.body = "past the end" THEN rec.body
        ELSE IF \E b \in blocks : ~b.delta /\ \E n \in DOMAIN b.changes : ~b.changes[n].set
             THEN "deletion outside a delta"
        ELSE IF rec.body = "bad block" THEN rec.body
        ELSE IF \E t \in texts : t.delta THEN DeltaFault((CHOOSE t \in texts : TRUE).version)
        ELSE NoFailure

RecordFault(rec) ==
    CASE rec.rec = "malformed" -> "malformed header"
      [] rec.rec = "format"    -> IF rec.version \in 1..3 THEN NoFailure ELSE "dump format version"
      [] rec.rec = "uuid"      -> NoFailure
      [] rec.rec \in {"revision", "other"} -> BodyFault(rec)
      [] rec.rec = "node" ->
           IF rec.action \notin {"add", "delete", "change", "replace"} THEN "unknown action"
           ELSE IF rec.nodeKind \notin {"file", "dir", "none"} THEN "unknown kind"
           ELSE IF BodyFault(rec) # NoFailure THEN BodyFault(rec)
           ELSE IF dump.revisions = <<>> THEN "node before any revision" ELSE NoFailure

(* A revision begins, or the last one gets a node.                         *)
WithRecord(revisions, rec) ==
    CASE rec.rec = "revision" ->
           Append(revisions, [number |-> rec.number, date |-> rec.date, nodes |-> <<>>])
      [] rec.rec = "node" -> [revisions EXCEPT ![Len(revisions)].nodes = Append(@, rec)]
      [] OTHER -> revisions

ParseRecord ==
    /\ stage = "svn parse" /\ dump.at < Len(Records)
    /\ LET rec   == Records[dump.at + 1]
           fault == RecordFault(rec)
       IN  \/ /\ fault # NoFailure
              /\ Fail(fault) /\ UNCHANGED dump
           \/ /\ fault = NoFailure
              /\ dump' = [dump EXCEPT
                    !.at = @ + 1,
                    !.version = IF rec.rec = "format" THEN {rec.version} ELSE @,
                    !.revisions = WithRecord(@, rec)]
              /\ Goto("svn parse") /\ UNCHANGED builder
    /\ UNCHANGED treeVars

DumpParsed ==
    /\ stage = "svn parse" /\ dump.at = Len(Records)
    /\ \/ /\ dump.version = {}
          /\ Fail("no format version")
       \/ /\ dump.version # {} /\ input.place = "repository" /\ ~input.version
          /\ Fail("no svnadmin version")
       \/ /\ dump.version # {} /\ (input.place = "repository" => input.version)
          /\ Goto("svn apply") /\ UNCHANGED builder
    /\ UNCHANGED svnVars

-----------------------------------------------------------------------------
(* svndiff.rs.  A window names its view of the base, the length of its     *)
(* target, its instructions and its new data.                              *)

Malformed == [fault |-> "malformed delta", text |-> ""]

(* One instruction of a window, on what the window has made so far.        *)
Instruct(view, window, made, ins) ==
    LET produced == Len(made.text)
        end      == ins.offset + ins.len
        \* a copy of the target may overlap what it writes: it repeats
        Repeat[n \in Nat] ==
          IF n = 0 THEN made.text
          ELSE LET text == Repeat[n - 1] IN text \o SubSeq(text, ins.offset + n, ins.offset + n)
    IN  IF made.fault # NoFailure THEN made
        ELSE IF ins.len > window.target - produced THEN [made EXCEPT !.fault = "malformed delta"]
        ELSE CASE ins.op = "source" /\ end <= Len(view) ->
                    [made EXCEPT !.text = @ \o SubSeq(view, ins.offset + 1, end)]
               [] ins.op = "target" /\ ins.offset < produced -> [made EXCEPT !.text = Repeat[ins.len]]
               [] ins.op = "new" /\ made.used + ins.len <= Len(window.new) ->
                    [made EXCEPT !.text = @ \o SubSeq(window.new, made.used + 1, made.used + ins.len),
                                 !.used = @ + ins.len]
               [] OTHER -> [made EXCEPT !.fault = "malformed delta"]

\* A window must make all of its target and use all of its new data.
WindowEnd(made, window) ==
    IF made.fault = NoFailure /\ Len(made.text) = window.target /\ made.used = Len(window.new)
    THEN [fault |-> NoFailure, text |-> made.text] ELSE Malformed

RunWindow(view, window) ==
    WindowEnd(FoldLeft(LAMBDA made, ins : Instruct(view, window, made, ins),
                       [fault |-> NoFailure, text |-> "", used |-> 0], window.instructions),
              window)

(* apply: the ceiling is checked before a window runs.                     *)
ApplyDelta(windows, base, ceiling) ==
    LET Extend(out, made) ==
          IF made.fault # NoFailure THEN made ELSE [out EXCEPT !.text = @ \o made.text]
        Step(out, w) ==
          IF out.fault # NoFailure THEN out
          ELSE IF w.from + w.len > Len(base) THEN Malformed
          ELSE IF Len(out.text) + w.target > ceiling THEN [fault |-> "delta limit", text |-> ""]
          ELSE Extend(out, RunWindow(SubSeq(base, w.from + 1, w.from + w.len), w))
    IN  FoldLeft(Step, [fault |-> NoFailure, text |-> ""], windows)

-----------------------------------------------------------------------------
(* props.rs and tree.rs: files and their properties.                       *)

Flags == {"svn:executable", "svn:special"}

EntriesSet(blocks) == UNION {{c.key : c \in {x \in ToSet(b.changes) : x.set}} : b \in blocks}

Recognized ==
    {"svn:mergeinfo", "svn:eol-style", "svn:keywords", "svn:ignore", "svn:global-ignores",
     "svn:externals", "svn:author", "svn:date", "svn:log"}

\* classify_loss.
LossOf(keys) ==
    (keys \cap {"svn:mergeinfo"})
    \cup (IF keys \cap {"svn:eol-style", "svn:keywords", "svn:ignore", "svn:global-ignores"} # {}
          THEN {"workflow"} ELSE {})
    \cup (IF keys \ (Recognized \cup Flags) # {} THEN {"custom"} ELSE {})

mode_of(flags) ==
    IF "svn:special" \in flags THEN "symlink"
    ELSE IF "svn:executable" \in flags THEN "exec" ELSE "file"

\* A file of the tree: the blob in the store, and which flags are set.
svn_text(entry) == IF "svn:special" \in entry.flags THEN "link " \o entry.blob ELSE entry.blob

IsLink(text) == Len(text) >= 5 /\ SubSeq(text, 1, 5) = "link "

blob_for(text, flags) == IF "svn:special" \in flags THEN SubSeq(text, 6, Len(text)) ELSE text

(* The flags after a block of changes: a full block replaces them.         *)
FlagsAfter(block, base) ==
    FoldLeft(LAMBDA flags, c : IF c.set THEN flags \cup ({c.key} \cap Flags) ELSE flags \ {c.key},
             IF block.delta THEN base ELSE {}, block.changes)

Beneath(dir, path) == IsPrefix(dir, path)

IsLive(files, dir) == \E p \in DOMAIN files : Beneath(dir, p)

remove_subtree(files, path) == Restrict(files, {p \in DOMAIN files : ~Beneath(path, p)})

\* insert: what is new replaces what is old.
Overlaid(new, old) ==
    [k \in DOMAIN new \cup DOMAIN old |-> IF k \in DOMAIN new THEN new[k] ELSE old[k]]

(* lookup_file and snapshot_for: what a copy asks for must have been kept. *)
CopyFault(from, isFile) ==
    IF \E c \in from : c.rev \notin DOMAIN kept THEN "copy of an absent revision"
    ELSE IF isFile /\ \E c \in from : c.path \notin DOMAIN kept[c.rev] THEN "copy of an absent file"
    ELSE NoFailure

\* The base of a delta.
DeltaBase(source, existing, action) ==
    IF source # {} THEN source ELSE IF action = "change" THEN existing ELSE {}

IsDelta(node) == \E t \in node.text : t.delta

Ceiling == LET left == IF spent < MaxDump THEN MaxDump - spent ELSE 0
           IN  IF MaxNodeText < left THEN MaxNodeText ELSE left

(* The text a node gives its file: of a delta, of its own, or that of the  *)
(* file it copies or changes.                                              *)
TextMade(node, baseText, inherited) ==
    IF IsDelta(node) THEN ApplyDelta(OneOf(node.text).windows, baseText, Ceiling)
    ELSE IF node.text # {} THEN [fault |-> NoFailure, text |-> OneOf(node.text).data]
    ELSE IF inherited = {} THEN [fault |-> "no content", text |-> ""]
    ELSE [fault |-> NoFailure, text |-> svn_text(OneOf(inherited))]

FlagsMade(node, base, inherited) ==
    IF node.props # {} THEN FlagsAfter(OneOf(node.props), UNION {b.flags : b \in base})
    ELSE UNION {e.flags : e \in inherited}

FileFault(node, source, base, baseText, flags, made) ==
    LET States(sums, text) == \A s \in sums : s = text
    IN  IF CopyFault(node.from, TRUE) # NoFailure THEN CopyFault(node.from, TRUE)
        ELSE IF IsDelta(node) /\ base = {} /\ node.action = "change" THEN "no base"
        ELSE IF IsDelta(node) /\ ~States(node.sums.base, baseText) THEN "base checksum"
        ELSE IF made.fault # NoFailure THEN made.fault
        ELSE IF node.text # {} /\ ~States(node.sums.content, made.text) THEN "content checksum"
        ELSE IF node.text # {} /\ \E s \in source : ~States(node.sums.source, svn_text(s))
             THEN "copy source checksum"
        ELSE IF "svn:special" \in flags /\ ~IsLink(made.text) THEN "special without a link"
        ELSE NoFailure

FileMade(node, fault, flags, made) ==
    [fault |-> fault,
     entry |-> IF fault # NoFailure THEN {}
               ELSE {[blob |-> blob_for(made.text, flags), flags |-> flags]},
     spent |-> IF fault = NoFailure /\ IsDelta(node) THEN Len(made.text) ELSE 0]

(* apply_file, on the tree as the node finds it: a fault, or the entry the *)
(* path gets and what its delta adds to the budget.                        *)
apply_file(node, files) ==
    LET source    == {kept[c.rev][c.path] : c \in node.from}
        existing  == {files[p] : p \in {node.path} \cap DOMAIN files}
        inherited == IF source # {} THEN source ELSE existing
        base      == DeltaBase(source, existing, node.action)
        baseText  == IF base = {} THEN "" ELSE svn_text(OneOf(base))
        Checked(flags, made) ==
          FileMade(node, FileFault(node, source, base, baseText, flags, made), flags, made)
    IN  Checked(FlagsMade(node, base, inherited), TextMade(node, baseText, inherited))

(* revnum_to_atom: a number given twice names the later revision.          *)
AtomOfRevision(rev) ==
    CHOOSE n \in DOMAIN builder.atoms :
        /\ builder.atoms[n].source = rev
        /\ \A k \in (n + 1)..Len(builder.atoms) : builder.atoms[k].source # rev

CopyRecord(from, rev, to) ==
    [from |-> from, fromAtom |-> AtomOfRevision(rev), to |-> to, status |-> AsStated]

(* apply_dir: each file under the copied directory, where it was and where *)
(* it comes to.                                                            *)
Expansion(node) ==
    UNION {{[from |-> p, rev |-> c.rev, to |-> node.path \o SubSeq(p, Len(c.path) + 1, Len(p))] :
              p \in {q \in DOMAIN kept[c.rev] : Beneath(c.path, q)}} : c \in node.from}

Expanded(moved) ==
    [q \in {m.to : m \in moved} |-> LET m == CHOOSE x \in moved : x.to = q IN kept[m.rev][m.from]]

-----------------------------------------------------------------------------
(* apply_revision.                                                         *)

Revision == dump.revisions[NextAtom]

Applying ==
    /\ stage = "svn apply" /\ NextAtom <= Len(dump.revisions)
    /\ applied < Len(Revision.nodes)

(* One turn of the loop over a revision's nodes.                           *)
ApplyNode ==
    /\ Applying
    /\ LET node  == Revision.nodes[applied + 1]
           keys  == EntriesSet(node.props)
           files == IF node.action \in {"delete", "replace"} THEN remove_subtree(tree, node.path)
                    ELSE tree
           isFile == node.nodeKind = "file" \/ (node.nodeKind = "none" /\ node.path \in DOMAIN files)
           moved == Expansion(node)
           Done(after, copies) ==
              /\ tree' = after /\ copied' = copied \cup copies
              /\ applied' = applied + 1
              /\ svnLoss' = [svnLoss EXCEPT !.properties = @ \cup LossOf(keys)]
              /\ Goto("svn apply") /\ UNCHANGED builder
           Refused(why) ==
              Fail(why) /\ UNCHANGED <<tree, copied, applied, spent, svnLoss>>
       IN  \/ /\ "svn:externals" \in keys
              /\ Refused("externals")
           \/ /\ "svn:externals" \notin keys
              /\ node.action = "delete" \/ (node.nodeKind = "none" /\ ~isFile)
              /\ Done(files, {}) /\ UNCHANGED spent
           \/ /\ "svn:externals" \notin keys /\ node.action # "delete" /\ node.nodeKind = "dir"
              /\ \/ /\ CopyFault(node.from, FALSE) # NoFailure
                    /\ Refused(CopyFault(node.from, FALSE))
                 \/ /\ CopyFault(node.from, FALSE) = NoFailure
                    /\ Done(Overlaid(Expanded(moved), files),
                            {CopyRecord(m.from, m.rev, m.to) : m \in moved})
                    /\ UNCHANGED spent
           \/ /\ "svn:externals" \notin keys /\ node.action # "delete" /\ isFile
              /\ \E file \in {apply_file(node, files)} :
                    \/ /\ file.fault # NoFailure
                       /\ Refused(file.fault)
                    \/ /\ file.fault = NoFailure
                       /\ Done(Overlaid([q \in {node.path} |-> OneOf(file.entry)], files),
                               {CopyRecord(c.path, c.rev, node.path) : c \in node.from})
                       /\ spent' = spent + file.spent
    /\ UNCHANGED <<dump, live, kept, heads>>

(* The paths the revision says it replaced: of a directory, the files it   *)
(* had and the files it has.                                               *)
Replaced ==
    LET replacing(kind) == {n.path : n \in {x \in ToSet(Revision.nodes) :
                                               x.action = "replace" /\ x.nodeKind = kind}}
    IN  replacing("file")
        \cup {p \in DOMAIN live \cup DOMAIN tree : \E d \in replacing("dir") : Beneath(d, p)}

Files(t) == [p \in DOMAIN t |-> [blob |-> t[p].blob, mode |-> mode_of(t[p].flags)]]

(* Seeded mistake: a replaced file with the same content is no operation.  *)
PlainDiff(base, child) == DiffOps(base, child, AsStated)

(* diff: a path replaced is a Replace even when nothing about it changed.  *)
RevisionOps(base, child) ==
    LET both == Replaced \cap DOMAIN base \cap DOMAIN child
    IN  {o \in DiffOps(base, child, AsStated) : o.path \notin both}
        \cup {ReplaceOp(p, child[p].blob, child[p].mode, AsStated) : p \in both}

\* Which revisions' trees a copy of this dump will ask for.
Needed == UNION {UNION {{c.rev : c \in n.from} : n \in ToSet(dump.revisions[k].nodes)} :
                    k \in DOMAIN dump.revisions}

(* layout::classify, with the default layout.                              *)
RootOf(path) ==
    IF path # <<>> /\ path[1] = "trunk"
    THEN {[name |-> "trunk", kind |-> "Branch", prefix |-> <<"trunk">>]}
    ELSE IF Len(path) >= 2 /\ path[1] \in {"branches", "tags"} /\ path[2] # ""
    THEN {[name |-> path[2], kind |-> IF path[1] = "tags" THEN "Tag" ELSE "Branch",
           prefix |-> SubSeq(path, 1, 2)]}
    ELSE {}

\* The end of apply_revision, and the rest of the turn of decode_with's loop.
EndRevision ==
    /\ stage = "svn apply" /\ NextAtom <= Len(dump.revisions)
    /\ applied = Len(Revision.nodes)
    /\ LET draft == [parents |-> IF NextAtom = 1 THEN <<>> ELSE <<NextAtom - 1>>,
                     ops |-> RevisionOps(Files(live), Files(tree)), copies |-> copied,
                     meta |-> [time |-> Revision.date = "parses"],
                     source |-> Revision.number, status |-> AsStated]
           hollow(n) == n.nodeKind = "dir" /\ n.action \in {"add", "replace"} /\ ~IsLive(tree, n.path)
           touched == IF input.refs THEN UNION {RootOf(n.path) : n \in ToSet(Revision.nodes)} ELSE {}
       IN  /\ builder' = WithAtom(builder, draft)
           /\ svnLoss' = [svnLoss EXCEPT
                            !.emptyDirs = @ + Len(SelectSeq(Revision.nodes, hollow)),
                            !.dates = @ + IF Revision.date = "unparseable" THEN 1 ELSE 0]
           /\ heads' = Overlaid([r \in touched |-> NextAtom], heads)
           /\ kept' = IF Revision.number \in Needed
                      THEN Overlaid([r \in {Revision.number} |-> tree], kept) ELSE kept
    /\ live' = tree /\ copied' = {} /\ applied' = 0
    /\ Goto("svn apply")
    /\ UNCHANGED <<dump, tree, spent>>

-----------------------------------------------------------------------------
(* reconstruct_refs, layout_honesty and the loss boundary.                 *)

(* Seeded mistake: a root that was ever touched gets a ref.                *)
TouchedRoots == DOMAIN heads

LiveRoots == {r \in DOMAIN heads : IsLive(live, r.prefix)}

SvnRefs == {Ref(r.kind, r.name, heads[r], Derived("ReconstructedBranch"), <<>>) : r \in LiveRoots}

Outside == Cardinality({p \in DOMAIN live : RootOf(p) = {}})

SvnFlags ==
    IF ~input.refs \/ dump.revisions = <<>> THEN {}
    ELSE IF heads = EmptyTree THEN {[what |-> "layout not found", count |-> 1]}
    ELSE IF Outside > 0 THEN {[what |-> "paths outside the layout", count |-> Outside]} ELSE {}

SvnDrops ==
    {Drop("framing", 1)}
    \cup {Drop(what, 1) : what \in svnLoss.properties}
    \cup DropIfAny("empty directories", svnLoss.emptyDirs)
    \cup DropIfAny("deleted or moved roots", Cardinality(DOMAIN heads \ LiveRoots))
    \cup DropIfAny("dates", svnLoss.dates)

\* The refs are a set here: two roots of one name are told apart by their prefixes.
RootsCollide == \E r, s \in LiveRoots : r # s /\ r.kind = s.kind /\ r.name = s.name

FinishSvn ==
    /\ stage = "svn apply" /\ NextAtom > Len(dump.revisions)
    /\ \/ /\ RootsCollide
          /\ Fail("two refs of one kind and name")
       \/ /\ ~RootsCollide
          /\ Finish(SvnRefs, SvnDrops, SvnFlags)
    /\ UNCHANGED svnVars

SvnStep ==
    /\ LoadDump \/ Captured \/ ParseRecord \/ DumpParsed \/ ApplyNode \/ EndRevision \/ FinishSvn
    /\ UNCHANGED captureVars

\* While it captures, the decoder, its thread and the child each take their own steps.
During(step) == stage = "svn capture" /\ step /\ UNCHANGED <<decoding, svnVars>>

DecoderReads == During(ReaderStep)
ThreadRuns == During(DrainerStep)
ChildRuns == During(ChildStep)

-----------------------------------------------------------------------------
(* Properties.                                                             *)

IsFileTree(t) == \A p \in DOMAIN t : DOMAIN t[p] = {"blob", "flags"} /\ t[p].flags \subseteq Flags

(* The type invariant of the Subversion part.                              *)
SvnTypeOK ==
    /\ (input.kind = "svn" => dump.at \in 0..Len(Records)) /\ Cardinality(dump.version) <= 1
    /\ IsFileTree(live) /\ IsFileTree(tree) /\ \A r \in DOMAIN kept : IsFileTree(kept[r])
    /\ \A r \in DOMAIN heads : heads[r] \in DOMAIN builder.atoms \/ stage = "failed"
    /\ spent <= MaxDump
    /\ svnLoss.emptyDirs \in Nat /\ svnLoss.dates \in Nat

(* Whether the file a node makes has the text the node states by its       *)
(* checksum; of a symbolic link the blob is what follows "link ".          *)
ShowsText(node, files) ==
    \A stated \in node.sums.content :
        /\ node.path \in DOMAIN files
        /\ LET file == files[node.path] IN
           IF file.mode = "symlink"
           THEN IsLink(stated) /\ file.blob = SubSeq(stated, 6, Len(stated))
           ELSE file.blob = stated

StatesText(node) == node.nodeKind = "file" /\ node.action # "delete" /\ node.text # {}

(* Whatever a revision copies, replaces and deletes, and in whatever order *)
(* it names them, the difference recorded is the difference: replayed,     *)
(* the operations give the tree the next revision starts from, and the     *)
(* trees kept for copies are those of their revisions.  Every copy comes   *)
(* from a file that was there, and a file or directory that a revision     *)
(* replaces says so even where nothing about it changed.  And a file whose *)
(* text the dump states has that text in the tree of its revision, unless  *)
(* a later node of the revision is about the same place or one above it.   *)
SvnTreesExact ==
    (stage = "svn apply") =>
        LET trees == ReplayedTrees
            IsReplaced(n, p) ==
              \E x \in ToSet(dump.revisions[n].nodes) :
                 /\ x.action = "replace"
                 /\ (x.nodeKind = "file" /\ p = x.path) \/ (x.nodeKind = "dir" /\ Beneath(x.path, p))
        IN  /\ Files(live) = IF builder.atoms = <<>> THEN EmptyTree ELSE trees[Len(builder.atoms)]
            /\ DOMAIN kept = {r \in Needed : HasAtom(r)}
            /\ \A r \in DOMAIN kept : Files(kept[r]) = trees[AtomOfRevision(r)]
            /\ \A n \in DOMAIN builder.atoms : \A c \in builder.atoms[n].copies :
                  c.fromAtom < n /\ c.from \in DOMAIN trees[c.fromAtom]
            /\ \A n \in DOMAIN builder.atoms : \A p \in DOMAIN trees[n] :
                  (n > 1 /\ p \in DOMAIN trees[n - 1] /\ IsReplaced(n, p))
                      => \E o \in builder.atoms[n].ops : o.path = p /\ o.kind = "Replace"
            /\ \A n \in DOMAIN builder.atoms :
                  LET nodes == dump.revisions[n].nodes IN
                  \A k \in DOMAIN nodes :
                     (StatesText(nodes[k]) /\ \A j \in (k + 1)..Len(nodes) : ~Beneath(nodes[j].path, nodes[k].path))
                         => ShowsText(nodes[k], trees[n])

(* A reconstructed ref shows its branch: each root that some revision      *)
(* touched and that still has files has a ref of its own, and in the tree  *)
(* of the atom it names the root is as it is at the end, unless a later    *)
(* revision moved or replaced the root from above; the other roots are     *)
(* counted as lost.                                                        *)
SvnRefsShowRoots ==
    (stage = "done" /\ input.kind = "svn" /\ input.refs /\ dump.revisions # <<>>) =>
        LET trees == ReplayedTrees
            last  == Len(builder.atoms)
            Nodes(n) == ToSet(dump.revisions[n].nodes)
            touched == UNION {UNION {RootOf(x.path) : x \in Nodes(n)} : n \in 1..last}
            Part(n, root) == [p \in {q \in DOMAIN trees[n] : Beneath(root.prefix, q)} |-> trees[n][p]]
            Named(root) == {r \in builder.refs : r.kind = root.kind /\ r.name = root.name}
            alive == {root \in touched : DOMAIN Part(last, root) # {}}
            fromAbove(root, n) == \E x \in Nodes(n) : Len(x.path) < Len(root.prefix) /\ Beneath(x.path, root.prefix)
        IN  /\ \A root \in alive : \E r \in builder.refs :
                  /\ Named(root) = {r}
                  /\ (\A n \in (r.target + 1)..last : ~fromAbove(root, n))
                         => Part(r.target, root) = Part(last, root)
            /\ \A r \in builder.refs : \E root \in alive : r \in Named(root)
            /\ \A one, other \in alive : Named(one) = Named(other) => one = other
            /\ {d.count : d \in {x \in builder.drops : x.what = "deleted or moved roots"}}
                 = {Cardinality(touched \ alive)} \ {0}
=============================================================================
