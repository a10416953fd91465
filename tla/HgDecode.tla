------------------------------ MODULE HgDecode ------------------------------
(***************************************************************************)
(* The Mercurial decoder (crates/brygge-decode-hg): the gate on the        *)
(* store's requirements, the revlogs and the verification of every         *)
(* revision that is read from one, and the import of the changesets of the *)
(* published view, oldest first, each as the difference of two manifests,  *)
(* with the copies its file revisions state.                               *)
(*                                                                         *)
(* The published view is HgPublished's: here it is computed in one step,   *)
(* by reachability, for stores whose parents come before their children;   *)
(* there the decoder's own two passes are shown to agree with that.        *)
(*                                                                         *)
(* A repository (`input` when its kind is "hg") is                         *)
(*   defects    what is wrong with its shape, a set of names in HgDefects  *)
(*   requires   the requirements, in the order they are listed             *)
(*   changelog, manifests   its two main revlogs, each a set of at most    *)
(*              one                                                        *)
(*   filelogs   a function from paths to revlogs                           *)
(*   made       what each node was made of: the set of the parents' nodes  *)
(*              and the text that hash to it                               *)
(*   phaseroots, obsstore, bookmarks, pins   what these files say          *)
(*   unreadable the ones among them that are damaged or too large          *)
(*   merging    whether a merge is unfinished                              *)
(* A revlog is [version, split, data, entries]: split when the data is in  *)
(* a file of its own, and `data` whether that file is there.  A text is a  *)
(* sequence of lines; nodes are numbers.  How a path becomes the name of a *)
(* file (fncache.rs) is not represented.                                   *)
(***************************************************************************)
EXTENDS Decoding, Integers

CONSTANT MaxRevisionBytes   \* Limits.max_revision_bytes

ASSUME HgLimits == MaxRevisionBytes \in Nat

VARIABLES
    hgServed,   \* PublishedView.served
    hgRepo,     \* repo_id, if the published view has a root
    hgNext,     \* crev: the changeset the loop is at
    hgTally     \* what the import counts for the loss boundary

hgVars == <<hgServed, hgRepo, hgNext, hgTally>>

NoHgTally == [unresolved |-> 0, onExisting |-> 0, offsets |-> 0]

HgIdle == hgServed = {} /\ hgRepo = {} /\ hgNext = 0 /\ hgTally = NoHgTally

Published == INSTANCE HgPublished WITH
    Stores <- {}, Branches <- {}, store <- input, pc <- stage, rev <- hgNext, phase <- <<>>,
    visible <- {}, served <- hgServed, counts <- hgTally, parents <- [r \in hgServed |-> {}],
    tips <- <<>>, why <- failure

NULL_REV == -1
NullNode == 0

\* The first of some names, in their order, that is in a set.
FirstOf(names, set) ==
    {names[n] : n \in {k \in DOMAIN names : names[k] \in set /\ \A j \in 1..(k - 1) : names[j] \notin set}}

\* The first of two that there is.
OrElse(first, second) == IF first # {} THEN first ELSE second

-----------------------------------------------------------------------------
(* locate and check_requirements: before any revlog is opened.             *)

HgDefects == <<"absent", "no .hg", "no .hg/store", "requires unreadable">>

\* The files that say what is published, in the order they are read.
ViewFiles == <<"phaseroots", "obsstore", "bookmarks", "dirstate", "localtags">>

Supported ==
    {"revlogv1", "store", "fncache", "dotencode", "generaldelta", "sparserevlog",
     "revlog-compression-zlib", "revlog-compression-zstd", "persistent-nodemap", "share-safe"}

HgFloor == {"largefiles", "lfs"}

RequirementFaults(reqs) ==
    LET strange == {n \in DOMAIN reqs : reqs[n] \notin Supported}
    IN  IF strange # {}
        THEN {IF q \in HgFloor THEN q ELSE "unknown requirement" : q \in {reqs[Min(strange)]}}
        ELSE IF "fncache" \in ToSet(reqs) THEN {} ELSE {"store-without-fncache"}

(* Revlog::open: only revlogv1 is read, and the data file may be missing   *)
(* only where no revision stores any.                                      *)
Opens(log) ==
    /\ log.version = 1
    /\ log.split /\ ~log.data => \A r \in DOMAIN log.entries : log.entries[r].body = <<>>

Opened(logs) == \E log \in logs : Opens(log)

Changelog == OneOf(input.changelog).entries
Manifests == OneOf(input.manifests).entries

OpenHg ==
    /\ stage = "hg open"
    /\ LET faults == OrElse(FirstOf(HgDefects, input.defects), OrElse(RequirementFaults(input.requires),
                     IF ~Opened(input.changelog) THEN {"unreadable changelog"}
                     ELSE IF ~Opened(input.manifests) THEN {"unreadable manifest"} ELSE {}))
       IN  \/ \E fault \in faults : Fail(fault)
           \/ faults = {} /\ Goto("hg view") /\ UNCHANGED builder
    /\ UNCHANGED hgVars

(* What reading the index of a revlog gives, whatever is in it: entries    *)
(* numbered from 0, each with a number for its base.                       *)
IsRevlog(log) ==
    LET revs == DOMAIN log.entries
    IN  /\ IsFiniteSet(revs) /\ revs = 0..(Cardinality(revs) - 1)
        /\ \A r \in revs : log.entries[r].base \in Int

(* What Mercurial makes sure of in a changelog, and nothing here checks:   *)
(* revisions are numbered from 0, each after its parents; a second parent  *)
(* comes with a first; and nothing is stored twice, so that a node names   *)
(* one revision.                                                           *)
IsChangelog(log) ==
    LET revs == DOMAIN log.entries
    IN  /\ IsFiniteSet(revs) /\ revs = 0..(Cardinality(revs) - 1)
        /\ \A r \in revs :
              /\ {log.entries[r].p1, log.entries[r].p2} \subseteq -1..(r - 1)
              /\ log.entries[r].p1 = NULL_REV => log.entries[r].p2 = NULL_REV
        /\ \A r, q \in revs : log.entries[r].node = log.entries[q].node => r = q

(* A repository, sound or not: only its changelog is taken to be in order. *)
IsStore(source) ==
    /\ source.defects \subseteq ToSet(HgDefects) /\ source.unreadable \subseteq ToSet(ViewFiles)
    /\ \A log \in source.changelog : IsChangelog(log)
    /\ \A log \in source.changelog \cup source.manifests : IsRevlog(log)
    /\ \A path \in DOMAIN source.filelogs : IsRevlog(source.filelogs[path])

-----------------------------------------------------------------------------
(* The published view (published.rs), and the repository's identity: the   *)
(* smallest node among its roots.                                          *)

RevsOf(nodes) == {r \in DOMAIN Changelog : Changelog[r].node \in nodes}

\* The store as HgPublished describes one.
Store ==
    [n  |-> Cardinality(DOMAIN Changelog),
     p1 |-> [r \in DOMAIN Changelog |-> Changelog[r].p1],
     p2 |-> [r \in DOMAIN Changelog |-> Changelog[r].p2],
     root |-> [r \in DOMAIN Changelog |->
                  Max({0} \cup {x.phase : x \in {y \in input.phaseroots : y.node = Changelog[r].node}})],
     precursors |-> RevsOf(input.obsstore),
     bookmarks  |-> RevsOf({b.node : b \in ToSet(input.bookmarks)}),
     otherPins  |-> RevsOf(input.pins)]

KnownPhases == {1, 2, 32, 96}

IsRoot(r) == Changelog[r].p1 = NULL_REV /\ Changelog[r].p2 = NULL_REV

\* What `hg clone` would transfer.
PublishedIn(st) ==
    (DOMAIN Changelog \ Published!SecretRef(st)) \ (Published!ObsoleteRef(st) \ Published!VisibleRef(st))

ViewFaults(served) ==
    LET unknown == {"phaseroots" : x \in {y \in input.phaseroots : y.phase \notin KnownPhases}}
    IN  IF DOMAIN Changelog = {} THEN {}
        ELSE IF input.merging THEN {"unfinished-merge"}
        ELSE OrElse(FirstOf(ViewFiles, input.unreadable \cup unknown),
                    IF Published!IsClosed(Store, served) THEN {} ELSE {"not closed under ancestry"})

ComputeView ==
    /\ stage = "hg view"
    /\ \E served \in {PublishedIn(Store)} :
          \/ /\ \E fault \in ViewFaults(served) : Fail(fault)
             /\ UNCHANGED <<hgServed, hgRepo>>
          \/ /\ ViewFaults(served) = {}
             /\ hgServed' = served
             /\ hgRepo' = LET roots == {Changelog[r].node : r \in {q \in served : IsRoot(q)}}
                          IN  IF roots = {} THEN {} ELSE {Min(roots)}
             /\ Goto("hg import") /\ UNCHANGED builder
    /\ UNCHANGED <<hgNext, hgTally>>

-----------------------------------------------------------------------------
(* Revlog::revision: the text of a revision from its chain of deltas,      *)
(* checked against the recorded length at every step, and against the node *)
(* at the end.  What is stored as it is is not held to the ceiling.        *)

Codecs == {"none", "zlib", "zstd"}

(* mpatch: hunks in order, each replacing lines of the base.               *)
mpatch(base, hunks) ==
    LET Apply(done, h) ==
          IF done.sound /\ done.at <= h.start /\ h.start <= h.end /\ h.end <= Len(base)
          THEN [sound |-> TRUE, at |-> h.end, text |-> done.text \o SubSeq(base, done.at + 1, h.start) \o h.data]
          ELSE [done EXCEPT !.sound = FALSE]
        last == FoldLeft(Apply, [sound |-> TRUE, at |-> 0, text |-> <<>>], hunks)
    IN  IF last.sound THEN {last.text \o SubSeq(base, last.at + 1, Len(base))} ELSE {}

IsSnapshot(log, r) == log[r].base < 0 \/ log[r].base = r

\* The text of a revision, if it can be rebuilt.
Rebuilt(log, rev) ==
    LET text[r \in 0..rev] ==
          LET entry == log[r]
              whole == IF entry.codec \notin Codecs THEN {}
                       ELSE IF IsSnapshot(log, r) THEN {entry.body}
                       ELSE IF entry.base > r THEN {}
                       ELSE UNION {mpatch(base, entry.body) : base \in text[entry.base]}
              IsBounded(t) == (IsSnapshot(log, r) /\ entry.codec = "none") \/ Len(t) <= MaxRevisionBytes
          IN  {t \in whole : Len(t) = entry.len /\ IsBounded(t)}
    IN  text[rev]

ParentsInRange(log, r) == {log[r].p1, log[r].p2} \subseteq DOMAIN log \cup {NULL_REV}

ParentNodes(log, r) == {IF p = NULL_REV THEN NullNode ELSE log[p].node : p \in {log[r].p1, log[r].p2}}

(* Seeded mistake: a text is taken for the node it was asked for by.       *)
AnyText(log, r, text) == ParentsInRange(log, r)

(* verify_node: the order of the parents does not matter to the hash.      *)
verify_node(log, r, text) ==
    /\ ParentsInRange(log, r)
    /\ log[r].node \in DOMAIN input.made
    /\ input.made[log[r].node].parents = ParentNodes(log, r)
    /\ input.made[log[r].node].text = text

\* check_flags: whose stored text is not the text the node was made of.
RefusedFlags == <<"censored-revision", "ellipsis-revision", "external-storage-revision", "unknown-revision-flag">>

RevisionFaults(log, r) ==
    OrElse(FirstOf(RefusedFlags, log[r].flags),
           IF \E text \in Rebuilt(log, r) : verify_node(log, r, text) THEN {} ELSE {"unreadable revision"})

TextOf(log, r) == OneOf(Rebuilt(log, r))

-----------------------------------------------------------------------------
(* changelog::parse, manifest_of, filelog::read_revision.                  *)

ChangesetFaults(r) ==
    OrElse(RevisionFaults(Changelog, r),
           IF "malformed" \in TextOf(Changelog, r)[1].extras THEN {"unreadable changeset"} ELSE {})

Changeset(r) == TextOf(Changelog, r)[1]

\* The revision of a manifest's node: the last one, if several have it.
ManifestRevs(node) == {r \in DOMAIN Manifests : Manifests[r].node = node}

ManifestLines(node) == ToSet(TextOf(Manifests, Max(ManifestRevs(node))))

LineFaults(lines) ==
    {"non-utf8-path" : line \in {l \in lines : ~l.utf8}}
    \cup {"unreadable manifest" : line \in {l \in lines : l.mode = "unknown flag"}}

ManifestFaults(node) ==
    IF node = NullNode THEN {}
    ELSE IF ManifestRevs(node) = {} THEN {"unreadable manifest"}
    ELSE OrElse(RevisionFaults(Manifests, Max(ManifestRevs(node))), LineFaults(ManifestLines(node)))

(* A manifest has one line for each path.                                  *)
TreeOf(lines) ==
    [p \in {l.path : l \in lines} |->
        LET line == CHOOSE l \in lines : l.path = p IN [node |-> line.node, mode |-> line.mode]]

ManifestOf(node) == IF node = NullNode THEN EmptyTree ELSE TreeOf(ManifestLines(node))

ManifestAt(r) == ManifestOf(Changeset(r).manifest)

Holds(tree, path, node) == path \in DOMAIN tree /\ tree[path].node = node

MapsTo(r, path, node) == Holds(ManifestAt(r), path, node)

\* store_paths refuses a path that is not one of a file under the root.
IsStorePath(path) == path # <<>> /\ ToSet(path) \cap {"", ".", ".."} = {}

FilelogFaults(path) ==
    IF IsStorePath(path) /\ path \in DOMAIN input.filelogs /\ Opens(input.filelogs[path])
    THEN {} ELSE {"unreadable filelog"}

Filelog(path) == input.filelogs[path].entries

\* find_rev: the first revision with that node.
FileRevs(path, node) == {r \in DOMAIN Filelog(path) : Filelog(path)[r].node = node}

FileText(path, node) == TextOf(Filelog(path), Min(FileRevs(path, node)))

HasHeader(text) == text # <<>> /\ text[1].of = "header"

HeaderFault(text) == IF HasHeader(text) /\ text[1].malformed THEN {"unreadable filelog"} ELSE {}

FileFaults(path, node) ==
    OrElse(FilelogFaults(path),
    IF FileRevs(path, node) = {} THEN {"unreadable filelog"}
    ELSE OrElse(RevisionFaults(Filelog(path), Min(FileRevs(path, node))), HeaderFault(FileText(path, node))))

(* The content, and the copy the header states, if any: the path, and the  *)
(* revision at that path, if it says so.                                   *)
split_metadata(text) ==
    [blob |-> FoldLeft(LAMBDA bytes, l : bytes \o l.bytes, "", IF HasHeader(text) THEN Tail(text) ELSE text),
     from |-> IF HasHeader(text) THEN text[1].from ELSE {},
     rev  |-> IF HasHeader(text) THEN text[1].rev ELSE {}]

FileRevision(path, node) == split_metadata(FileText(path, node))

-----------------------------------------------------------------------------
(* decide_copy_source: where in the history a stated copy comes from.      *)

P1(r) == {Changelog[r].p1} \ {NULL_REV}
P2(r) == {Changelog[r].p2} \ {NULL_REV}

\* The first parents of r, and theirs, and so on.
FirstLine(r) ==
    LET line[d \in 0..Store.n] ==
          IF d = 0 THEN P1(r)
          ELSE LET near == line[d - 1] IN near \cup UNION {P1(a) : a \in near}
    IN  line[Store.n]

AncestorsOf(revs) == UNION {Published!AncestorsOf(Store, r) : r \in revs}

\* Linkrev::Known.
Linkrev(path, node) == {Filelog(path)[Min(FileRevs(path, node))].link} \cap Nat

(* Seeded mistake: the changeset that introduced a revision is taken       *)
(* wherever it is.                                                         *)
LinkedAnywhere(r, path, node) ==
    {l \in Linkrev(path, node) \cap hgServed : HasAtom(Changelog[l].node)}

\* Step 3: the changeset the filelog says introduced the revision, if this
\* one descends from it.
LinkedAncestor(r, path, node) ==
    Linkrev(path, node) \cap hgServed \cap AncestorsOf(P1(r) \cup P2(r))

\* Step 4: the nearest on the line of first parents past the first, none
\* below the changeset that introduced the revision.
Nearest(revs) == IF revs = {} THEN {} ELSE {Max(revs)}

OnLine(r, path, node) ==
    {a \in UNION {FirstLine(p) : p \in P1(r)} :
        /\ \A l \in Linkrev(path, node) : a >= l
        /\ MapsTo(a, path, node)}

CopySource(r, path, node) ==
    LET Holding(revs) == {p \in revs : MapsTo(p, path, node)}
    IN  IF FileRevs(path, node) = {} THEN {}
        ELSE OrElse(Holding(P1(r)), OrElse(Holding(P2(r)),
             OrElse(LinkedAncestor(r, path, node), Nearest(OnLine(r, path, node)))))

-----------------------------------------------------------------------------
(* One turn of the loop over the changelog.                                *)

\* A tree as a difference sees it: a file is its node and its mode.
AsNodes(manifest) == [p \in DOMAIN manifest |-> [blob |-> manifest[p].node, mode |-> manifest[p].mode]]

\* diff_manifests: the paths whose file revision is read.
ReadPaths(base, child) == {p \in DOMAIN child : p \in DOMAIN base => base[p] # child[p]}

HgOps(base, child) ==
    {IF op.kind = "Delete" THEN op ELSE [op EXCEPT !.blob = FileRevision(op.path, op.blob).blob] :
        op \in DiffOps(AsNodes(base), AsNodes(child), AsStated)}

AtomOf(r) == AtomNamed(Changelog[r].node)

\* The parents in their order, each the only one in its set.
InOrder(first, second) ==
    (IF first = {} THEN <<>> ELSE <<OneOf(first)>>) \o (IF second = {} THEN <<>> ELSE <<OneOf(second)>>)

ParentsOf(r) ==
    LET Made(revs) == {AtomOf(p) : p \in {q \in revs : HasAtom(Changelog[q].node)}}
    IN  InOrder(Made(P1(r)), Made(P2(r)))

\* The copy that a file revision states, as one onto the path.
StatedBy(path, file) == {[to |-> path, from |-> from, rev |-> file.rev] : from \in file.from}

\* The copies stated by the files a changeset adds.
StatedCopies(base, child) ==
    UNION {StatedBy(p, FileRevision(p, child[p].node)) : p \in DOMAIN child \ DOMAIN base}

\* Where a stated copy comes from: nowhere, when it names no revision.
SourceOf(r, copy) == UNION {CopySource(r, copy.from, node) : node \in copy.rev}

\* place_copy: a copy without a source is left out.
PlacedCopies(r, stated) ==
    UNION {{[from |-> copy.from, fromAtom |-> AtomOf(a), to |-> copy.to, status |-> AsStated] :
              a \in SourceOf(r, copy)} : copy \in stated}

(* Seeded mistake: a copy stated without a revision is not counted.        *)
UnplacedPinned(r, stated) == {c \in stated : c.rev # {} /\ SourceOf(r, c) = {}}

\* The copies left out, also the ones that name no revision of their source.
Unplaced(r, stated) == {c \in stated : SourceOf(r, c) = {}}

ChangesetDraft(r, base, child, copies) ==
    [parents |-> ParentsOf(r), ops |-> HgOps(base, child), copies |-> copies,
     meta |-> [time |-> Changeset(r).whole, extras |-> Changeset(r).extras],
     source |-> Changelog[r].node, status |-> AsStated]

SkipChangeset ==
    /\ stage = "hg import" /\ hgNext \in DOMAIN Changelog \ hgServed
    /\ hgNext' = hgNext + 1
    /\ Goto("hg import")
    /\ UNCHANGED <<builder, hgServed, hgRepo, hgTally>>

BaseOf(r) == IF P1(r) = {} THEN EmptyTree ELSE ManifestAt(Changelog[r].p1)

(* What refuses a changeset, in the order of the reads: it and its         *)
(* manifest, the files that differ, the sources of their copies.  What its *)
(* parents hold was read when they were imported.                          *)
ImportFaults(r, base, child, stated) ==
    OrElse(ChangesetFaults(r),
    OrElse(ManifestFaults(Changeset(r).manifest),
    IF {<<".hgsub">>, <<".hgsubstate">>} \cap DOMAIN child # {} THEN {"subrepo"}
    ELSE OrElse(UNION {FileFaults(p, child[p].node) : p \in ReadPaths(base, child)},
         IF \E c \in stated : c.rev # {} /\ FilelogFaults(c.from) # {} THEN {"unreadable filelog"}
         ELSE IF "raw key" \in Changeset(r).extras THEN {"non-utf8-extra-key"} ELSE {})))

Counted(r, base, child, stated) ==
    [unresolved |-> hgTally.unresolved + Cardinality(Unplaced(r, stated)),
     onExisting |-> hgTally.onExisting
        + Cardinality({p \in ReadPaths(base, child) \cap DOMAIN base : FileRevision(p, child[p].node).from # {}}),
     offsets    |-> hgTally.offsets + IF Changeset(r).whole THEN 0 ELSE 1]

ImportOver(r, base, child, stated) ==
    \E faults \in {ImportFaults(r, base, child, stated)} :
        \/ /\ \E fault \in faults : Fail(fault)
           /\ UNCHANGED <<hgNext, hgTally>>
        \/ /\ faults = {}
           /\ \E draft \in {ChangesetDraft(r, base, child, PlacedCopies(r, stated))} :
                 Accepts(draft) /\ builder' = WithAtom(builder, draft)
           /\ hgTally' = Counted(r, base, child, stated)
           /\ hgNext' = hgNext + 1
           /\ Goto("hg import")

(* add_atom refuses no draft made here: a manifest has one line for each   *)
(* path, and a copy names an atom that is there.                           *)
ImportChangeset ==
    /\ stage = "hg import" /\ hgNext \in DOMAIN Changelog \cap hgServed
    /\ ImportOver(hgNext, BaseOf(hgNext), ManifestAt(hgNext), StatedCopies(BaseOf(hgNext), ManifestAt(hgNext)))
    /\ UNCHANGED <<hgServed, hgRepo>>

-----------------------------------------------------------------------------
(* add_refs, loss_boundary, the end.                                       *)

\* The places of the bookmarks that are on a changeset that was imported.
CarriedBookmarks == {n \in DOMAIN input.bookmarks : HasAtom(input.bookmarks[n].node)}

\* The store with the branches of the changesets that were imported.
BranchedStore ==
    Store @@ [branch |-> [r \in hgServed |-> Changeset(r).branch],
              closed |-> {r \in hgServed : "close" \in Changeset(r).extras}]

HgRefs ==
    {Ref("Bookmark", b.name, AtomNamed(b.node), AsStated, <<>>) : b \in {input.bookmarks[n] : n \in CarriedBookmarks}}
    \cup {Ref("NamedBranch", b, AtomOf(Published!BranchTip(BranchedStore, b)), AsStated, <<>>) :
             b \in {Changeset(r).branch : r \in hgServed}}

HgLoss ==
    LET notServed == DOMAIN Changelog \ hgServed
        secret    == IF notServed = {} THEN {} ELSE Published!SecretRef(Store)
    IN  {Drop("revlog layout", 1), Drop("dirstate", 1)}
        \cup (IF "phaseroots" \in input.present THEN {Drop("phases", 1)} ELSE {})
        \cup (IF "obsstore" \in input.present THEN {Drop("obsolescence markers", 1)} ELSE {})
        \cup DropIfAny("not published", Cardinality(secret))
        \cup DropIfAny("hidden", Cardinality(notServed \ secret))
        \cup DropIfAny("copies", hgTally.unresolved)
        \cup DropIfAny("copies on existing paths", hgTally.onExisting)
        \cup (IF DOMAIN Changelog = {} THEN {}
              ELSE DropIfAny("bookmarks", Len(input.bookmarks) - Cardinality(CarriedBookmarks)))
        \cup DropIfAny("offsets", hgTally.offsets)

(* An empty repository has no view, no refs, and loses no bookmark.        *)
FinishHg ==
    /\ stage = "hg import" /\ hgNext \notin DOMAIN Changelog
    /\ IF \A n, k \in CarriedBookmarks : input.bookmarks[n].name = input.bookmarks[k].name => n = k
       THEN Finish(HgRefs, HgLoss, {})
       ELSE Fail("two refs of one kind and name")
    /\ UNCHANGED hgVars

HgNext == OpenHg \/ ComputeView \/ SkipChangeset \/ ImportChangeset \/ FinishHg

-----------------------------------------------------------------------------
(* Properties.                                                             *)

(* While it imports, the loop is in the changelog and the view a part of   *)
(* it; an import holds one atom for each served changeset it has passed.   *)
HgTypeOK ==
    input.kind = "hg" =>
        /\ {hgTally[k] : k \in DOMAIN hgTally} \subseteq Nat
        /\ stage = "hg import" =>
              /\ hgServed \subseteq DOMAIN Changelog /\ hgNext \in 0..Cardinality(DOMAIN Changelog)
              /\ Len(builder.atoms) = Cardinality(hgServed \cap 0..(hgNext - 1))

(* What the repository says, without any of the decoder's steps.  A        *)
(* revision is genuine when what can be rebuilt of it is what its node was *)
(* made of.                                                                *)
IsGenuine(log, r) ==
    /\ log[r].flags \cap ToSet(RefusedFlags) = {}
    /\ log[r].node \in DOMAIN input.made
    /\ ParentsInRange(log, r)
    /\ input.made[log[r].node].parents = ParentNodes(log, r)
    /\ Rebuilt(log, r) = {input.made[log[r].node].text}

PublishedRevs == PublishedIn(Store)

ManifestIsSound(node) ==
    node # NullNode =>
        /\ ManifestRevs(node) # {}
        /\ IsGenuine(Manifests, Max(ManifestRevs(node)))
        /\ \A l \in ManifestLines(node) : l.utf8 /\ l.mode # "unknown flag"

FileIsSound(path, node) ==
    /\ FilelogFaults(path) = {}
    /\ FileRevs(path, node) # {}
    /\ IsGenuine(Filelog(path), Min(FileRevs(path, node)))
    /\ HeaderFault(FileText(path, node)) = {}

\* The copies a changeset states on files its first parent does not have.
CopiesStatedBy(r) == StatedCopies(BaseOf(r), ManifestAt(r))

HgChangesetIsSound(r) ==
    /\ IsGenuine(Changelog, r)
    /\ Changeset(r).extras \cap {"malformed", "raw key"} = {}
    /\ ManifestIsSound(Changeset(r).manifest)
    /\ \A path \in DOMAIN ManifestAt(r) :
          path \notin {<<".hgsub">>, <<".hgsubstate">>} /\ FileIsSound(path, ManifestAt(r)[path].node)
    /\ \A copy \in CopiesStatedBy(r) : copy.rev # {} => FilelogFaults(copy.from) = {}

HgIsSound ==
    /\ input.defects = {}
    /\ "fncache" \in ToSet(input.requires) /\ ToSet(input.requires) \subseteq Supported
    /\ Opened(input.changelog) /\ Opened(input.manifests)
    /\ DOMAIN Changelog # {} =>
          /\ ~input.merging /\ input.unreadable = {}
          /\ \A root \in input.phaseroots : root.phase \in KnownPhases
          /\ \A r \in PublishedRevs : HgChangesetIsSound(r)
          /\ LET carried == {n \in DOMAIN input.bookmarks : RevsOf({input.bookmarks[n].node}) \cap PublishedRevs # {}}
             IN  \A n, k \in carried : input.bookmarks[n].name = input.bookmarks[k].name => n = k

(* An import succeeds exactly when the format is one it reads and all that *)
(* the published changesets hold is genuine and above the floor: although  *)
(* a file revision is read only where it differs from the first parent's,  *)
(* none that was not verified gets in; and damage that only unpublished    *)
(* changesets reach refuses nothing.                                       *)
HgRefusesExactly ==
    (Ended /\ input.kind = "hg") => (stage = "done" <=> HgIsSound)

RevOfAtom(n) == CHOOSE r \in DOMAIN Changelog : Changelog[r].node = builder.atoms[n].source

(* What is imported is the published history: one atom for each of its     *)
(* changesets, its parents in order, and its files those of its manifest   *)
(* when the operations are replayed along first parents.                   *)
HgHistoryExact ==
    (stage = "done" /\ input.kind = "hg") =>
        /\ Len(builder.atoms) = Cardinality(PublishedRevs)
        /\ {RevOfAtom(n) : n \in DOMAIN builder.atoms} = PublishedRevs
        /\ \A n \in DOMAIN builder.atoms :
              LET r    == RevOfAtom(n)
                  tree == ManifestAt(r)
              IN  /\ [k \in DOMAIN builder.atoms[n].parents |-> RevOfAtom(builder.atoms[n].parents[k])]
                       = InOrder(P1(r), P2(r))
                  /\ ReplayedTrees[n] =
                       [p \in DOMAIN tree |-> [blob |-> FileRevision(p, tree[p].node).blob, mode |-> tree[p].mode]]

(* What Mercurial makes sure of, though no hash covers it: the changeset a *)
(* filelog links a revision to is the first one that has it.               *)
LinkIsTrue(path, node) ==
    FileRevs(path, node) # {} =>
        \A l \in Linkrev(path, node) :
            /\ l \in PublishedRevs => MapsTo(l, path, node)
            /\ \A a \in PublishedRevs : MapsTo(a, path, node) => l <= a

LinksAreTrue ==
    \A r \in PublishedRevs : \A copy \in CopiesStatedBy(r) : \A node \in copy.rev : LinkIsTrue(copy.from, node)

(* A copy is never placed on a guess: the atom it names is an ancestor's,  *)
(* whose manifest, where links are true, holds the very file revision that *)
(* the copy states.  And one that a parent, or an earlier changeset on the *)
(* line of first parents, holds is placed.                                 *)
HgCopiesAreTrue ==
    (stage = "done" /\ input.kind = "hg") =>
        \A n \in DOMAIN builder.atoms : \A r \in {RevOfAtom(n)} : \A stated \in {CopiesStatedBy(r)} :
            LET placed == builder.atoms[n].copies
                Names(c, x) == c.to = x.to /\ c.from = x.from
            IN  /\ \A c \in placed :
                      LET a == RevOfAtom(c.fromAtom) IN
                      /\ a # r /\ a \in Published!AncestorsOf(Store, r)
                      /\ \E x \in stated :
                            Names(c, x) /\ \E node \in x.rev : LinksAreTrue => MapsTo(a, x.from, node)
                /\ LinksAreTrue => \A x \in stated :
                      (\E node \in x.rev : \E a \in P2(r) \cup FirstLine(r) : MapsTo(a, x.from, node))
                      => \E c \in placed : Names(c, x)

(* Nothing is dropped in silence: each changeset is an atom, or counted as *)
(* not published or as hidden; each bookmark is a ref or counted; each     *)
(* copy that a file revision states is placed, or counted as having no     *)
(* source or as being onto a file that was there; and each offset that     *)
(* cannot be stated is counted.                                            *)
HgLossAccounts ==
    (stage = "done" /\ input.kind = "hg" /\ DOMAIN Changelog # {}) =>
        LET Lost(what) == SumSet({d.count : d \in {x \in builder.drops : x.what = what}})
            Total(Count(_)) == SumFunction([n \in DOMAIN builder.atoms |-> Count(n)])
            Onto(r) == {p \in DOMAIN ManifestAt(r) :
                           \E a \in P1(r) : p \in DOMAIN ManifestAt(a) /\ ManifestAt(a)[p] # ManifestAt(r)[p]}
        IN  /\ Cardinality(DOMAIN Changelog) = Len(builder.atoms) + Lost("not published") + Lost("hidden")
            /\ Len(input.bookmarks) =
                 Cardinality({rf \in builder.refs : rf.kind = "Bookmark"}) + Lost("bookmarks")
            /\ Total(LAMBDA n : Cardinality(CopiesStatedBy(RevOfAtom(n)))) =
                 Total(LAMBDA n : Cardinality(builder.atoms[n].copies)) + Lost("copies")
            /\ Lost("copies on existing paths") =
                 Total(LAMBDA n : LET r == RevOfAtom(n) IN
                                  Cardinality({p \in Onto(r) : FileRevision(p, ManifestAt(r)[p].node).from # {}}))
            /\ Lost("offsets") =
                 Cardinality({n \in DOMAIN builder.atoms : ~Changeset(RevOfAtom(n)).whole})
=============================================================================
