----------------------------- MODULE GitDecode -----------------------------
(***************************************************************************)
(* The Git decoder (crates/brygge-decode-git): the checks before the       *)
(* repository is opened, the scan of the refs, the walk of the history the *)
(* carried refs reach, and the import of one commit after another,         *)
(* parents first, each as the difference of two whole trees.               *)
(*                                                                         *)
(* A repository (`input` when its kind is "git") is                        *)
(*   defects  what is wrong with its shape, a set of names in Defects      *)
(*   refs     its references, in the order they are listed                 *)
(*   objects  its object database: a function from ids to objects          *)
(*   altered  the ids whose object does not hash to them                   *)
(*   renames  the option --infer-renames                                   *)
(* Ids are numbers; an id outside `objects` is a missing object.           *)
(* Opening a repository, iterating its refs and walking its history are    *)
(* the gix library's: the walk reads commits without hashing them.         *)
(***************************************************************************)
EXTENDS Decoding

CONSTANTS
    MaxCommits,     \* Limits.max_commits
    MaxTreeDepth,   \* Limits.max_tree_depth
    MaxPathBytes,   \* Limits.max_path_bytes
    MaxTagChain,    \* Limits.max_tag_chain
    MaxBlobBytes    \* Limits.max_blob_bytes

ASSUME GitLimits ==
    /\ {MaxCommits, MaxTreeDepth, MaxPathBytes, MaxTagChain, MaxBlobBytes} \subseteq Nat
    /\ MaxTreeDepth > 0

(* Where a ref's name puts it.                                             *)
Spaces == {"heads", "tags", "remotes", "notes", "stash", "replace", "other"}

(* What is refused before any object is read, in the order of the checks.  *)
Defects == <<"absent", ".git symlink", ".git file", "commondir", "objects symlink",
             "info symlink", "pack symlink", "pack entry symlink", "alternates",
             "http-alternates", "sha256", "not a repository", "shallow", "grafts">>

VARIABLES
    scanned,    \* the refs as far as they are scanned
    tally,      \* what the scan and the import count for the loss boundary
    droppedOnly,\* how many commits only dropped refs reach, if it is known
    order,      \* the commits to import
    remaining,  \* SnapshotCache.remaining: uses still to come of each tree
    snaps,      \* SnapshotCache.snaps
    walks       \* history: how often each root tree was walked

gitVars == <<scanned, tally, droppedOnly, order, remaining, snaps, walks>>

NoTally == [symbolic |-> 0, nested |-> 0, times |-> 0, offsets |-> 0, encodings |-> 0,
            taggerTimes |-> 0, taggerOffsets |-> 0]

GitIdle ==
    /\ scanned = <<>> /\ tally = NoTally /\ droppedOnly = {} /\ order = <<>>
    /\ remaining = EmptyTree /\ snaps = EmptyTree /\ walks = EmptyTree

-----------------------------------------------------------------------------
(* Objects.  find_verified_object is the only way one is read.             *)

Obj(id) == input.objects[id]
Exists(id) == id \in DOMAIN input.objects

(* Seeded mistake: an object is taken for the id it was asked for by.      *)
IsPresent(id) == Exists(id)

Verified(id) == Exists(id) /\ id \notin input.altered

HasKind(id, kind) == Exists(id) /\ Obj(id).kind = kind

ReadsAs(id, kind) == Verified(id) /\ Obj(id).kind = kind

Commits(ids) == {id \in ids : HasKind(id, "commit")}

(* Every commit `tips` reach, and what they name that is not a commit.     *)
Reach(tips) ==
    LET all == Cardinality(Commits(DOMAIN input.objects))
        reach[n \in 0..all] ==
          IF n = 0 THEN tips
          ELSE LET near == reach[n - 1]
               IN  near \cup UNION {ToSet(Obj(c).parents) : c \in Commits(near)}
    IN  reach[all]

\* gix's rev_walk ends with an error on an id that is no commit.
WalkFails(tips) == Reach(tips) # Commits(Reach(tips))

(* No two refs have one name.  An object's id is the hash of what it says, *)
(* its parents' ids included, and of a tag the id of what it names: where  *)
(* no id is altered, some commit of any set has no parent in it, and some  *)
(* tag of any set names none of it.                                        *)
IsRepository(repo) ==
    /\ repo.refs \in Seq(ToSet(repo.refs)) /\ \A ref \in ToSet(repo.refs) : ref.space \in Spaces
    /\ \A n, k \in DOMAIN repo.refs :
          repo.refs[n].space = repo.refs[k].space /\ repo.refs[n].name = repo.refs[k].name => n = k
    /\ DOMAIN repo.objects \subseteq Nat /\ IsFiniteSet(DOMAIN repo.objects)
    /\ \A c \in DOMAIN repo.objects : repo.objects[c].kind = "commit" => repo.objects[c].parents \in Seq(Nat)
    /\ \A b \in DOMAIN repo.objects : repo.objects[b].kind = "blob" => repo.objects[b].size \in Nat
    /\ \A ids \in SUBSET {c \in DOMAIN repo.objects : repo.objects[c].kind = "commit" /\ c \notin repo.altered} :
          ids # {} => \E c \in ids : ToSet(repo.objects[c].parents) \cap ids = {}
    /\ \A ids \in SUBSET {t \in DOMAIN repo.objects : repo.objects[t].kind = "tag" /\ t \notin repo.altered} :
          ids # {} => \E t \in ids : repo.objects[t].to \notin ids

-----------------------------------------------------------------------------
(* open.rs: the shape of the directory, then the repository-level floor.   *)

OpenRepository ==
    /\ stage = "git open"
    /\ \/ /\ input.defects = {}
          /\ Goto("git scan")
          /\ UNCHANGED builder
       \/ \E n \in DOMAIN Defects :
             /\ Defects[n] \in input.defects
             /\ \A k \in 1..(n - 1) : Defects[k] \notin input.defects
             /\ Fail(Defects[n])
    /\ UNCHANGED gitVars

-----------------------------------------------------------------------------
(* scan_refs, one ref at a time.                                           *)

(* The objects met when tags are followed from `id`: chain[n] after n hops. *)
Chain(id, hops) ==
    LET chain[n \in 0..hops] ==
          IF n = 0 THEN id
          ELSE LET last == chain[n - 1]
               IN  IF HasKind(last, "tag") THEN Obj(last).to ELSE last
    IN  chain

AllHops == Cardinality({id \in DOMAIN input.objects : Obj(id).kind = "tag"})

TagHops(chain) == Cardinality({n \in DOMAIN chain : HasKind(chain[n], "tag")})

(* Seeded mistake: a branch is taken to carry the tag it points at.        *)
NestedTagsOfAny(hops, carriesTag) == IF hops > 0 THEN hops - 1 ELSE 0

\* The tags passed through, but for the one the ref's annotation carries.
NestedTags(hops, carriesTag) == IF carriesTag /\ hops > 0 THEN hops - 1 ELSE hops

(* peel_carried: every object on the way is verified.                      *)
Peel(direct, carriesTag) ==
    LET chain == Chain(direct, MaxTagChain)
        hops  == TagHops(chain)
    IN  [fault  |-> IF \E n \in DOMAIN chain : ~Verified(chain[n]) THEN "unreadable object"
                    ELSE IF hops > MaxTagChain THEN "tag chain limit"
                    ELSE NoFailure,
         commit |-> Commits({chain[MaxTagChain]}),
         nested |-> NestedTags(hops, carriesTag)]

(* A dropped ref is peeled by gix, which verifies nothing; one that does   *)
(* not end at a commit names none.                                         *)
PeelLeniently(direct) == Commits({Chain(direct, AllHops)[AllHops]})

(* strict_seconds and strict_offset_minutes: what a time field states.     *)
TimeClaim(raw) ==
    CASE raw = "well-formed" -> {"seconds", "offset"}
      [] raw = "bad offset"  -> {"seconds"}
      [] raw = "bad seconds" -> {}

\* ParseCounts of a sequence of claims.
LackSeconds(claims) == Len(SelectSeq(claims, LAMBDA c : "seconds" \notin c))
LackOffset(claims) == Len(SelectSeq(claims, LAMBDA c : c = {"seconds"}))

(* annotated_tag_identity: none for a lightweight tag; a tag need not name *)
(* a tagger, whose time is a sequence of at most one field.                *)
TagIdentity(id) ==
    IF HasKind(id, "tag")
    THEN <<[tag |-> id, time |-> [n \in DOMAIN Obj(id).tagger |-> TimeClaim(Obj(id).tagger[n])]]>>
    ELSE <<>>

TaggerClaims(identity) == FlattenSeq([n \in DOMAIN identity |-> identity[n].time])

IsCarried(ref) == ref.space \in {"heads", "tags"}

ScanRef ==
    /\ stage = "git scan"
    /\ tally.symbolic + Len(scanned) < Len(input.refs)
    /\ LET ref      == input.refs[tally.symbolic + Len(scanned) + 1]
           isTag    == ref.space = "tags"
           peeled   == Peel(ref.to, isTag)
           identity == IF isTag THEN TagIdentity(ref.to) ELSE <<>>
           Keep(commit, id, t) ==
              /\ scanned' = Append(scanned, [space |-> ref.space, name |-> ref.name,
                                             commit |-> commit, identity |-> id])
              /\ tally' = t
              /\ Goto("git scan") /\ UNCHANGED builder
       IN  \/ /\ ref.space = "replace"
              /\ Fail("replace-ref") /\ UNCHANGED <<scanned, tally>>
           \/ /\ ref.space # "replace" /\ ref.symbolic
              /\ tally' = [tally EXCEPT !.symbolic = @ + 1]
              /\ Goto("git scan") /\ UNCHANGED <<scanned, builder>>
           \/ /\ IsCarried(ref) /\ ~ref.symbolic /\ ~ref.utf8
              /\ Fail("non-utf8-ref-name") /\ UNCHANGED <<scanned, tally>>
           \/ /\ IsCarried(ref) /\ ~ref.symbolic /\ ref.utf8
              /\ \/ /\ peeled.fault # NoFailure
                    /\ Fail(peeled.fault) /\ UNCHANGED <<scanned, tally>>
                 \/ /\ peeled.fault = NoFailure
                    /\ Keep(peeled.commit, identity,
                            [tally EXCEPT
                               !.nested = @ + peeled.nested,
                               !.taggerTimes = @ + LackSeconds(TaggerClaims(identity)),
                               !.taggerOffsets = @ + LackOffset(TaggerClaims(identity))])
           \/ /\ ref.space \notin {"heads", "tags", "replace"} /\ ~ref.symbolic
              /\ Keep(PeelLeniently(ref.to), <<>>, tally)
    /\ UNCHANGED <<droppedOnly, order, remaining, snaps, walks>>

-----------------------------------------------------------------------------
(* The walk: the commits carried refs reach, how many only dropped refs    *)
(* reach, and the order of the import.                                     *)

Tips(kinds) == UNION {scanned[n].commit : n \in {k \in DOMAIN scanned : scanned[k].space \in kinds}}
CarriedTips == Tips({"heads", "tags"})
DroppedTips == Tips({"remotes", "notes", "stash", "other"})

(* count_dropped_only_commits: at most one number, none when a commit is   *)
(* not there to be counted; it never fails the decode.                     *)
CountDroppedOnly ==
    LET only == Reach(DroppedTips) \ Reach(CarriedTips)
    IN  IF only = Commits(only) THEN {Cardinality(only)} ELSE {}

(* parent_first_order: Kahn's algorithm, the smallest ready id first.      *)
ParentFirst(ids) ==
    LET Ready(out) == {c \in ids \ ToSet(out) : ToSet(Obj(c).parents) \subseteq ToSet(out)}
        taken[n \in 0..Cardinality(ids)] ==
          IF n = 0 THEN <<>> ELSE Append(taken[n - 1], Min(Ready(taken[n - 1])))
    IN  taken[Cardinality(ids)]

FirstParents(c) == {Obj(c).parents[n] : n \in DOMAIN Obj(c).parents \cap {1}}

\* The root trees the import of commit c asks a snapshot of.
OwnTree(c) == Obj(c).tree
BaseTrees(c) == {OwnTree(p) : p \in FirstParents(c)}

(* Seeded mistake: only a commit's own tree counts as used.                *)
OwnUses(commits, t) == Cardinality({c \in commits : OwnTree(c) = t})

(* count_snapshot_uses.                                                    *)
Uses(commits, t) ==
    Cardinality({c \in commits : OwnTree(c) = t})
    + Cardinality({c \in commits : t \in BaseTrees(c)})

WalkHistory ==
    /\ stage = "git scan" /\ tally.symbolic + Len(scanned) = Len(input.refs)
    /\ LET found == Reach(CarriedTips) IN
       \/ /\ WalkFails(CarriedTips)
          /\ Fail("unreadable object") /\ UNCHANGED <<droppedOnly, order, remaining>>
       \/ /\ Cardinality(Commits(found)) > MaxCommits
          /\ Fail("commit count limit") /\ UNCHANGED <<droppedOnly, order, remaining>>
       \/ /\ ~WalkFails(CarriedTips) /\ Cardinality(found) <= MaxCommits
          \* commit_parents: every commit is verified before any is imported
          /\ \/ /\ \E c \in found : ~Verified(c)
                /\ Fail("unreadable object") /\ UNCHANGED <<droppedOnly, order, remaining>>
             \/ /\ \A c \in found : Verified(c)
                /\ droppedOnly' = CountDroppedOnly
                /\ order' = ParentFirst(found)
                /\ remaining' = [t \in {OwnTree(c) : c \in found} |-> Uses(found, t)]
                /\ Goto("git import") /\ UNCHANGED builder
    /\ UNCHANGED <<scanned, tally, snaps, walks>>

-----------------------------------------------------------------------------
(* walk_tree.  A place is a tree with the path it was met at; level n      *)
(* holds the places n trees deep.  The stack visits the same places.       *)

EntriesOf(place) == IF ReadsAs(place.tree, "tree") THEN Obj(place.tree).entries ELSE {}

PathOf(place, entry) == Append(place.path, entry.name)

Places(root) ==
    LET level[n \in 1..MaxTreeDepth] ==
          IF n = 1 THEN {[tree |-> root, path |-> <<>>]}
          ELSE UNION {{[tree |-> e.id, path |-> PathOf(pl, e)] :
                          e \in {x \in EntriesOf(pl) : x.mode = "tree"}} : pl \in level[n - 1]}
    IN  level

Leaves(root) ==
    UNION {{[path |-> PathOf(pl, e), oid |-> e.id, mode |-> e.mode] :
               e \in {x \in EntriesOf(pl) : x.mode \notin {"tree", "gitlink"}}} :
           pl \in UNION {Places(root)[n] : n \in 1..MaxTreeDepth}}

(* What refuses a tree.  Where there are several, which one is met first   *)
(* is left open.                                                           *)
TreeFaults(root) ==
    LET places == Places(root)
        all    == UNION {places[n] : n \in 1..MaxTreeDepth}
        Meets(P(_, _)) == \E pl \in all : \E e \in EntriesOf(pl) : P(pl, e)
        Too(pl, e) == LET path == PathOf(pl, e)
                      IN  SumFunction([n \in DOMAIN path |-> Len(path[n]) + 1]) - 1 > MaxPathBytes
    IN  {fault \in {"unreadable object", "non-utf8-path", "submodule", "path limit",
                    "tree nesting limit", "duplicate path"} :
           CASE fault = "unreadable object" -> \E pl \in all : ~ReadsAs(pl.tree, "tree")
             [] fault = "non-utf8-path"     -> Meets(LAMBDA pl, e : ~e.utf8)
             [] fault = "submodule"         -> Meets(LAMBDA pl, e : e.mode = "gitlink")
             [] fault = "path limit"        -> Meets(Too)
             [] fault = "tree nesting limit" ->
                  \E pl \in places[MaxTreeDepth] : \E e \in EntriesOf(pl) : e.mode = "tree"
             [] fault = "duplicate path"    ->
                  \E l, k \in Leaves(root) : l # k /\ l.path = k.path}

Snapshot(root) ==
    [p \in {l.path : l \in Leaves(root)} |->
        LET leaf == CHOOSE l \in Leaves(root) : l.path = p
        IN  [oid |-> leaf.oid, mode |-> leaf.mode]]

-----------------------------------------------------------------------------
(* SnapshotCache.                                                          *)

Cached(cache, trees) ==
    [t \in DOMAIN cache \cup trees |-> IF t \in DOMAIN cache THEN cache[t] ELSE Snapshot(t)]

AsOne(holds) == IF holds THEN 1 ELSE 0

(* Seeded mistake: a tree is kept when it has no use to come.              *)
UsesLeftOrNone(uses, own, bases) ==
    [t \in DOMAIN uses |-> uses[t] - AsOne(t = own) - AsOne(t \in bases)]

(* One use of a commit's own tree, and one of its base, is done: a tree    *)
(* with no use to come is dropped.                                         *)
UsesLeft(uses, own, bases) ==
    LET left == [t \in DOMAIN uses |-> uses[t] - AsOne(t = own) - AsOne(t \in bases)]
    IN  Restrict(left, {t \in DOMAIN left : left[t] > 0})

-----------------------------------------------------------------------------
(* diff_to_ops: the copy records of --infer-renames, beside the delete and *)
(* the add: one blob deleted at one path and added at one path.            *)

InferredCopies(base, child, fromAtoms) ==
    LET gone == DOMAIN base \ DOMAIN child
        new  == DOMAIN child \ DOMAIN base
        Only(tree, paths, oid) == {p \in paths : tree[p].oid = oid}
        moved == {b \in {base[p].oid : p \in gone} :
                     /\ Cardinality(Only(base, gone, b)) = 1
                     /\ Cardinality(Only(child, new, b)) = 1}
    IN  IF ~input.renames THEN {}
        ELSE {[from |-> CHOOSE p \in Only(base, gone, b) : TRUE,
               to |-> CHOOSE p \in Only(child, new, b) : TRUE,
               fromAtom |-> a, status |-> Derived("InferredRename")] :
                 b \in moved, a \in fromAtoms}

(* blob_bytes: the size comes from the header, before the blob is read.    *)
BlobFaults(id) ==
    IF ~Exists(id) THEN {"unreadable object"}
    ELSE IF Obj(id).kind = "blob" /\ Obj(id).size > MaxBlobBytes THEN {"blob limit"}
    ELSE IF ~ReadsAs(id, "blob") THEN {"unreadable object"} ELSE {}

\* The blobs diff_to_ops reads, and what a snapshot holds once they are read.
ReadBlobs(base, child) ==
    {child[p].oid : p \in {q \in DOMAIN child : q \in DOMAIN base => base[q] # child[q]}}

Contents(tree) == [p \in DOMAIN tree |-> [blob |-> Obj(tree[p].oid).bytes, mode |-> tree[p].mode]]

(* build_metadata and signatures_and_extras.                               *)
ClaimsOf(c) == <<TimeClaim(Obj(c).author), TimeClaim(Obj(c).committer)>>

Metadata(c) ==
    [time |-> ClaimsOf(c),
     encoding |-> IF Obj(c).encoding = "utf8" THEN "utf8" ELSE "none",
     headers |-> Obj(c).headers]

HeaderFaults(c) == IF "raw" \in Obj(c).headers THEN {"non-utf8-commit-header-name"} ELSE {}

(* One turn of decode_with's loop.                                         *)
ImportCommit ==
    /\ stage = "git import" /\ NextAtom <= Len(order)
    /\ LET c      == order[NextAtom]
           first  == FirstParents(c)
           bases  == BaseTrees(c)
           needed == {OwnTree(c)} \cup bases
           built  == Cached(snaps, needed)
           child  == built[OwnTree(c)]
           base   == IF bases = {} THEN EmptyTree ELSE built[CHOOSE t \in bases : TRUE]
           treeFaults == UNION {TreeFaults(t) : t \in needed \ DOMAIN snaps}
           draft  == [parents |-> [n \in DOMAIN Obj(c).parents |-> AtomNamed(Obj(c).parents[n])],
                      ops |-> DiffOps(Contents(base), Contents(child), AsStated),
                      copies |-> InferredCopies(base, child, {AtomNamed(p) : p \in first}),
                      meta |-> Metadata(c), source |-> c, status |-> AsStated]
           readFaults == (UNION {BlobFaults(b) : b \in ReadBlobs(base, child)}) \cup HeaderFaults(c)
           faults == IF treeFaults # {} THEN treeFaults
                     ELSE IF readFaults # {} THEN readFaults
                     ELSE IF ~Accepts(draft) THEN {"refused by the builder"}
                     ELSE {}
           done   == UsesLeft(remaining, OwnTree(c), bases)
       IN  \/ /\ \E fault \in faults : Fail(fault)
              /\ UNCHANGED <<tally, remaining, snaps, walks>>
           \/ /\ faults = {}
              /\ builder' = WithAtom(builder, draft)
              /\ remaining' = done
              /\ snaps' = Restrict(built, DOMAIN built \cap DOMAIN done)
              /\ walks' = [t \in DOMAIN walks \cup needed |->
                              (IF t \in DOMAIN walks THEN walks[t] ELSE 0)
                              + AsOne(t \in needed \ DOMAIN snaps)]
              /\ tally' = [tally EXCEPT
                             !.times = @ + LackSeconds(ClaimsOf(c)),
                             !.offsets = @ + LackOffset(ClaimsOf(c)),
                             !.encodings = @ + IF Obj(c).encoding = "raw" THEN 1 ELSE 0]
              /\ Goto("git import")
    /\ UNCHANGED <<scanned, droppedOnly, order>>

-----------------------------------------------------------------------------
(* The refs, the losses, the end.                                          *)

Names(kind) == IF kind = "heads" THEN "Branch" ELSE "Tag"

HasTarget(n) == \E c \in scanned[n].commit : HasAtom(c)

CarriedRefs ==
    {Ref(Names(scanned[n].space), scanned[n].name,
         AtomNamed(CHOOSE c \in scanned[n].commit : TRUE), AsStated, scanned[n].identity) :
        n \in {k \in DOMAIN scanned : IsCarried(scanned[k]) /\ HasTarget(k)}}

AllTimes == tally.times + tally.taggerTimes

(* loss_boundary.                                                          *)
GitLoss ==
    LET Scanned(space) == Len(SelectSeq(scanned, LAMBDA r : r.space = space))
        nowhere == {n \in DOMAIN scanned : IsCarried(scanned[n]) /\ ~HasTarget(n)}
    IN  {Drop("object store", 1), Drop("index and working tree", 1), Drop("reflogs", 1)}
        \cup (UNION {DropIfAny(ns, Scanned(ns)) : ns \in {"remotes", "notes", "stash", "other"}})
        \cup (IF droppedOnly = {} THEN {Drop("uncounted dropped-only commits", 1)}
              ELSE UNION {DropIfAny("dropped-only commits", n) : n \in droppedOnly})
        \cup DropIfAny("refs to non-commits", Cardinality(nowhere))
        \cup DropIfAny("symbolic refs", tally.symbolic)
        \cup DropIfAny("times", AllTimes)
        \cup DropIfAny("offsets", tally.offsets + tally.taggerOffsets)
        \cup DropIfAny("encodings", tally.encodings)
        \cup DropIfAny("nested tags", tally.nested)

FinishGit ==
    /\ stage = "git import" /\ NextAtom > Len(order)
    /\ Finish(CarriedRefs, GitLoss, {})
    /\ UNCHANGED gitVars

GitNext == OpenRepository \/ ScanRef \/ WalkHistory \/ ImportCommit \/ FinishGit

-----------------------------------------------------------------------------
(* Properties.                                                             *)

IsTreeMap(tree) == \A p \in DOMAIN tree : DOMAIN tree[p] = {"oid", "mode"}

(* The type invariant of the git part.                                     *)
GitTypeOK ==
    /\ \A n \in DOMAIN scanned : Cardinality(scanned[n].commit) <= 1
    /\ \A f \in DOMAIN tally : tally[f] \in Nat
    /\ droppedOnly \subseteq Nat /\ Cardinality(droppedOnly) <= 1
    /\ IsInjective(order)
    /\ \A t \in DOMAIN remaining : remaining[t] \in 1..(2 * Len(order))
    /\ DOMAIN snaps \subseteq DOMAIN remaining
    /\ \A t \in DOMAIN snaps : IsTreeMap(snaps[t])

(* The snapshot cache holds exactly the trees that an imported commit      *)
(* asked for and a commit still to come asks for again, so that no tree is *)
(* walked twice however branches interleave and trees come back, and       *)
(* nothing is held at the end.                                             *)
GitSnapshotsAreFrontier ==
    (stage = "git import") =>
        LET Asked(ns) == UNION {{OwnTree(order[n])} \cup BaseTrees(order[n]) : n \in ns}
            past   == Asked(1..(NextAtom - 1))
            coming == Asked(NextAtom..Len(order))
        IN  /\ DOMAIN snaps = past \cap coming
            /\ \A t \in DOMAIN snaps : snaps[t] = Snapshot(t)
            /\ \A t \in DOMAIN walks : walks[t] = 1

(* What the repository says, without any of the decoder's steps: the       *)
(* objects a carried ref leads through, and the history at its end.        *)
CarriedFrom == {input.refs[n].to :
                   n \in {k \in DOMAIN input.refs : IsCarried(input.refs[k]) /\ ~input.refs[k].symbolic}}

Through(id) == Range(Chain(id, AllHops))

CarriedHistory == Reach(Commits(UNION {Through(id) : id \in CarriedFrom}))

DroppedHistory ==
    Reach(Commits(UNION {Through(input.refs[n].to) :
            n \in {k \in DOMAIN input.refs : ~IsCarried(input.refs[k]) /\ ~input.refs[k].symbolic}}))

(* Everything some objects lead to, files and directories included.        *)
Named(id) ==
    CASE Obj(id).kind = "commit" -> {Obj(id).tree} \cup ToSet(Obj(id).parents)
      [] Obj(id).kind = "tree"   -> {e.id : e \in {x \in Obj(id).entries : x.mode # "gitlink"}}
      [] Obj(id).kind = "tag"    -> {Obj(id).to}
      [] OTHER -> {}

Everything(ids) ==
    LET there == Cardinality(DOMAIN input.objects)
        all[n \in 0..there] ==
          IF n = 0 THEN ids
          ELSE LET near == all[n - 1]
               IN  near \cup UNION {Named(id) : id \in near \cap DOMAIN input.objects}
    IN  all[there]

GitIsSound ==
    /\ input.defects = {}
    /\ \A n \in DOMAIN input.refs :
          /\ input.refs[n].space # "replace"
          /\ IsCarried(input.refs[n]) => input.refs[n].symbolic \/ input.refs[n].utf8
    /\ \A id \in CarriedFrom :
          /\ Through(id) \subseteq DOMAIN input.objects \ input.altered
          /\ Cardinality({o \in Through(id) : Obj(o).kind = "tag"}) <= MaxTagChain
    /\ Cardinality(CarriedHistory) <= MaxCommits
    /\ Everything(CarriedHistory) \subseteq DOMAIN input.objects \ input.altered
    /\ \A c \in CarriedHistory :
          /\ HasKind(c, "commit") /\ HeaderFaults(c) = {}
          /\ TreeFaults(OwnTree(c)) = {}
          /\ \A l \in Leaves(OwnTree(c)) : HasKind(l.oid, "blob") /\ Obj(l.oid).size <= MaxBlobBytes

(* An import succeeds exactly when everything the carried refs lead to can *)
(* be verified and is above the floor: although a blob is read only where  *)
(* it changed and a tree only when it is not cached, nothing unverified    *)
(* gets in, and damage that only dropped refs reach refuses nothing.       *)
GitRefusesExactly ==
    (Ended /\ input.kind = "git") => (stage = "done" <=> GitIsSound)

(* What is imported is the history of the carried refs: each commit once,  *)
(* its parents in order, its files those of its tree when the operations   *)
(* are replayed along first parents; and the number of commits left out    *)
(* with the dropped refs is exact, or said to be unknown.                  *)
GitHistoryExact ==
    (stage = "done" /\ input.kind = "git") =>
        /\ [n \in DOMAIN order |-> builder.atoms[n].source] = order
        /\ ToSet(order) = CarriedHistory /\ Len(order) = Cardinality(CarriedHistory)
        /\ \A n \in DOMAIN order :
              /\ [k \in DOMAIN builder.atoms[n].parents |->
                    order[builder.atoms[n].parents[k]]] = Obj(order[n]).parents
              /\ ReplayedTrees[n] = Contents(Snapshot(OwnTree(order[n])))
        /\ LET only == DroppedHistory \ CarriedHistory
           IN  droppedOnly = IF only = Commits(only) THEN {Cardinality(only)} ELSE {}

(* Nothing is dropped in silence: each ref is carried, or counted in one   *)
(* loss; each tag object on the way from a carried ref to a commit is an   *)
(* annotation or counted; each time a commit or a tag could not state is   *)
(* counted.                                                                *)
GitLossAccounts ==
    (stage = "done" /\ input.kind = "git") =>
        LET Lost(what) == SumSet({d.count : d \in {x \in builder.drops : x.what = what}})
            direct == SelectSeq(input.refs, LAMBDA r : IsCarried(r) /\ ~r.symbolic)
            toCommit == SelectSeq(direct, LAMBDA r : Commits(Through(r.to)) # {})
            TagsOf(r) == Cardinality({o \in Through(r.to) : HasKind(o, "tag")})
            IsAnnotated(r) == r.space = "tags" /\ TagsOf(r) > 0
            taggers == FlattenSeq([n \in DOMAIN direct |->
                          IF direct[n].space = "tags" THEN TaggerClaims(TagIdentity(direct[n].to))
                          ELSE <<>>])
            claims == FlattenSeq([n \in DOMAIN order |-> builder.atoms[n].meta.time])
        IN  /\ Len(input.refs) = Cardinality(builder.refs) + Lost("symbolic refs")
                 + Lost("refs to non-commits") + Lost("remotes") + Lost("notes")
                 + Lost("stash") + Lost("other")
            /\ Cardinality({r \in builder.refs : r.annotation # <<>>}) = Len(SelectSeq(toCommit, IsAnnotated))
            /\ FoldSeq(LAMBDA r, sum : sum + TagsOf(r), 0, direct)
                 = Lost("nested tags") + Len(SelectSeq(direct, IsAnnotated))
            /\ Lost("times") = LackSeconds(claims \o taggers)
            /\ Lost("offsets") = LackOffset(claims \o taggers)
=============================================================================
