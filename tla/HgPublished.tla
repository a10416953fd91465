---------------------------- MODULE HgPublished ----------------------------
(***************************************************************************)
(* The published view of a Mercurial repository, and the part of the       *)
(* decode that stands on it: which changesets `hg clone` would transfer,   *)
(* the atoms made of them, and the refs that name them.                    *)
(*                                                                         *)
(* The view is computed by two loops over revision numbers: phases flow    *)
(* from parents to children in ascending order, visibility from children   *)
(* to parents in descending order.  Both rely on a parent's revision       *)
(* number being below its child's, which the revlog reader does not check. *)
(***************************************************************************)
EXTENDS Integers, FiniteSets

CONSTANTS
    Stores,     \* the repositories: records of the shape HgAssumptions states
    Branches    \* names of named branches

NULL_REV == -1
NOT_PUBLISHED_FLOOR == 2

Revs(s) == 0..(s.n - 1)

(* A repository as the decoder reads it: n changesets with their parents,  *)
(* the greatest phase `phaseroots` declares at each (0: none), the         *)
(* obsolescence markers' precursors, the bookmarked changesets, the ones   *)
(* pinned by the dirstate or a local tag, and each one's branch.  (A parent *)
(* number below -1, which only a damaged revlog holds, is left out: the    *)
(* loops skip it and parent_atoms refuses it.)                             *)
ASSUME HgAssumptions ==
    \A s \in Stores :
        /\ s.n \in Nat
        /\ s.p1 \in [Revs(s) -> Nat \cup {NULL_REV}]
        /\ s.p2 \in [Revs(s) -> Nat \cup {NULL_REV}]
        /\ s.root \in [Revs(s) -> Nat]
        /\ s.precursors \subseteq Revs(s)
        /\ s.bookmarks \subseteq Nat /\ IsFiniteSet(s.bookmarks)
        /\ s.otherPins \subseteq Revs(s)
        /\ s.branch \in [Revs(s) -> Branches]
        /\ s.closed \subseteq Revs(s)
        /\ s.merging \in BOOLEAN

VARIABLES
    store,      \* the repository: never written
    pc,         \* start, phases, visible, classify, import, done or refused
    rev,        \* the loop counter of the phase in progress
    phase,      \* phase[r], as far as computed
    visible,    \* the changesets marked visible so far
    served,     \* the published view
    counts,     \* what the loss boundary will say was left out
    parents,    \* the changesets with an atom, each with its atom's parents
    tips,       \* the named-branch refs
    why         \* why the decode was refused

vars == <<store, pc, rev, phase, visible, served, counts, parents, tips, why>>

view == <<phase, visible, served, counts>>

-----------------------------------------------------------------------------
ParentRevs(s, r) == {s.p1[r], s.p2[r]} \ {NULL_REV}

(* Seeded mistake: a parent outside the changelog is reached for.          *)
UnboundedParents(s, r) == ParentRevs(s, r)

(* The parents the two loops can reach: an index outside the changelog is  *)
(* skipped by them and refused by the closure check.                       *)
KnownParents(s, r) == ParentRevs(s, r) \cap Revs(s)

(* What the loops take for granted of a revlog.                            *)
Ordered(s) == \A r \in Revs(s) : \A p \in ParentRevs(s, r) : p \in 0..(r - 1)

(* A changeset's phase once the loop has passed it: its own root's or a    *)
(* parent's, whichever is greater.                                         *)
Greater(x, y) == IF x < y THEN y ELSE x

PhaseAt(s, p) == IF p \in Revs(s) THEN phase[p] ELSE 0

(* Seeded mistake: the phase of a merge's second parent is not inherited.  *)
FirstParentPhaseOf(s, r) == Greater(phase[r], PhaseAt(s, s.p1[r]))

PhaseOf(s, r) ==
    Greater(phase[r], Greater(PhaseAt(s, s.p1[r]), PhaseAt(s, s.p2[r])))

Obsolete(s) == {r \in s.precursors : phase[r] # 0}

Pinned(s) == (s.bookmarks \cap Revs(s)) \cup s.otherPins

(* Seeded mistake: the closure of visibility is taken over first parents.  *)
MarkFirstParent(s, r) == IF r \in visible THEN Revs(s) \cap {s.p1[r]} ELSE {}

MarkParents(s, r) == IF r \in visible THEN KnownParents(s, r) ELSE {}

Unpublished(s) == {r \in Revs(s) : phase[r] >= NOT_PUBLISHED_FLOOR}

(* Seeded mistake: a secret and obsolete changeset is counted twice.       *)
HiddenOrSecret(s) == Obsolete(s) \ visible

Hidden(s) == (Obsolete(s) \ visible) \ Unpublished(s)

Served(s) == (Revs(s) \ Unpublished(s)) \ Hidden(s)

(* Seeded mistake: no closure check.                                       *)
IsAnyView(s, V) == TRUE

IsClosed(s, V) == \A r \in V : ParentRevs(s, r) \subseteq V

(* Seeded mistake: an atom keeps its first parent only.                    *)
FirstParentAtoms(s, r) == {s.p1[r]} \cap DOMAIN parents

ParentAtoms(s, r) == ParentRevs(s, r) \cap DOMAIN parents

(* The heads of a branch, among the imported changesets.                   *)
HeadsOf(s, b) ==
    {r \in DOMAIN parents : /\ s.branch[r] = b
                            /\ \A c \in DOMAIN parents :
                                  s.branch[c] = b => r \notin ParentRevs(s, c)}

(* Seeded mistake: the last head wins, open or closed.                     *)
LastHead(s, kept, r) == r

(* branch_tips: a later head replaces the kept one, unless it would        *)
(* replace an open head by a closed one.                                   *)
KeepTip(s, kept, r) ==
    IF kept # NULL_REV /\ kept \notin s.closed /\ r \in s.closed THEN kept ELSE r

BranchTip(s, b) ==
    LET tip[r \in -1..(s.n - 1)] ==
            IF r = -1 THEN NULL_REV
            ELSE IF r \in HeadsOf(s, b) THEN KeepTip(s, tip[r - 1], r)
            ELSE tip[r - 1]
    IN  tip[s.n - 1]

-----------------------------------------------------------------------------
Init ==
    /\ store \in Stores
    /\ pc = "start"
    /\ rev = 0
    /\ phase = store.root
    /\ visible = {}
    /\ served = {}
    /\ counts = [notPublished |-> 0, hidden |-> 0, bookmarks |-> 0]
    /\ parents = [r \in {} |-> {}]
    /\ tips = [b \in {} |-> 0]
    /\ why = "none"

Refuse(reason) ==
    /\ pc' = "refused"
    /\ why' = reason
    /\ UNCHANGED <<store, rev, view, parents, tips>>

(* An unfinished merge is refused before anything is read.                 *)
Begin ==
    /\ pc = "start"
    /\ IF store.merging
       THEN Refuse("unfinished merge")
       ELSE /\ pc' = "phases"
            /\ UNCHANGED <<store, rev, view, parents, tips, why>>

(* The ascending loop of phases::compute.                                  *)
PhasePass ==
    /\ pc = "phases"
    /\ rev < store.n
    /\ phase' = [phase EXCEPT ![rev] = PhaseOf(store, rev)]
    /\ rev' = rev + 1
    /\ UNCHANGED <<store, pc, visible, served, counts, parents, tips, why>>

(* Every changeset that is not obsolete, or is pinned, is visible.         *)
SeedVisible ==
    /\ pc = "phases"
    /\ rev = store.n
    /\ visible' = (Revs(store) \ Obsolete(store)) \cup Pinned(store)
    /\ pc' = "visible"
    /\ rev' = store.n - 1
    /\ UNCHANGED <<store, phase, served, counts, parents, tips, why>>

(* The descending loop of published::compute.                              *)
VisiblePass ==
    /\ pc = "visible"
    /\ rev >= 0
    /\ visible' = visible \cup MarkParents(store, rev)
    /\ rev' = rev - 1
    /\ UNCHANGED <<store, pc, phase, served, counts, parents, tips, why>>

(* Classify every changeset and count what is left out.                    *)
Classify ==
    /\ pc = "visible"
    /\ rev = -1
    /\ served' = Served(store)
    /\ counts' = [counts EXCEPT !.notPublished = Cardinality(Unpublished(store)),
                                !.hidden = Cardinality(Hidden(store))]
    /\ pc' = "classify"
    /\ UNCHANGED <<store, rev, phase, visible, parents, tips, why>>

(* A view that is not closed under ancestry is refused.                    *)
CheckClosure ==
    /\ pc = "classify"
    /\ IF IsClosed(store, served)
       THEN /\ pc' = "import"
            /\ rev' = 0
            /\ UNCHANGED <<store, view, parents, tips, why>>
       ELSE Refuse("not closed under ancestry")

(* One changeset: skipped when it is not served, else an atom whose        *)
(* parents are the parent changesets that have one already.                *)
Import ==
    /\ pc = "import"
    /\ rev < store.n
    /\ parents' = IF rev \in served
                  THEN [r \in DOMAIN parents \cup {rev} |->
                           IF r = rev THEN ParentAtoms(store, rev) ELSE parents[r]]
                  ELSE parents
    /\ rev' = rev + 1
    /\ UNCHANGED <<store, pc, view, tips, why>>

(* A served changeset can still hold what brygge refuses: a subrepository, *)
(* an extra whose key is not UTF-8, a revision that fails its hash.        *)
RefuseChangeset ==
    /\ pc = "import"
    /\ rev < store.n
    /\ rev \in served
    /\ Refuse("changeset")

(* One ref per bookmark on an imported changeset, the others counted, and  *)
(* one per named branch.                                                   *)
AddRefs ==
    /\ pc = "import"
    /\ rev = store.n
    /\ counts' = [counts EXCEPT !.bookmarks = Cardinality(store.bookmarks \ DOMAIN parents)]
    /\ tips' = [b \in {c \in Branches : HeadsOf(store, c) # {}} |-> BranchTip(store, b)]
    /\ pc' = "done"
    /\ UNCHANGED <<store, rev, phase, visible, served, parents, why>>

Next ==
    \/ Begin
    \/ PhasePass
    \/ SeedVisible
    \/ VisiblePass
    \/ Classify
    \/ CheckClosure
    \/ Import
    \/ RefuseChangeset
    \/ AddRefs

Spec == Init /\ [][Next]_vars

-----------------------------------------------------------------------------
(* The decode always moves one store through its phases, its counters and  *)
(* tables over that store's own revisions (published.rs, decode.rs).       *)
TypeOK ==
    /\ pc \in {"start", "phases", "visible", "classify", "import", "done", "refused"}
    /\ rev \in -1..store.n
    /\ phase \in [Revs(store) -> Nat]
    /\ visible \subseteq Revs(store)
    /\ served \subseteq Revs(store)
    /\ counts \in [notPublished : Nat, hidden : Nat, bookmarks : Nat]
    /\ DOMAIN parents \subseteq served
    /\ \A r \in DOMAIN parents : parents[r] \subseteq served
    /\ DOMAIN tips \subseteq Branches
    /\ why \in {"none", "unfinished merge", "not closed under ancestry", "changeset"}

Accepted == pc \in {"import", "done"}

(* Reference definitions, by reachability instead of by loops: the         *)
(* ancestors of r, r included, up to distance n.                           *)
AncestorsOf(s, r) ==
    LET reach[d \in 0..s.n] ==
            IF d = 0 THEN {r}
            ELSE reach[d - 1] \cup UNION {KnownParents(s, a) : a \in reach[d - 1]}
    IN  reach[s.n]

SecretRef(s) ==
    {r \in Revs(s) : \E a \in AncestorsOf(s, r) : s.root[a] >= NOT_PUBLISHED_FLOOR}

ObsoleteRef(s) == {r \in s.precursors : \E a \in AncestorsOf(s, r) : s.root[a] # 0}

VisibleRef(s) ==
    UNION {AncestorsOf(s, d) :
              d \in (Revs(s) \ ObsoleteRef(s)) \cup (s.bookmarks \cap Revs(s)) \cup s.otherPins}

(* The served changesets are exactly the ones no ancestor of which is      *)
(* secret and that are not obsolete, or from which something that is not   *)
(* obsolete or is pinned descends: the two loops compute the same view as  *)
(* reachability does, whenever parents come first (published.rs).          *)
ViewIsExact ==
    (Accepted /\ Ordered(store)) =>
        served = (Revs(store) \ SecretRef(store)) \ (ObsoleteRef(store) \ VisibleRef(store))

(* Whatever the store, also one whose parents do not come first: nothing   *)
(* below a secret root is ever imported, because the view that is imported *)
(* is closed under ancestry and holds no changeset declared secret.        *)
SecretStaysOut ==
    Accepted => \A r \in served : /\ store.root[r] < NOT_PUBLISHED_FLOOR
                                  /\ ParentRevs(store, r) \subseteq served

(* The comment on the closure check: a served changeset cannot have an     *)
(* unserved parent, by construction.  So a store in revlog order is never  *)
(* refused by it.                                                          *)
ClosedByConstruction ==
    Ordered(store) => why # "not closed under ancestry"

(* The two exclusions of the loss boundary partition what is not served:   *)
(* every changeset is imported or counted, once.                           *)
ExclusionsPartition ==
    Accepted =>
        Cardinality(served) + counts.notPublished + counts.hidden = store.n

(* An imported changeset keeps every one of its parents, whenever parents  *)
(* come first: none is dropped because its atom was not there yet.         *)
ParentsKept ==
    Ordered(store) =>
        \A r \in DOMAIN parents : parents[r] = ParentRevs(store, r)

(* Every branch with an imported changeset has one ref, at what Mercurial  *)
(* resolves its name to: the highest open head, else the highest head.     *)
TipIsMercurials ==
    pc = "done" =>
        \A b \in {store.branch[r] : r \in served} :
            LET heads == HeadsOf(store, b)
                open == heads \ store.closed
                best == IF open # {} THEN open ELSE heads
            IN  Ordered(store) => b \in DOMAIN tips /\ tips[b] \in best /\ \A r \in best : r <= tips[b]
=============================================================================
