------------------------- MODULE HgPublishedProofs -------------------------
(***************************************************************************)
(* For every repository: the published view that is imported is closed     *)
(* under ancestry and holds nothing secret; and for every repository whose *)
(* parents come first, the closure check never fires and every atom keeps  *)
(* all its parents.                                                        *)
(***************************************************************************)
EXTENDS HgPublished, DataInduction

AfterPhases == pc \in {"visible", "classify", "import", "done"}

(* What each loop has achieved, at every step of it.                       *)
PhaseProgress ==
    /\ \A r \in Revs(store) : store.root[r] <= phase[r]
    /\ pc \in {"start", "phases"} => rev \in 0..store.n
    /\ pc = "start" => rev = 0
    /\ (pc = "phases" /\ Ordered(store)) =>
          \A r \in 0..(rev - 1) : \A p \in ParentRevs(store, r) : phase[p] <= phase[r]
    /\ (AfterPhases /\ Ordered(store)) =>
          \A r \in Revs(store) : \A p \in ParentRevs(store, r) : phase[p] <= phase[r]

VisibleProgress ==
    /\ pc = "visible" =>
          /\ rev \in -1..(store.n - 1)
          /\ Revs(store) \ Obsolete(store) \subseteq visible
          /\ Ordered(store) =>
                \A r \in visible : r > rev => ParentRevs(store, r) \subseteq visible
    /\ pc = "classify" =>
          /\ \A r \in served : phase[r] < NOT_PUBLISHED_FLOOR
          /\ Ordered(store) => IsClosed(store, served)

ImportProgress ==
    /\ pc \notin {"import", "done", "refused"} => DOMAIN parents = {}
    /\ pc = "import" => rev \in 0..store.n /\ DOMAIN parents = served \cap 0..(rev - 1)

IInv ==
    /\ store \in Stores
    /\ TypeOK
    /\ PhaseProgress
    /\ VisibleProgress
    /\ ImportProgress
    /\ SecretStaysOut
    /\ ClosedByConstruction
    /\ ParentsKept

-----------------------------------------------------------------------------
(* In a store whose parents come first, no parent is outside it.           *)

LEMMA OrderedParents ==
    ASSUME NEW s \in Stores, Ordered(s), NEW r \in Revs(s)
    PROVE  /\ ParentRevs(s, r) \subseteq Revs(s)
           /\ KnownParents(s, r) = ParentRevs(s, r)
           /\ \A p \in ParentRevs(s, r) : p < r
  BY HgAssumptions DEF Ordered, Revs, KnownParents

(* What is counted is finite.                                              *)

LEMMA RevsAreFinite ==
    ASSUME NEW s \in Stores, NEW V, V \subseteq Revs(s)
    PROVE  IsFiniteSet(V) /\ Cardinality(V) \in Nat
PROOF
<1>1. s.n - 1 \in Int
  BY HgAssumptions
<1>2. IsFiniteSet(Revs(s))
  BY <1>1, FS_Interval DEF Revs
<1> QED
  BY <1>2, FS_Subset, FS_CardinalityType

(* The phase the loop computes bounds the changeset's and its parents'.    *)

LEMMA PhaseOfBounds ==
    ASSUME NEW s \in Stores, phase \in [Revs(s) -> Nat], NEW r \in Revs(s)
    PROVE  /\ PhaseOf(s, r) \in Nat
           /\ phase[r] <= PhaseOf(s, r)
           /\ \A p \in KnownParents(s, r) : phase[p] <= PhaseOf(s, r)
PROOF
<1>1. phase[r] \in Nat
  OBVIOUS
<1>2. PhaseAt(s, s.p1[r]) \in Nat /\ PhaseAt(s, s.p2[r]) \in Nat
  BY DEF PhaseAt
<1>3. \A x, y \in Nat : Greater(x, y) \in Nat /\ x <= Greater(x, y) /\ y <= Greater(x, y)
  BY DEF Greater
<1>4. Greater(PhaseAt(s, s.p1[r]), PhaseAt(s, s.p2[r])) \in Nat
  BY <1>2, <1>3
<1>5. PhaseOf(s, r) \in Nat /\ phase[r] <= PhaseOf(s, r)
  BY <1>1, <1>3, <1>4 DEF PhaseOf
<1>6. /\ PhaseAt(s, s.p1[r]) <= PhaseOf(s, r)
      /\ PhaseAt(s, s.p2[r]) <= PhaseOf(s, r)
  <2> DEFINE g == Greater(PhaseAt(s, s.p1[r]), PhaseAt(s, s.p2[r]))
  <2>1. PhaseAt(s, s.p1[r]) <= g /\ PhaseAt(s, s.p2[r]) <= g
    BY <1>2, <1>3
  <2>2. g <= PhaseOf(s, r)
    BY <1>1, <1>3, <1>4 DEF PhaseOf
  <2> HIDE DEF g
  <2> QED
    BY <1>2, <1>4, <1>5, <2>1, <2>2 DEF g
<1>7. \A p \in KnownParents(s, r) : phase[p] <= PhaseOf(s, r)
  <2> TAKE p \in KnownParents(s, r)
  <2>1. p \in Revs(s) /\ (p = s.p1[r] \/ p = s.p2[r])
    BY DEF KnownParents, ParentRevs
  <2> QED
    BY <2>1, <1>6 DEF PhaseAt
<1> QED
  BY <1>5, <1>7

-----------------------------------------------------------------------------
LEMMA InitInv == Init => IInv
PROOF
<1> SUFFICES ASSUME Init PROVE IInv
  OBVIOUS
<1> USE DEF Init
<1>1. TypeOK
  BY HgAssumptions DEF TypeOK, Revs
<1>2. PhaseProgress
  <2>1. \A r \in Revs(store) : store.root[r] <= phase[r]
    BY HgAssumptions
  <2>2. 0 \in 0..store.n
    BY HgAssumptions
  <2> QED
    BY <2>1, <2>2 DEF PhaseProgress, AfterPhases
<1>3. VisibleProgress /\ ImportProgress
  BY DEF VisibleProgress, ImportProgress
<1>4. SecretStaysOut /\ ClosedByConstruction /\ ParentsKept
  BY DEF SecretStaysOut, Accepted, ClosedByConstruction, ParentsKept
<1> QED
  BY <1>1, <1>2, <1>3, <1>4 DEF IInv

-----------------------------------------------------------------------------
LEMMA BeginKeepsInv == IInv /\ Begin => IInv'
PROOF
<1> SUFFICES ASSUME IInv, Begin PROVE IInv'
  OBVIOUS
<1> USE DEF IInv, Begin, Refuse, view
<1>1. TypeOK'
  BY DEF TypeOK
<1>2. PhaseProgress'
  <2>1. rev = 0 /\ rev \in 0..store.n /\ \A r \in Revs(store) : store.root[r] <= phase[r]
    BY DEF PhaseProgress
  <2>2. \A r \in 0..(rev - 1) : FALSE
    BY ONLY <2>1
  <2> QED
    BY <2>1, <2>2 DEF PhaseProgress, AfterPhases
<1>3. VisibleProgress' /\ ImportProgress'
  BY DEF VisibleProgress, ImportProgress
<1>4. SecretStaysOut' /\ ClosedByConstruction' /\ ParentsKept'
  BY DEF SecretStaysOut, Accepted, ClosedByConstruction, ParentsKept
<1> QED
  BY <1>1, <1>2, <1>3, <1>4

(* The ascending loop: what is already passed is not touched again, since  *)
(* only the phase of the changeset in hand changes, and it only rises.     *)
LEMMA PhasePassKeepsInv == IInv /\ PhasePass => IInv'
PROOF
<1> SUFFICES ASSUME IInv, PhasePass PROVE IInv'
  OBVIOUS
<1> USE DEF PhasePass
<1>1. store \in Stores /\ rev \in 0..store.n /\ phase \in [Revs(store) -> Nat] /\ store.n \in Nat
  BY HgAssumptions DEF IInv, TypeOK, PhaseProgress
<1>2. rev \in Revs(store)
  BY <1>1 DEF Revs
<1>3. /\ PhaseOf(store, rev) \in Nat
      /\ phase[rev] <= PhaseOf(store, rev)
      /\ \A p \in KnownParents(store, rev) : phase[p] <= PhaseOf(store, rev)
  BY <1>1, <1>2, PhaseOfBounds
<1>4. TypeOK'
  <2>1. rev' \in -1..store'.n
    BY <1>1, <1>2 DEF Revs
  <2>2. phase' \in [Revs(store') -> Nat]
    BY <1>1, <1>2, <1>3
  <2> QED
    BY <2>1, <2>2 DEF IInv, TypeOK
<1>5. PhaseProgress'
  <2>1. \A r \in Revs(store) : store.root[r] <= phase'[r]
    BY <1>1, <1>2, <1>3, HgAssumptions DEF IInv, PhaseProgress
  <2>2. ASSUME Ordered(store), NEW r \in 0..rev, NEW p \in ParentRevs(store, r)
        PROVE  phase'[p] <= phase'[r]
    <3>1. r \in Revs(store)
      BY <1>1, <1>2 DEF Revs
    <3>2. p \in Revs(store) /\ p < r /\ p \in KnownParents(store, r)
      BY <1>1, <3>1, <2>2, OrderedParents
    <3>3. p # rev
      BY <1>1, <3>1, <3>2 DEF Revs
    <3>4. phase'[p] = phase[p]
      BY <1>1, <3>2, <3>3
    <3>5. CASE r = rev
      BY <1>1, <1>2, <1>3, <3>2, <3>4, <3>5
    <3>6. CASE r # rev
      <4>1. r \in 0..(rev - 1)
        BY <1>1, <3>6
      <4>2. phase[p] <= phase[r]
        BY <4>1, <2>2 DEF IInv, PhaseProgress
      <4> QED
        BY <1>1, <3>1, <3>4, <3>6, <4>2
    <3> QED
      BY <3>5, <3>6
  <2>3. rev' \in 0..store'.n /\ pc' = "phases"
    BY <1>1
  <2>4. rev' - 1 = rev /\ Ordered(store)' = Ordered(store)
    BY <1>1 DEF Ordered, ParentRevs, Revs
  <2>5. Ordered(store)' =>
           \A r \in 0..(rev' - 1) : \A p \in ParentRevs(store', r) : phase'[p] <= phase'[r]
    BY <2>2, <2>4
  <2> QED
    BY <2>1, <2>3, <2>5 DEF PhaseProgress, AfterPhases
<1>6. VisibleProgress' /\ ImportProgress'
  BY DEF IInv, VisibleProgress, ImportProgress
<1>7. SecretStaysOut' /\ ClosedByConstruction' /\ ParentsKept'
  BY DEF IInv, SecretStaysOut, Accepted, ClosedByConstruction, ParentsKept
<1> QED
  BY <1>4, <1>5, <1>6, <1>7 DEF IInv

LEMMA SeedVisibleKeepsInv == IInv /\ SeedVisible => IInv'
PROOF
<1> SUFFICES ASSUME IInv, SeedVisible PROVE IInv'
  OBVIOUS
<1> USE DEF SeedVisible
<1>1. store \in Stores /\ store.n \in Nat /\ rev = store.n
  BY HgAssumptions DEF IInv
<1>2. visible' \subseteq Revs(store)
  BY <1>1, HgAssumptions DEF Pinned
<1>3. TypeOK'
  <2>1. rev' \in -1..store'.n
    BY <1>1
  <2> QED
    BY <1>2, <2>1 DEF IInv, TypeOK
<1>4. PhaseProgress'
  <2>1. rev - 1 = store.n - 1
    BY <1>1
  <2>2. Ordered(store) =>
           \A r \in Revs(store) : \A p \in ParentRevs(store, r) : phase[p] <= phase[r]
    BY <1>1 DEF IInv, PhaseProgress, Revs
  <2> QED
    BY <2>2 DEF IInv, PhaseProgress, AfterPhases
<1>5. VisibleProgress'
  <2>1. rev' \in -1..(store'.n - 1)
    BY <1>1
  <2>2. \A r \in visible' : ~(r > rev')
    BY <1>1, <1>2 DEF Revs
  <2>3. Revs(store') \ Obsolete(store)' \subseteq visible'
    BY DEF Obsolete
  <2> QED
    BY <2>1, <2>2, <2>3 DEF VisibleProgress
<1>6. ImportProgress'
  BY DEF IInv, ImportProgress
<1>7. SecretStaysOut' /\ ClosedByConstruction' /\ ParentsKept'
  BY DEF IInv, SecretStaysOut, Accepted, ClosedByConstruction, ParentsKept
<1> QED
  BY <1>3, <1>4, <1>5, <1>6, <1>7 DEF IInv

(* The descending loop: a changeset already passed is not marked again,    *)
(* since only parents are marked and they come before.                     *)
LEMMA VisiblePassKeepsInv == IInv /\ VisiblePass => IInv'
PROOF
<1> SUFFICES ASSUME IInv, VisiblePass PROVE IInv'
  OBVIOUS
<1> USE DEF VisiblePass
<1>1. store \in Stores /\ store.n \in Nat /\ rev \in 0..(store.n - 1) /\ rev \in Revs(store)
  BY HgAssumptions DEF IInv, VisibleProgress, Revs
<1>2. visible \subseteq Revs(store) /\ visible' \subseteq Revs(store)
  BY DEF IInv, TypeOK, MarkParents, KnownParents
<1>3. TypeOK'
  <2>1. rev' \in -1..store'.n
    BY <1>1
  <2> QED
    BY <1>2, <2>1 DEF IInv, TypeOK
<1>4. PhaseProgress'
  BY DEF IInv, PhaseProgress, AfterPhases
<1>5. VisibleProgress'
  <2>1. rev' \in -1..(store'.n - 1)
    BY <1>1
  <2>2. Revs(store') \ Obsolete(store)' \subseteq visible'
    BY DEF IInv, VisibleProgress, Obsolete
  <2>3. ASSUME Ordered(store), NEW r \in visible', r > rev - 1
        PROVE  ParentRevs(store, r) \subseteq visible'
    <3>1. \A q \in Revs(store) : /\ KnownParents(store, q) = ParentRevs(store, q)
                                  /\ \A p \in ParentRevs(store, q) : p < q
      BY <1>1, <2>3, OrderedParents
    <3>2. CASE r = rev
      <4>1. rev \in visible
        BY <1>1, <3>1, <3>2, <2>3 DEF MarkParents, Revs
      <4> QED
        BY <1>1, <3>1, <3>2, <4>1 DEF MarkParents
    <3>3. CASE r # rev
      <4>1. r \in Int /\ r > rev
        BY <1>1, <1>2, <2>3, <3>3 DEF Revs
      <4>2. r \notin MarkParents(store, rev)
        BY <1>1, <3>1, <4>1 DEF MarkParents, Revs
      <4>3. r \in visible
        BY <4>2
      <4> QED
        BY <2>3, <4>1, <4>3 DEF IInv, VisibleProgress
    <3> QED
      BY <3>2, <3>3
  <2> QED
    BY <2>1, <2>2, <2>3 DEF VisibleProgress
<1>6. ImportProgress'
  BY DEF IInv, ImportProgress
<1>7. SecretStaysOut' /\ ClosedByConstruction' /\ ParentsKept'
  BY DEF IInv, SecretStaysOut, Accepted, ClosedByConstruction, ParentsKept
<1> QED
  BY <1>3, <1>4, <1>5, <1>6, <1>7 DEF IInv

(* The view is closed: a served changeset is visible, so its parents are,  *)
(* and its phase bounds theirs.                                            *)
LEMMA ClassifyKeepsInv == IInv /\ Classify => IInv'
PROOF
<1> SUFFICES ASSUME IInv, Classify PROVE IInv'
  OBVIOUS
<1> USE DEF Classify
<1>1. store \in Stores /\ store.n \in Nat /\ phase \in [Revs(store) -> Nat]
  BY HgAssumptions DEF IInv, TypeOK
<1>2. /\ served' \subseteq Revs(store)
      /\ \A r \in served' : phase[r] < NOT_PUBLISHED_FLOOR
  BY <1>1 DEF Served, Unpublished, NOT_PUBLISHED_FLOOR
<1>3. Ordered(store) => IsClosed(store, served')
  <2> SUFFICES ASSUME Ordered(store), NEW r \in served', NEW p \in ParentRevs(store, r)
               PROVE  p \in served'
    BY DEF IsClosed
  <2>1. r \in Revs(store) /\ p \in Revs(store)
    BY <1>1, <1>2, OrderedParents
  <2>2. phase[p] <= phase[r]
    BY <2>1 DEF IInv, PhaseProgress, AfterPhases
  <2>3. p \notin Unpublished(store)
    BY <1>1, <1>2, <2>1, <2>2 DEF Unpublished, NOT_PUBLISHED_FLOOR
  <2>4. r \in visible
    BY <2>1 DEF IInv, VisibleProgress, Served, Hidden
  <2>5. r > -1
    BY <2>1 DEF Revs
  <2>6. p \in visible
    BY <2>4, <2>5 DEF IInv, VisibleProgress
  <2> QED
    BY <2>1, <2>3, <2>6 DEF Served, Hidden
<1>4. TypeOK'
  <2>1. Unpublished(store) \subseteq Revs(store) /\ Hidden(store) \subseteq Revs(store)
    BY <1>1, HgAssumptions DEF Unpublished, Hidden, Obsolete
  <2>2. Cardinality(Unpublished(store)) \in Nat /\ Cardinality(Hidden(store)) \in Nat
    BY <1>1, <2>1, RevsAreFinite
  <2>3. counts' \in [notPublished : Nat, hidden : Nat, bookmarks : Nat]
    BY <2>2 DEF IInv, TypeOK
  <2>4. DOMAIN parents = {}
    BY DEF IInv, ImportProgress
  <2> QED
    BY <1>2, <2>3, <2>4 DEF IInv, TypeOK
<1>5. PhaseProgress'
  BY DEF IInv, PhaseProgress, AfterPhases
<1>6. VisibleProgress'
  BY <1>2, <1>3 DEF VisibleProgress
<1>7. ImportProgress'
  BY DEF IInv, ImportProgress
<1>8. SecretStaysOut' /\ ClosedByConstruction' /\ ParentsKept'
  BY DEF IInv, SecretStaysOut, Accepted, ClosedByConstruction, ParentsKept
<1> QED
  BY <1>4, <1>5, <1>6, <1>7, <1>8 DEF IInv

LEMMA CheckClosureKeepsInv == IInv /\ CheckClosure => IInv'
PROOF
<1> SUFFICES ASSUME IInv, CheckClosure PROVE IInv'
  OBVIOUS
<1> USE DEF CheckClosure, Refuse, view
<1>1. store \in Stores /\ store.n \in Nat /\ phase \in [Revs(store) -> Nat]
  BY HgAssumptions DEF IInv, TypeOK
<1>2. DOMAIN parents = {}
  BY DEF IInv, ImportProgress
<1>3. TypeOK'
  <2>1. rev' \in {rev, 0} /\ store' = store
    OBVIOUS
  <2>2. 0 \in -1..store.n
    BY ONLY <1>1
  <2>3. rev \in -1..store.n
    BY DEF IInv, TypeOK
  <2>4. rev' \in -1..store'.n
    BY ONLY <2>1, <2>2, <2>3
  <2> QED
    BY <2>4 DEF IInv, TypeOK
<1>4. PhaseProgress'
  BY DEF IInv, PhaseProgress, AfterPhases
<1>5. VisibleProgress'
  BY DEF IInv, VisibleProgress
<1>6. ImportProgress'
  <2>1. CASE pc' = "import"
    <3>1. rev' = 0 /\ 0 \in 0..store.n /\ 0..(rev' - 1) = {}
      BY <1>1, <2>1
    <3> QED
      BY <1>2, <2>1, <3>1 DEF ImportProgress
  <2>2. CASE pc' # "import"
    BY <2>2 DEF ImportProgress
  <2> QED
    BY <2>1, <2>2
<1>7. SecretStaysOut'
  <2> SUFFICES ASSUME IsClosed(store, served), NEW r \in served
               PROVE  /\ store.root[r] < NOT_PUBLISHED_FLOOR
                      /\ ParentRevs(store, r) \subseteq served
    BY DEF SecretStaysOut, Accepted
  <2>1. r \in Revs(store) /\ phase[r] < NOT_PUBLISHED_FLOOR /\ store.root[r] <= phase[r]
    BY DEF IInv, TypeOK, VisibleProgress, PhaseProgress
  <2>2. store.root[r] \in Nat /\ phase[r] \in Nat
    BY <1>1, <2>1, HgAssumptions
  <2>3. store.root[r] < NOT_PUBLISHED_FLOOR
    BY ONLY <2>1, <2>2 DEF NOT_PUBLISHED_FLOOR
  <2>4. ParentRevs(store, r) \subseteq served
    BY DEF IsClosed
  <2> QED
    BY <2>3, <2>4
<1>8. ClosedByConstruction'
  BY DEF IInv, ClosedByConstruction, VisibleProgress
<1>9. ParentsKept'
  BY DEF IInv, ParentsKept
<1> QED
  BY <1>3, <1>4, <1>5, <1>6, <1>7, <1>8, <1>9 DEF IInv

(* The parents of the changeset in hand are served, since it is, and come  *)
(* before it: each has its atom.                                           *)
LEMMA ImportKeepsInv == IInv /\ Import => IInv'
PROOF
<1> SUFFICES ASSUME IInv, Import PROVE IInv'
  OBVIOUS
<1> USE DEF Import, view
<1>1. /\ store \in Stores /\ store.n \in Nat
      /\ rev \in 0..(store.n - 1) /\ rev \in Revs(store)
      /\ DOMAIN parents = served \cap 0..(rev - 1)
      /\ served \subseteq Revs(store)
  <2>1. store \in Stores /\ store.n \in Nat
    BY HgAssumptions DEF IInv
  <2>2. rev \in 0..store.n /\ DOMAIN parents = served \cap 0..(rev - 1)
    BY DEF IInv, ImportProgress
  <2>3. rev \in 0..(store.n - 1)
    BY <2>1, <2>2
  <2> QED
    BY <2>1, <2>2, <2>3 DEF IInv, TypeOK, Revs
<1>2. CASE rev \notin served
  <2>1. parents' = parents
    BY <1>2
  <2>2. rev' \in 0..store.n /\ served \cap 0..(rev' - 1) = served \cap 0..(rev - 1)
    <3>1. rev' = rev + 1 /\ rev' \in 0..store.n
      BY <1>1
    <3>2. \A r : r \in 0..(rev' - 1) <=> (r \in 0..(rev - 1) \/ r = rev)
      BY <1>1, <3>1
    <3> QED
      BY <1>2, <3>1, <3>2
  <2>3. TypeOK'
    <3>1. rev' \in -1..store'.n
      BY <1>1, <2>2
    <3> QED
      BY <1>1, <2>1, <3>1 DEF IInv, TypeOK
  <2>4. PhaseProgress' /\ VisibleProgress'
    BY DEF IInv, PhaseProgress, VisibleProgress, AfterPhases
  <2>5. ImportProgress'
    BY <1>1, <2>1, <2>2 DEF ImportProgress
  <2>6. SecretStaysOut' /\ ClosedByConstruction' /\ ParentsKept'
    BY <2>1 DEF IInv, SecretStaysOut, Accepted, ClosedByConstruction, ParentsKept
  <2> QED
    BY <2>3, <2>4, <2>5, <2>6 DEF IInv
<1>3. CASE rev \in served
  <2>1. /\ DOMAIN parents' = DOMAIN parents \cup {rev}
        /\ parents'[rev] = ParentAtoms(store, rev)
        /\ \A r \in DOMAIN parents : parents'[r] = parents[r]
    BY <1>1, <1>3
  <2>2. rev' \in 0..store.n /\ DOMAIN parents' = served \cap 0..(rev' - 1)
    BY <1>1, <1>3, <2>1
  <2>3. TypeOK'
    <3>1. rev' \in -1..store'.n
      BY <2>2
    <3>2. DOMAIN parents' \subseteq served' /\ \A r \in DOMAIN parents' : parents'[r] \subseteq served'
      BY <1>1, <1>3, <2>1 DEF IInv, TypeOK, ParentAtoms
    <3> QED
      BY <3>1, <3>2 DEF IInv, TypeOK
  <2>4. PhaseProgress' /\ VisibleProgress'
    BY DEF IInv, PhaseProgress, VisibleProgress, AfterPhases
  <2>5. ImportProgress'
    BY <2>2 DEF ImportProgress
  <2>6. SecretStaysOut' /\ ClosedByConstruction'
    BY DEF IInv, SecretStaysOut, Accepted, ClosedByConstruction
  <2>7. ParentsKept'
    <3> SUFFICES ASSUME Ordered(store), NEW r \in DOMAIN parents'
                 PROVE  parents'[r] = ParentRevs(store, r)
      BY DEF ParentsKept
    <3>1. CASE r \in DOMAIN parents
      BY <2>1, <3>1 DEF IInv, ParentsKept
    <3>2. CASE r = rev
      <4>1. \A p \in ParentRevs(store, rev) : p \in Revs(store) /\ p < rev
        BY <1>1, OrderedParents
      <4>2. ParentRevs(store, rev) \subseteq served
        BY <1>3 DEF IInv, SecretStaysOut, Accepted
      <4>3. ParentRevs(store, rev) \subseteq DOMAIN parents
        BY <1>1, <4>1, <4>2 DEF Revs
      <4> QED
        BY <2>1, <3>2, <4>3 DEF ParentAtoms
    <3> QED
      BY <2>1, <3>1, <3>2
  <2> QED
    BY <2>3, <2>4, <2>5, <2>6, <2>7 DEF IInv
<1> QED
  BY <1>2, <1>3

LEMMA RefuseChangesetKeepsInv == IInv /\ RefuseChangeset => IInv'
PROOF
<1> SUFFICES ASSUME IInv, RefuseChangeset PROVE IInv'
  OBVIOUS
<1> USE DEF IInv, RefuseChangeset, Refuse, view
<1>1. TypeOK'
  BY DEF TypeOK
<1>2. PhaseProgress' /\ VisibleProgress'
  BY DEF PhaseProgress, VisibleProgress, AfterPhases
<1>3. ImportProgress'
  BY DEF ImportProgress
<1>4. SecretStaysOut' /\ ClosedByConstruction' /\ ParentsKept'
  BY DEF SecretStaysOut, Accepted, ClosedByConstruction, ParentsKept
<1> QED
  BY <1>1, <1>2, <1>3, <1>4

LEMMA AddRefsKeepsInv == IInv /\ AddRefs => IInv'
PROOF
<1> SUFFICES ASSUME IInv, AddRefs PROVE IInv'
  OBVIOUS
<1> USE DEF IInv, AddRefs
<1>1. TypeOK'
  <2>1. IsFiniteSet(store.bookmarks)
    BY HgAssumptions
  <2>2. IsFiniteSet(store.bookmarks \ DOMAIN parents)
    BY <2>1, FS_Subset
  <2>3. Cardinality(store.bookmarks \ DOMAIN parents) \in Nat
    BY <2>2, FS_CardinalityType
  <2>4. counts' \in [notPublished : Nat, hidden : Nat, bookmarks : Nat]
    BY <2>3 DEF TypeOK
  <2>5. DOMAIN tips' \subseteq Branches
    OBVIOUS
  <2> QED
    BY <2>4, <2>5 DEF TypeOK
<1>2. PhaseProgress' /\ VisibleProgress'
  BY DEF PhaseProgress, VisibleProgress, AfterPhases
<1>3. ImportProgress'
  BY DEF ImportProgress
<1>4. SecretStaysOut' /\ ClosedByConstruction' /\ ParentsKept'
  BY DEF SecretStaysOut, Accepted, ClosedByConstruction, ParentsKept
<1> QED
  BY <1>1, <1>2, <1>3, <1>4
-----------------------------------------------------------------------------
LEMMA StutterKeepsInv == IInv /\ UNCHANGED vars => IInv'
PROOF
<1> SUFFICES ASSUME IInv, UNCHANGED vars PROVE IInv'
  OBVIOUS
<1> USE DEF IInv, vars
<1>1. TypeOK'
  BY DEF TypeOK
<1>2. PhaseProgress' /\ VisibleProgress'
  BY DEF PhaseProgress, VisibleProgress, AfterPhases, Obsolete
<1>3. ImportProgress'
  BY DEF ImportProgress
<1>4. SecretStaysOut' /\ ClosedByConstruction' /\ ParentsKept'
  BY DEF SecretStaysOut, Accepted, ClosedByConstruction, ParentsKept
<1> QED
  BY <1>1, <1>2, <1>3, <1>4

(* The inductive invariant: what each loop has achieved at every step.     *)
THEOREM LoopsKeepTheirPromises == Spec => []IInv
PROOF
<1>1. IInv /\ [Next]_vars => IInv'
  BY BeginKeepsInv, PhasePassKeepsInv, SeedVisibleKeepsInv, VisiblePassKeepsInv,
     ClassifyKeepsInv, CheckClosureKeepsInv, ImportKeepsInv, RefuseChangesetKeepsInv,
     AddRefsKeepsInv, StutterKeepsInv DEF Next
<1> QED
  BY InitInv, <1>1, PTL DEF Spec

(* The state of the decode is well formed, whatever the repository.        *)
THEOREM DecodeTyped == Spec => []TypeOK
PROOF
<1>1. IInv => TypeOK
  BY DEF IInv
<1> QED
  BY <1>1, LoopsKeepTheirPromises, PTL

(* No changeset below a secret root is imported, whatever the repository:  *)
(* damaged stores included, thanks to the closure check (published.rs).    *)
THEOREM SecretsStayOut == Spec => []SecretStaysOut
PROOF
<1>1. IInv => SecretStaysOut
  BY DEF IInv
<1> QED
  BY <1>1, LoopsKeepTheirPromises, PTL

(* The closure check never refuses a repository whose parents come first:  *)
(* what published.rs calls closed by construction is.                      *)
THEOREM NeverRefusesItsOwnView == Spec => []ClosedByConstruction
PROOF
<1>1. IInv => ClosedByConstruction
  BY DEF IInv
<1> QED
  BY <1>1, LoopsKeepTheirPromises, PTL

(* An imported changeset keeps every parent, for every repository whose    *)
(* parents come first: parent_atoms, which skips a parent that has no atom *)
(* yet, never skips one (decode.rs).                                       *)
THEOREM EveryParentIsKept == Spec => []ParentsKept
PROOF
<1>1. IInv => ParentsKept
  BY DEF IInv
<1> QED
  BY <1>1, LoopsKeepTheirPromises, PTL

-----------------------------------------------------------------------------
(* What the two loops compute, compared with reachability.                 *)

(* The ancestors reached in d steps, in a store whose parents come first:  *)
(* they stay in any set closed under parents, and those whose parents are  *)
(* not all reached yet lie d below, so n steps reach them all.             *)

Closure(s, C) == \A a \in C : KnownParents(s, a) \subseteq C

LEMMA ReachedAreClosed ==
    ASSUME NEW s, s.n \in Nat, NEW r \in Revs(s)
    PROVE  /\ r \in AncestorsOf(s, r)
           /\ AncestorsOf(s, r) \subseteq Revs(s)
           /\ Ordered(s) => Closure(s, AncestorsOf(s, r))
           /\ \A C : (r \in C /\ Closure(s, C)) => AncestorsOf(s, r) \subseteq C
PROOF
<1> DEFINE Grow(R) == R \cup UNION {KnownParents(s, a) : a \in R}
           Reach(f) == f = [d \in 0..s.n |-> IF d = 0 THEN {r} ELSE Grow(f[d - 1])]
           reach == CHOOSE f : Reach(f)
           N == s.n
<1>1. N \in Nat
  OBVIOUS
<1>2. \E f : Reach(f)
  <2> DEFINE T == SUBSET Revs(s)
             D == [nx \in Nat \X T |-> Grow(nx[2])]
  <2>1. D \in [Nat \X T -> T] /\ {r} \in T
    BY DEF KnownParents
  <2> HIDE DEF T
  <2>2. PICK f : IsRun(f, N, T, {r}, D)
    <3> HIDE DEF D
    <3> QED
      BY <1>1, <2>1, LoopHasRun
  <2>3. ASSUME NEW d \in 0..N, d # 0 PROVE f[d] = Grow(f[d - 1])
    <3>1. d - 1 \in 0..(N - 1) /\ d - 1 \in Nat /\ d - 1 \in 0..N /\ (d - 1) + 1 = d
      BY <1>1, <2>3
    <3>2. f[d] = D[<<d - 1, f[d - 1]>>] /\ <<d - 1, f[d - 1]>> \in Nat \X T
      BY <2>2, <3>1 DEF IsRun
    <3> QED
      BY <3>2
  <2>4. Reach(f)
    BY <2>2, <2>3 DEF IsRun
  <2> QED
    BY <2>4
<1>3. Reach(reach)
  BY <1>2
<1>4. AncestorsOf(s, r) = reach[N]
  BY DEF AncestorsOf
<1> HIDE DEF reach
<1>5. /\ 0 \in 0..N /\ reach[0] = {r}
      /\ \A d \in 0..(N - 1) : d + 1 \in 0..N /\ d \in 0..N /\ reach[d + 1] = Grow(reach[d])
  BY <1>1, <1>3
<1>6. ASSUME NEW C, r \in C, Closure(s, C) PROVE reach[N] \subseteq C
  <2> DEFINE U == {d \in 0..N : reach[d] \subseteq C}
  <2>1. 0 \in U
    BY <1>5, <1>6
  <2>2. \A d \in 0..(N - 1) : d \in U => d + 1 \in U
    BY <1>5, <1>6 DEF Closure
  <2> HIDE DEF U
  <2>3. 0..N \subseteq U
    BY <1>1, <2>1, <2>2, BoundedInduction
  <2>4. N \in 0..N
    BY <1>1
  <2> QED
    BY <2>3, <2>4 DEF U
<1>7. r \in reach[N]
  <2> DEFINE U == {d \in 0..N : r \in reach[d]}
  <2>1. 0 \in U
    BY <1>5
  <2>2. \A d \in 0..(N - 1) : d \in U => d + 1 \in U
    BY <1>5
  <2> HIDE DEF U
  <2>3. 0..N \subseteq U
    BY <1>1, <2>1, <2>2, BoundedInduction
  <2>4. N \in 0..N
    BY <1>1
  <2> QED
    BY <2>3, <2>4 DEF U
<1>8. reach[N] \subseteq Revs(s)
  <2>1. Closure(s, Revs(s))
    BY DEF Closure, KnownParents
  <2> QED
    BY <2>1, <1>6
<1>9. ASSUME Ordered(s) PROVE Closure(s, reach[N])
  <2> DEFINE U == {d \in 0..N : \A a \in reach[d] : /\ a \in Revs(s)
                                                   /\ \/ KnownParents(s, a) \subseteq reach[d]
                                                      \/ a <= r - d}
  <2>1. 0 \in U
    BY <1>5 DEF Revs
  <2>2. ASSUME NEW d \in 0..(N - 1), d \in U PROVE d + 1 \in U
    <3>1. d + 1 \in 0..N /\ reach[d + 1] = Grow(reach[d])
      BY <1>5
    <3> SUFFICES ASSUME NEW a \in reach[d + 1]
                 PROVE  /\ a \in Revs(s)
                        /\ \/ KnownParents(s, a) \subseteq reach[d + 1]
                           \/ a <= r - (d + 1)
      BY <3>1
    <3>2. CASE a \in reach[d]
      BY <3>1, <3>2, <2>2
    <3>3. CASE a \notin reach[d]
      <4>1. PICK c \in reach[d] : a \in KnownParents(s, c)
        BY <3>1, <3>3
      <4>2. c \in Revs(s) /\ c <= r - d
        BY <4>1, <3>3, <2>2
      <4>3. a \in Revs(s) /\ a < c
        BY <1>1, <1>9, <4>1, <4>2 DEF KnownParents, Ordered, Revs
      <4>4. a <= r - (d + 1)
        BY <1>1, <4>2, <4>3 DEF Revs
      <4> QED
        BY <4>3, <4>4
    <3> QED
      BY <3>2, <3>3
  <2>3. N \in 0..N
    BY <1>1
  <2>4. N \in U
    <3> HIDE DEF U
    <3> QED
      BY <1>1, <2>1, <2>2, <2>3, BoundedInduction
  <2>5. \A a \in Revs(s) : ~ (a <= r - N)
    BY <1>1 DEF Revs
  <2> QED
    BY <2>4, <2>5 DEF Closure
<1> QED
  BY <1>4, <1>6, <1>7, <1>8, <1>9

LEMMA AncestorsAreClosed ==
    ASSUME NEW s \in Stores, NEW r \in Revs(s)
    PROVE  /\ r \in AncestorsOf(s, r)
           /\ AncestorsOf(s, r) \subseteq Revs(s)
           /\ Ordered(s) => Closure(s, AncestorsOf(s, r))
           /\ \A C : (r \in C /\ Closure(s, C)) => AncestorsOf(s, r) \subseteq C
PROOF
  BY HgAssumptions, ReachedAreClosed

(* So the reference view, as any view of whole ancestries, is closed.      *)
ServedRef(s) == (Revs(s) \ SecretRef(s)) \ (ObsoleteRef(s) \ VisibleRef(s))

LEMMA ReferenceIsClosed ==
    ASSUME NEW s, s.n \in Nat, Ordered(s), s.precursors \subseteq Revs(s), s.otherPins \subseteq Revs(s)
    PROVE  IsClosed(s, ServedRef(s))
PROOF
<1> SUFFICES ASSUME NEW r \in ServedRef(s), NEW p \in ParentRevs(s, r) PROVE p \in ServedRef(s)
  BY DEF IsClosed
<1>1. r \in Revs(s) /\ r \notin SecretRef(s) /\ (r \in ObsoleteRef(s) => r \in VisibleRef(s))
  BY DEF ServedRef
<1>2. p \in Revs(s) /\ p \in KnownParents(s, r)
  BY <1>1 DEF Ordered, Revs, KnownParents
<1>3. ASSUME NEW d \in Revs(s), r \in AncestorsOf(s, d) PROVE p \in AncestorsOf(s, d)
  <2>1. Closure(s, AncestorsOf(s, d))
    BY ReachedAreClosed
  <2> QED
    BY <1>2, <1>3, <2>1 DEF Closure
<1>4. r \in AncestorsOf(s, r) /\ p \in AncestorsOf(s, r) /\ Closure(s, AncestorsOf(s, r))
  BY <1>1, <1>3, ReachedAreClosed
<1>5. AncestorsOf(s, p) \subseteq AncestorsOf(s, r)
  BY <1>2, <1>4, ReachedAreClosed
<1>6. p \notin SecretRef(s)
  BY <1>1, <1>5 DEF SecretRef
<1>7. p \in VisibleRef(s)
  <2> DEFINE seeds == (Revs(s) \ ObsoleteRef(s)) \cup (s.bookmarks \cap Revs(s)) \cup s.otherPins
  <2>1. seeds \subseteq Revs(s) /\ VisibleRef(s) = UNION {AncestorsOf(s, d) : d \in seeds}
    BY DEF VisibleRef
  <2>2. \E d \in seeds : r \in AncestorsOf(s, d)
    BY <1>1, <1>4, <2>1
  <2> HIDE DEF seeds
  <2> QED
    BY <1>3, <2>1, <2>2
<1> QED
  BY <1>2, <1>6, <1>7 DEF ServedRef

(* A changeset's ancestors are itself and its parents' ancestors.          *)
LEMMA AncestorsStepwise ==
    ASSUME NEW s \in Stores, Ordered(s), NEW r \in Revs(s)
    PROVE  AncestorsOf(s, r) = {r} \cup UNION {AncestorsOf(s, p) : p \in KnownParents(s, r)}
PROOF
<1> DEFINE A == {r} \cup UNION {AncestorsOf(s, p) : p \in KnownParents(s, r)}
<1>1. \A p \in KnownParents(s, r) : p \in Revs(s)
  BY DEF KnownParents
<1>2. AncestorsOf(s, r) \subseteq A
  <2>1. ASSUME NEW a \in A PROVE KnownParents(s, a) \subseteq A
    <3>1. CASE a = r
      BY <1>1, <3>1, AncestorsAreClosed
    <3>2. CASE a # r
      <4>1. PICK p \in KnownParents(s, r) : a \in AncestorsOf(s, p)
        BY <3>2
      <4>2. KnownParents(s, a) \subseteq AncestorsOf(s, p)
        BY <1>1, <4>1, AncestorsAreClosed DEF Closure
      <4> QED
        BY <4>2
    <3> QED
      BY <3>1, <3>2
  <2>2. r \in A /\ Closure(s, A)
    BY <2>1 DEF Closure
  <2> HIDE DEF A
  <2> QED
    BY <2>2, AncestorsAreClosed
<1>3. r \in AncestorsOf(s, r) /\ Closure(s, AncestorsOf(s, r))
  BY AncestorsAreClosed
<1>4. \A p \in KnownParents(s, r) : AncestorsOf(s, p) \subseteq AncestorsOf(s, r)
  <2> TAKE p \in KnownParents(s, r)
  <2>1. p \in AncestorsOf(s, r) /\ p \in Revs(s)
    BY <1>1, <1>3 DEF Closure
  <2> QED
    BY <1>3, <2>1, AncestorsAreClosed
<1> QED
  BY <1>2, <1>3, <1>4

-----------------------------------------------------------------------------
(* The second invariant: the phase of a changeset the loop has passed is   *)
(* the greatest root among its ancestors (so it reaches k exactly when an  *)
(* ancestor's root does); what is marked visible lies between the seeds    *)
(* and the closure of the seeds; what is served is the reference view and  *)
(* is counted as such; and the refs are where Mercurial has them.          *)
PhaseIsExactAt(r) ==
    \A k \in Nat \ {0} :
        phase[r] >= k <=> \E a \in AncestorsOf(store, r) : store.root[a] >= k

PhaseExact ==
    Ordered(store) =>
        /\ pc \in {"start", "phases"} =>
              \A r \in Revs(store) : IF r < rev THEN PhaseIsExactAt(r)
                                     ELSE phase[r] = store.root[r]
        /\ AfterPhases => \A r \in Revs(store) : PhaseIsExactAt(r)

Seeds(s) == (Revs(s) \ ObsoleteRef(s)) \cup (s.bookmarks \cap Revs(s)) \cup s.otherPins

VisibleExact ==
    (Ordered(store) /\ pc = "visible") =>
        Seeds(store) \subseteq visible /\ visible \subseteq VisibleRef(store)

Classified == pc \in {"classify", "import", "done"}

ServedExact == (Ordered(store) /\ Classified) => served = ServedRef(store)

CountsExact ==
    Classified => Cardinality(served) + counts.notPublished + counts.hidden = store.n

VInv ==
    /\ PhaseExact
    /\ VisibleExact
    /\ ServedExact
    /\ CountsExact
    /\ TipIsMercurials

LEMMA StoreNeverChanges == [Next]_vars => store' = store
  BY DEF Next, vars, Begin, PhasePass, SeedVisible, VisiblePass, Classify, CheckClosure,
         Import, RefuseChangeset, AddRefs, Refuse

(* What the loop stores at a changeset: its own root's phase or a parent's,*)
(* which are exact already.                                                *)
LEMMA PhaseOfReaches ==
    ASSUME NEW s \in Stores, phase \in [Revs(s) -> Nat], NEW r \in Revs(s), NEW k \in Nat \ {0}
    PROVE  PhaseOf(s, r) >= k <=> \/ phase[r] >= k
                                 \/ \E p \in KnownParents(s, r) : phase[p] >= k
PROOF
<1>1. phase[r] \in Nat /\ PhaseAt(s, s.p1[r]) \in Nat /\ PhaseAt(s, s.p2[r]) \in Nat
  BY DEF PhaseAt
<1>2. \A x, y \in Nat : Greater(x, y) \in Nat /\ (Greater(x, y) >= k <=> x >= k \/ y >= k)
  BY DEF Greater
<1>3. PhaseOf(s, r) >= k <=> \/ phase[r] >= k
                            \/ PhaseAt(s, s.p1[r]) >= k
                            \/ PhaseAt(s, s.p2[r]) >= k
  <2> DEFINE g == Greater(PhaseAt(s, s.p1[r]), PhaseAt(s, s.p2[r]))
  <2>1. g \in Nat /\ (g >= k <=> PhaseAt(s, s.p1[r]) >= k \/ PhaseAt(s, s.p2[r]) >= k)
    BY <1>1, <1>2
  <2>2. PhaseOf(s, r) >= k <=> phase[r] >= k \/ g >= k
    BY <1>1, <1>2, <2>1 DEF PhaseOf
  <2> QED
    BY <2>1, <2>2
<1>4. \A p : PhaseAt(s, p) >= k <=> p \in Revs(s) /\ phase[p] >= k
  BY DEF PhaseAt
<1>5. \A p : p \in KnownParents(s, r) <=> p \in Revs(s) /\ (p = s.p1[r] \/ p = s.p2[r])
  BY DEF KnownParents, ParentRevs, Revs, NULL_REV
<1> QED
  BY <1>3, <1>4, <1>5

LEMMA PhaseExactKept ==
    ASSUME IInv, PhaseExact, [Next]_vars
    PROVE  PhaseExact'
PROOF
<1>1. /\ store \in Stores /\ store' = store /\ store.n \in Nat
      /\ phase \in [Revs(store) -> Nat]
  BY HgAssumptions, StoreNeverChanges DEF IInv, TypeOK
<1> SUFFICES ASSUME Ordered(store) PROVE PhaseExact'
  BY <1>1 DEF PhaseExact
<1>2. CASE PhasePass
  <2>1. rev \in Revs(store) /\ rev \in Nat
    BY <1>1, <1>2 DEF PhasePass, IInv, PhaseProgress, Revs
  <2>2. /\ rev' = rev + 1 /\ pc = "phases" /\ pc' = "phases"
        /\ phase'[rev] = PhaseOf(store, rev)
        /\ \A r \in Revs(store) : r # rev => phase'[r] = phase[r]
    BY <1>1, <1>2, <2>1 DEF PhasePass
  <2>3. \A r \in Revs(store) : r < rev => PhaseIsExactAt(r)
    BY <2>2 DEF PhaseExact
  <2>4. phase[rev] = store.root[rev] /\ store.root[rev] \in Nat
    BY <1>1, <2>1, <2>2, HgAssumptions DEF PhaseExact
  <2>5. ASSUME NEW r \in Revs(store), r < rev + 1
        PROVE  PhaseIsExactAt(r)'
    <3>1. CASE r # rev
      <4>1. r < rev /\ phase'[r] = phase[r]
        BY <2>1, <2>2, <2>5, <3>1 DEF Revs
      <4> QED
        BY <1>1, <2>3, <4>1 DEF PhaseIsExactAt
    <3>2. CASE r = rev
      <4> SUFFICES ASSUME NEW k \in Nat \ {0}
                   PROVE  PhaseOf(store, rev) >= k <=>
                             \E a \in AncestorsOf(store, rev) : store.root[a] >= k
        BY <1>1, <2>2, <3>2 DEF PhaseIsExactAt
      <4>1. PhaseOf(store, rev) >= k <=>
               \/ store.root[rev] >= k
               \/ \E p \in KnownParents(store, rev) : phase[p] >= k
        BY <1>1, <2>1, <2>4, PhaseOfReaches
      <4>2. \A p \in KnownParents(store, rev) :
               phase[p] >= k <=> \E a \in AncestorsOf(store, p) : store.root[a] >= k
        <5> TAKE p \in KnownParents(store, rev)
        <5>1. p \in Revs(store) /\ p < rev
          BY <1>1, <2>1, OrderedParents DEF KnownParents
        <5> QED
          BY <2>3, <5>1 DEF PhaseIsExactAt
      <4>3. AncestorsOf(store, rev) =
               {rev} \cup UNION {AncestorsOf(store, p) : p \in KnownParents(store, rev)}
        BY <1>1, <2>1, AncestorsStepwise
      <4> QED
        BY <4>1, <4>2, <4>3
    <3> QED
      BY <3>1, <3>2
  <2>6. ASSUME NEW r \in Revs(store), ~ (r < rev + 1)
        PROVE  phase'[r] = store.root[r]
    <3>1. r # rev /\ ~ (r < rev)
      BY <2>1, <2>6 DEF Revs
    <3> QED
      BY <2>2, <3>1 DEF PhaseExact
  <2> QED
    BY <1>1, <2>2, <2>5, <2>6 DEF PhaseExact, AfterPhases
<1>3. CASE SeedVisible
  <2>1. \A r \in Revs(store) : r < rev
    BY <1>1, <1>3 DEF SeedVisible, Revs
  <2>2. \A r \in Revs(store) : PhaseIsExactAt(r)
    BY <1>3, <2>1 DEF SeedVisible, PhaseExact
  <2>3. phase' = phase /\ pc' = "visible"
    BY <1>3 DEF SeedVisible
  <2> QED
    BY <1>1, <2>2, <2>3 DEF PhaseExact, PhaseIsExactAt
<1>4. CASE \/ Begin \/ VisiblePass \/ Classify \/ CheckClosure \/ Import
           \/ RefuseChangeset \/ AddRefs \/ UNCHANGED vars
  <2>1. /\ phase' = phase
        /\ pc' \in {"start", "phases"} => pc \in {"start", "phases"} /\ rev' = rev
        /\ AfterPhases' => AfterPhases
    BY <1>4 DEF AfterPhases, Begin, VisiblePass, Classify, CheckClosure, Import,
                RefuseChangeset, AddRefs, Refuse, vars, view
  <2> QED
    BY <1>1, <2>1 DEF PhaseExact, PhaseIsExactAt
<1> QED
  BY <1>2, <1>3, <1>4 DEF Next

(* The reference sets in terms of exact phases.                            *)
LEMMA ExactSets ==
    ASSUME IInv, Ordered(store), \A r \in Revs(store) : PhaseIsExactAt(r)
    PROVE  Obsolete(store) = ObsoleteRef(store) /\ Unpublished(store) = SecretRef(store)
PROOF
<1>1. /\ store.precursors \subseteq Revs(store) /\ phase \in [Revs(store) -> Nat]
      /\ \A r \in Revs(store) : store.root[r] \in Nat
      /\ \A r \in Revs(store) : AncestorsOf(store, r) \subseteq Revs(store)
  BY HgAssumptions, AncestorsAreClosed DEF IInv, TypeOK
<1>2. \A r \in Revs(store) :
         phase[r] # 0 <=> \E a \in AncestorsOf(store, r) : store.root[a] # 0
  <2> TAKE r \in Revs(store)
  <2>1. phase[r] >= 1 <=> \E a \in AncestorsOf(store, r) : store.root[a] >= 1
    BY DEF PhaseIsExactAt
  <2>2. \A x \in Nat : x # 0 <=> x >= 1
    OBVIOUS
  <2>3. phase[r] \in Nat /\ \A a \in AncestorsOf(store, r) : store.root[a] \in Nat
    BY <1>1
  <2> QED
    BY <2>1, <2>2, <2>3
<1>3. \A r \in Revs(store) :
         phase[r] >= 2 <=> \E a \in AncestorsOf(store, r) : store.root[a] >= 2
  BY DEF PhaseIsExactAt
<1> QED
  BY <1>1, <1>2, <1>3 DEF Obsolete, ObsoleteRef, Unpublished, SecretRef, NOT_PUBLISHED_FLOOR

LEMMA VisibleExactKept ==
    ASSUME IInv, PhaseExact, VisibleExact, [Next]_vars
    PROVE  VisibleExact'
PROOF
<1>1. store \in Stores /\ store' = store /\ store.n \in Nat
  BY HgAssumptions, StoreNeverChanges DEF IInv
<1> SUFFICES ASSUME Ordered(store), pc' = "visible"
             PROVE  Seeds(store) \subseteq visible' /\ visible' \subseteq VisibleRef(store)
  BY <1>1 DEF VisibleExact
<1>2. CASE SeedVisible
  <2>1. \A r \in Revs(store) : PhaseIsExactAt(r)
    <3>1. \A r \in Revs(store) : r < rev
      BY <1>1, <1>2 DEF SeedVisible, Revs
    <3> QED
      BY <1>2, <3>1 DEF SeedVisible, PhaseExact
  <2>2. Obsolete(store) = ObsoleteRef(store)
    BY <2>1, ExactSets
  <2>3. visible' = Seeds(store)
    BY <1>2, <2>2 DEF SeedVisible, Seeds, Pinned
  <2>4. \A r \in Seeds(store) : r \in Revs(store) /\ r \in AncestorsOf(store, r)
    BY <1>1, HgAssumptions, AncestorsAreClosed DEF Seeds
  <2> QED
    BY <2>3, <2>4 DEF VisibleRef, Seeds
<1>3. CASE VisiblePass
  <2>1. pc = "visible" /\ visible' = visible \cup MarkParents(store, rev)
    BY <1>3 DEF VisiblePass
  <2>2. Seeds(store) \subseteq visible /\ visible \subseteq VisibleRef(store)
    BY <2>1 DEF VisibleExact
  <2>3. ASSUME NEW p \in MarkParents(store, rev) PROVE p \in VisibleRef(store)
    <3>1. rev \in visible /\ p \in KnownParents(store, rev)
      BY <2>3 DEF MarkParents
    <3>2. PICK d \in Seeds(store) : rev \in AncestorsOf(store, d)
      BY <2>2, <3>1 DEF VisibleRef, Seeds
    <3>3. d \in Revs(store)
      BY <1>1, <3>2, HgAssumptions DEF Seeds
    <3>4. p \in AncestorsOf(store, d)
      BY <1>1, <3>1, <3>2, <3>3, AncestorsAreClosed DEF Closure
    <3> QED
      BY <3>2, <3>4 DEF VisibleRef, Seeds
  <2> QED
    BY <2>1, <2>2, <2>3
<1>4. CASE UNCHANGED vars
  BY <1>4 DEF vars, VisibleExact
<1>5. CASE \/ Begin \/ PhasePass \/ Classify \/ CheckClosure \/ Import
           \/ RefuseChangeset \/ AddRefs
  BY <1>5 DEF Begin, PhasePass, Classify, CheckClosure, Import, RefuseChangeset, AddRefs, Refuse
<1> QED
  BY <1>2, <1>3, <1>4, <1>5 DEF Next

(* When the descending loop ends, what is visible is closed under parents, *)
(* so it holds the ancestors of every seed.                                *)
LEMMA ServedExactKept ==
    ASSUME IInv, PhaseExact, VisibleExact, ServedExact, [Next]_vars
    PROVE  ServedExact'
PROOF
<1>1. store \in Stores /\ store' = store /\ store.n \in Nat
  BY HgAssumptions, StoreNeverChanges DEF IInv
<1> SUFFICES ASSUME Ordered(store), Classified' PROVE served' = ServedRef(store)
  BY <1>1 DEF ServedExact
<1>2. CASE Classify
  <2>1. pc = "visible" /\ rev = -1 /\ served' = Served(store)
    BY <1>2 DEF Classify
  <2>2. Obsolete(store) = ObsoleteRef(store) /\ Unpublished(store) = SecretRef(store)
    BY <2>1, ExactSets DEF PhaseExact, AfterPhases
  <2>3. Seeds(store) \subseteq visible /\ visible \subseteq VisibleRef(store)
    BY <2>1 DEF VisibleExact
  <2>4. Closure(store, visible)
    <3>1. visible \subseteq Revs(store)
      BY DEF IInv, TypeOK
    <3>2. \A r \in Revs(store) : r > -1
      BY <1>1 DEF Revs
    <3>3. \A r \in visible : ParentRevs(store, r) \subseteq visible
      BY <2>1, <3>1, <3>2 DEF IInv, VisibleProgress
    <3> QED
      BY <3>3 DEF Closure, KnownParents
  <2>5. \A d \in Seeds(store) : AncestorsOf(store, d) \subseteq visible
    <3> TAKE d \in Seeds(store)
    <3>1. d \in Revs(store) /\ d \in visible
      BY <1>1, <2>3, HgAssumptions DEF Seeds
    <3> QED
      BY <1>1, <2>4, <3>1, AncestorsAreClosed
  <2>6. visible = VisibleRef(store)
    BY <2>3, <2>5 DEF VisibleRef, Seeds
  <2> QED
    BY <2>1, <2>2, <2>6 DEF Served, Hidden, ServedRef
<1>3. CASE \/ Begin \/ PhasePass \/ SeedVisible \/ VisiblePass \/ RefuseChangeset
  BY <1>3 DEF Begin, PhasePass, SeedVisible, VisiblePass, RefuseChangeset, Refuse, Classified
<1>4. CASE CheckClosure \/ Import \/ AddRefs \/ UNCHANGED vars
  BY <1>4 DEF ServedExact, Classified, CheckClosure, Import, AddRefs, Refuse, vars, view
<1> QED
  BY <1>2, <1>3, <1>4 DEF Next

(* Every changeset is served, below a secret root, or hidden, and only one *)
(* of the three.                                                           *)
LEMMA CountsExactKept ==
    ASSUME IInv, CountsExact, [Next]_vars
    PROVE  CountsExact'
PROOF
<1>1. store \in Stores /\ store' = store /\ store.n \in Nat
  BY HgAssumptions, StoreNeverChanges DEF IInv
<1>2. CASE Classify
  <2> DEFINE U == Unpublished(store)
             H == Hidden(store)
             S == Served(store)
  <2>1. U \subseteq Revs(store) /\ H \subseteq Revs(store) /\ S \subseteq Revs(store)
    BY <1>1, HgAssumptions DEF Unpublished, Hidden, Served, Obsolete
  <2>2. S \cup U \cup H = Revs(store) /\ S \cap U = {} /\ (S \cup U) \cap H = {}
    BY <2>1 DEF Served, Hidden
  <2> HIDE DEF U, H, S
  <2>3. /\ IsFiniteSet(U) /\ IsFiniteSet(H) /\ IsFiniteSet(S)
        /\ Cardinality(U) \in Nat /\ Cardinality(H) \in Nat /\ Cardinality(S) \in Nat
    BY <1>1, <2>1, RevsAreFinite
  <2>4. IsFiniteSet(S \cup U) /\ Cardinality(S \cup U) = Cardinality(S) + Cardinality(U)
    BY <2>2, <2>3, DisjointUnion
  <2>5. Cardinality(Revs(store)) = Cardinality(S) + Cardinality(U) + Cardinality(H)
    BY <2>2, <2>3, <2>4, DisjointUnion
  <2>6. Cardinality(Revs(store)) = store.n
    <3>1. store.n - 1 \in Int /\ 0 \in Int
      BY <1>1
    <3>2. Cardinality(0..(store.n - 1)) = IF 0 > store.n - 1 THEN 0 ELSE (store.n - 1) - 0 + 1
      BY <3>1, FS_Interval
    <3> QED
      BY <1>1, <3>2 DEF Revs
  <2>7. /\ served' = S
        /\ counts'.notPublished = Cardinality(U) /\ counts'.hidden = Cardinality(H)
    BY <1>2 DEF Classify, IInv, TypeOK, S, U, H
  <2> QED
    BY <1>1, <2>3, <2>5, <2>6, <2>7 DEF CountsExact
<1>3. CASE \/ Begin \/ PhasePass \/ SeedVisible \/ VisiblePass \/ RefuseChangeset
  BY <1>3 DEF Begin, PhasePass, SeedVisible, VisiblePass, RefuseChangeset, Refuse,
              Classified, CountsExact
<1>4. CASE CheckClosure \/ Import \/ UNCHANGED vars
  BY <1>4 DEF CountsExact, Classified, CheckClosure, Import, Refuse, vars, view
<1>5. CASE AddRefs
  <2>1. /\ served' = served /\ pc = "import"
        /\ counts'.notPublished = counts.notPublished /\ counts'.hidden = counts.hidden
    BY <1>5 DEF AddRefs, IInv, TypeOK
  <2> QED
    BY <1>1, <2>1 DEF CountsExact, Classified
<1> QED
  BY <1>2, <1>3, <1>4, <1>5 DEF Next

-----------------------------------------------------------------------------
(* branch_tips keeps, at every changeset, the highest open head so far, or *)
(* the highest head while none is open.                                    *)
IsTip(t, H, closed) ==
    IF H = {} THEN t = NULL_REV
    ELSE LET best == IF H \ closed # {} THEN H \ closed ELSE H
         IN  t \in best /\ \A r \in best : r <= t

LEMMA KeepTipKeepsTheBest ==
    ASSUME NEW s, NEW q \in Nat, NEW H, H \subseteq 0..(q - 1), NEW t, IsTip(t, H, s.closed)
    PROVE  IsTip(KeepTip(s, t, q), H \cup {q}, s.closed)
PROOF
<1> DEFINE c == s.closed
           open == H \ c
<1>1. \A r \in H : r \in Int /\ r < q /\ r # NULL_REV
  BY DEF NULL_REV
<1>2. CASE H = {}
  <2>1. KeepTip(s, t, q) = q
    BY <1>2 DEF IsTip, KeepTip
  <2> QED
    BY <1>2, <2>1 DEF IsTip
<1>3. CASE H # {} /\ open # {}
  <2>1. t \in H /\ t \notin c /\ \A r \in open : r <= t
    BY <1>3 DEF IsTip
  <2>2. CASE q \in c
    <3>1. KeepTip(s, t, q) = t /\ (H \cup {q}) \ c = open
      BY <1>1, <2>1, <2>2 DEF KeepTip
    <3> QED
      BY <1>3, <2>1, <3>1 DEF IsTip
  <2>3. CASE q \notin c
    <3>1. KeepTip(s, t, q) = q /\ (H \cup {q}) \ c = open \cup {q}
      BY <2>3 DEF KeepTip
    <3>2. \A r \in open \cup {q} : r <= q
      BY <1>1
    <3> QED
      BY <3>1, <3>2 DEF IsTip
  <2> QED
    BY <2>2, <2>3
<1>4. CASE H # {} /\ open = {}
  <2>1. t \in c
    BY <1>4 DEF IsTip
  <2>2. KeepTip(s, t, q) = q
    BY <2>1 DEF KeepTip
  <2>3. \A r \in H \cup {q} : r <= q
    BY <1>1
  <2>4. (H \cup {q}) \ c = {} \/ (H \cup {q}) \ c = {q}
    BY <1>4
  <2> QED
    BY <2>2, <2>3, <2>4 DEF IsTip
<1> QED
  BY <1>2, <1>3, <1>4

LEMMA BranchTipIsTip ==
    ASSUME NEW s \in Stores, NEW b, HeadsOf(s, b) \subseteq Revs(s)
    PROVE  IsTip(BranchTip(s, b), HeadsOf(s, b), s.closed)
PROOF
<1> DEFINE H == HeadsOf(s, b)
           N == s.n
           Turn(x, r) == IF r \in H THEN KeepTip(s, x, r) ELSE x
           Tip(f) == f = [r \in -1..(N - 1) |->
                             IF r = -1 THEN NULL_REV
                             ELSE IF r \in H THEN KeepTip(s, f[r - 1], r) ELSE f[r - 1]]
           tip == CHOOSE f : Tip(f)
<1>1. N \in Nat
  BY HgAssumptions
<1>2. \E f : Tip(f)
  <2> DEFINE T == Int
             D == [nx \in Nat \X T |-> Turn(nx[2], nx[1])]
  <2>1. D \in [Nat \X T -> T] /\ NULL_REV \in T
    BY DEF KeepTip, NULL_REV
  <2>2. PICK g : IsRun(g, N, T, NULL_REV, D)
    <3> HIDE DEF D, T, N
    <3> QED
      BY <1>1, <2>1, LoopHasRun
  <2> DEFINE f == [r \in -1..(N - 1) |-> g[r + 1]]
  <2>3. ASSUME NEW r \in -1..(N - 1), r # -1 PROVE f[r] = Turn(f[r - 1], r)
    <3>1. r \in 0..(N - 1) /\ r \in Nat /\ r \in 0..N /\ (r - 1) + 1 = r /\ r - 1 \in -1..(N - 1)
      BY <1>1, <2>3
    <3>2. g[r + 1] = D[<<r, g[r]>>] /\ g[r] \in T
      BY <2>2, <3>1 DEF IsRun
    <3>3. f[r] = g[r + 1] /\ f[r - 1] = g[r]
      BY <3>1
    <3>4. D[<<r, g[r]>>] = Turn(g[r], r)
      BY <3>1, <3>2
    <3> QED
      BY <3>2, <3>3, <3>4
  <2>4. -1 \in -1..(N - 1) => f[-1] = NULL_REV
    BY <2>2 DEF IsRun
  <2>5. Tip(f)
    <3> HIDE DEF N
    <3> QED
      BY <2>3, <2>4
  <2> QED
    BY <2>5
<1>3. Tip(tip)
  BY <1>2
<1>4. BranchTip(s, b) = tip[N - 1]
  BY DEF BranchTip
<1> HIDE DEF tip
<1>5. /\ tip[-1] = NULL_REV
      /\ \A r \in 0..(N - 1) : tip[r] = Turn(tip[r - 1], r)
  <2>1. -1 \in -1..(N - 1) /\ \A r \in 0..(N - 1) : r \in -1..(N - 1) /\ r # -1
    BY <1>1
  <2> QED
    BY <1>3, <2>1
<1> DEFINE U == {q \in 0..N : IsTip(tip[q - 1], H \cap 0..(q - 1), s.closed)}
<1>6. 0 \in U
  <2>1. H \cap 0..(0 - 1) = {} /\ 0 - 1 = -1 /\ 0 \in 0..N
    BY <1>1
  <2> QED
    BY <1>5, <2>1 DEF IsTip
<1>7. ASSUME NEW q \in 0..(N - 1), q \in U PROVE q + 1 \in U
  <2>1. /\ q \in Nat /\ q + 1 \in 0..N /\ (q + 1) - 1 = q
        /\ 0..q = 0..(q - 1) \cup {q}
    BY <1>1
  <2>2. IsTip(tip[q - 1], H \cap 0..(q - 1), s.closed) /\ tip[q] = Turn(tip[q - 1], q)
    BY <1>5, <1>7
  <2>3. CASE q \in H
    <3>1. H \cap 0..q = (H \cap 0..(q - 1)) \cup {q}
      BY <2>1, <2>3
    <3>2. IsTip(KeepTip(s, tip[q - 1], q), (H \cap 0..(q - 1)) \cup {q}, s.closed)
      <4> HIDE DEF H
      <4> QED
        BY <2>1, <2>2, KeepTipKeepsTheBest
    <3> QED
      BY <2>1, <2>2, <2>3, <3>1, <3>2
  <2>4. CASE q \notin H
    <3>1. H \cap 0..q = H \cap 0..(q - 1)
      BY <2>1, <2>4
    <3> QED
      BY <2>1, <2>2, <2>4, <3>1
  <2> QED
    BY <2>3, <2>4
<1> HIDE DEF U
<1>8. N \in U
  <2>1. N \in 0..N
    BY <1>1
  <2> QED
    BY <1>1, <1>6, <1>7, <2>1, BoundedInduction
<1>9. H \cap 0..(N - 1) = H
  BY DEF Revs
<1> QED
  BY <1>4, <1>8, <1>9 DEF U

(* When the refs are written, every served changeset has its atom; the     *)
(* highest of a branch is a head of it, children being higher; and what    *)
(* the loop keeps among the heads is what Mercurial picks.                 *)
LEMMA TipKept ==
    ASSUME IInv, TipIsMercurials, [Next]_vars
    PROVE  TipIsMercurials'
PROOF
<1>1. store \in Stores /\ store' = store /\ store.n \in Nat
  BY HgAssumptions, StoreNeverChanges DEF IInv
<1>2. CASE AddRefs
  <2>1. /\ pc = "import" /\ rev = store.n /\ served' = served /\ parents' = parents
        /\ tips' = [b \in {c \in Branches : HeadsOf(store, c) # {}} |-> BranchTip(store, b)]
    BY <1>2 DEF AddRefs
  <2>2. served \subseteq Revs(store) /\ DOMAIN parents = served
    BY <2>1 DEF IInv, TypeOK, ImportProgress, Revs
  <2>3. \A b : HeadsOf(store, b)' = HeadsOf(store, b)
    BY <1>1, <2>1 DEF HeadsOf
  <2> SUFFICES ASSUME Ordered(store), NEW r \in served
               PROVE  /\ HeadsOf(store, store.branch[r]) # {}
                      /\ store.branch[r] \in DOMAIN tips'
                      /\ IsTip(tips'[store.branch[r]], HeadsOf(store, store.branch[r]), store.closed)
    BY <1>1, <2>1, <2>3, ZenonT(40) DEF TipIsMercurials, IsTip
  <2> DEFINE b == store.branch[r]
             H == HeadsOf(store, b)
             W == {store.n - 1 - c : c \in {d \in served : store.branch[d] = b}}
  <2>4. H \subseteq Revs(store)
    BY <2>2 DEF HeadsOf
  <2>5. H # {}
    <3>1. W \subseteq Nat /\ W # {}
      BY <1>1, <2>2 DEF Revs
    <3>2. PICK w \in W : \A x \in W : w <= x
      <4> HIDE DEF W
      <4> QED
        BY <3>1, LeastNumber
    <3>3. PICK d \in served : store.branch[d] = b /\ w = store.n - 1 - d
      BY <3>2
    <3>4. ASSUME NEW c \in served, store.branch[c] = b, d \in ParentRevs(store, c)
          PROVE  FALSE
      <4>1. c \in Revs(store) /\ d \in Revs(store)
        BY <2>2
      <4>2. d < c
        BY <1>1, <3>4, <4>1, OrderedParents
      <4>3. store.n - 1 - c \in W
        BY <3>4
      <4>4. store.n - 1 - d <= store.n - 1 - c
        BY <3>2, <3>3, <4>3
      <4> QED
        BY <1>1, <4>1, <4>2, <4>4 DEF Revs
    <3>5. d \in H
      BY <2>2, <3>3, <3>4 DEF HeadsOf
    <3> QED
      BY <3>5
  <2>6. b \in Branches
    BY <1>1, <2>2, HgAssumptions
  <2>7. b \in DOMAIN tips' /\ tips'[b] = BranchTip(store, b)
    BY <2>1, <2>5, <2>6
  <2>8. IsTip(BranchTip(store, b), H, store.closed)
    BY <1>1, <2>4, BranchTipIsTip
  <2> QED
    BY <2>5, <2>7, <2>8
<1>3. CASE UNCHANGED vars
  <2>1. \A b : HeadsOf(store, b)' = HeadsOf(store, b)
    BY <1>3 DEF vars, HeadsOf
  <2>2. pc' = pc /\ served' = served /\ tips' = tips /\ store' = store
    BY <1>3 DEF vars
  <2> QED
    BY <2>1, <2>2 DEF TipIsMercurials
<1>4. CASE \/ Begin \/ PhasePass \/ SeedVisible \/ VisiblePass \/ Classify \/ CheckClosure
           \/ Import \/ RefuseChangeset
  <2>1. pc' # "done"
    BY <1>4 DEF Begin, PhasePass, SeedVisible, VisiblePass, Classify, CheckClosure, Import,
                RefuseChangeset, Refuse
  <2> QED
    BY <2>1 DEF TipIsMercurials
<1> QED
  BY <1>2, <1>3, <1>4 DEF Next

-----------------------------------------------------------------------------
LEMMA InitVInv == Init => VInv
PROOF
<1> SUFFICES ASSUME Init PROVE VInv
  OBVIOUS
<1>1. PhaseExact
  <2>1. \A r \in Revs(store) : ~ (r < 0)
    BY HgAssumptions DEF Init, Revs
  <2> QED
    BY <2>1 DEF Init, PhaseExact, AfterPhases
<1> QED
  BY <1>1 DEF Init, VInv, VisibleExact, ServedExact, CountsExact, Classified, TipIsMercurials

(* The second invariant holds, on top of the first.                        *)
THEOREM LoopsComputeReachability == Spec => []VInv
PROOF
<1>1. IInv /\ VInv /\ [Next]_vars => VInv'
  BY PhaseExactKept, VisibleExactKept, ServedExactKept, CountsExactKept, TipKept DEF VInv
<1> QED
  BY InitVInv, <1>1, LoopsKeepTheirPromises, PTL DEF Spec

(* For every repository whose parents come first, the published view is    *)
(* the one reachability defines: exactly the changesets with no secret     *)
(* ancestor that are not obsolete or have a descendant that is not, or is  *)
(* pinned (phases.rs, published.rs).                                       *)
THEOREM PublishedViewIsExact == Spec => []ViewIsExact
PROOF
<1>1. VInv => ViewIsExact
  BY DEF VInv, ServedExact, ServedRef, Classified, ViewIsExact, Accepted
<1> QED
  BY <1>1, LoopsComputeReachability, PTL

(* Whatever the repository, what is imported and the two counted           *)
(* exclusions add up to the changelog.                                     *)
THEOREM EveryChangesetIsAccounted == Spec => []ExclusionsPartition
PROOF
<1>1. VInv => ExclusionsPartition
  BY DEF VInv, CountsExact, Classified, ExclusionsPartition, Accepted
<1> QED
  BY <1>1, LoopsComputeReachability, PTL

(* For every repository whose parents come first, every branch with an     *)
(* imported changeset has its ref at the head Mercurial resolves it to.    *)
THEOREM BranchRefsAreMercurials == Spec => []TipIsMercurials
PROOF
<1>1. VInv => TipIsMercurials
  BY DEF VInv
<1> QED
  BY <1>1, LoopsComputeReachability, PTL
=============================================================================
