--------------------------- MODULE TransformCheck ---------------------------
(***************************************************************************)
(* transform::check of crates/brygge-ir/src/transform.rs: when an output   *)
(* artifact is accepted as an honest transform of an input one.  Atoms are *)
(* matched by source identity, operations by path within matched atoms,    *)
(* copies by `to`, refs by (kind, name); every rule is a predicate here,   *)
(* and Check is their conjunction.                                         *)
(*                                                                         *)
(* `in` and `out` are what the reader decoded: [ir, digest].               *)
(***************************************************************************)
EXTENDS IrModel

Step(in) == Len(in.ir.chain)

UniqueSources(atoms) ==
    \A i, j \in DOMAIN atoms : atoms[i].source = atoms[j].source => i = j

\* The matching: each input atom that still has an output atom of its own source.
IdMap(in, out) ==
    LET Matches(a) == {b \in ToSet(out.ir.atoms) : b.source = a.source}
    IN  [a \in {x \in ToSet(in.ir.atoms) : Matches(x) # {}} |-> CHOOSE b \in Matches(a) : TRUE]

-----------------------------------------------------------------------------
(* Parents through the matching: a removed parent is replaced, in place,   *)
(* by its own parents, and no parent is repeated.                          *)

FirstOccurrences(seq) ==
    LET kept[n \in 0..Len(seq)] ==
          IF n = 0 THEN <<>>
          ELSE IF Contains(kept[n - 1], seq[n]) THEN kept[n - 1]
          ELSE Append(kept[n - 1], seq[n])
    IN  kept[Len(seq)]

\* Seeded mistake: a removed parent is dropped, not replaced by its own parents.
SurvivingParents(parents, map, inAtoms) ==
    LET kept == SelectSeq(parents, LAMBDA p : p \in DOMAIN map) IN
    FirstOccurrences([n \in DOMAIN kept |-> map[kept[n]]])

MappedParents(parents, map, inAtoms) ==
    LET resolve[a \in inAtoms] ==
          IF a \in DOMAIN map
          THEN <<map[a]>>
          ELSE FlattenSeq([n \in DOMAIN a.parents |-> resolve[a.parents[n]]])
    IN  FirstOccurrences(FlattenSeq([n \in DOMAIN parents |-> resolve[parents[n]]]))

\* Seeded mistake: parents are compared by id, which any edit upstream changes.
ParentIdsDiffer(atom, map) ==
    \E p \in ToSet(atom.parents) : p \notin DOMAIN map \/ map[p] # p

ParentsDiffer(atom, map) == \E p \in ToSet(atom.parents) : p \notin DOMAIN map

-----------------------------------------------------------------------------
(* Marks.  A status is exact when it is the input's own, and nothing       *)
(* differs, or a mark of this step that names all that differs and nothing *)
(* else, over the input's own status.                                      *)

\* Seeded mistake: what lies under the new mark is not compared.
MarkIsExactOnTop(inStatus, outStatus, differs, k) ==
    IF IsTransformed(outStatus)
    THEN Outermost(outStatus).step = k /\ Outermost(outStatus).changed = differs
    ELSE differs = {} /\ outStatus = inStatus

MarkIsExact(inStatus, outStatus, differs, k) ==
    IF IsTransformed(outStatus)
    THEN /\ Outermost(outStatus).step = k
         /\ Prior(outStatus) = inStatus
         /\ Outermost(outStatus).changed = differs
    ELSE /\ differs = {}
         /\ outStatus = inStatus

MarkNames(status, k, parts) ==
    /\ IsTransformed(status)
    /\ Outermost(status).step = k
    /\ Outermost(status).changed \cap parts # {}

-----------------------------------------------------------------------------
(* Rules 1 and 2: the chain grows by one record, the rest passes through.  *)

ChainExtends(in, out, name) ==
    /\ Len(out.ir.chain) = Len(in.ir.chain) + 1
    /\ IsPrefix(in.ir.chain, out.ir.chain)
    /\ Last(out.ir.chain).name = name
    /\ Last(out.ir.chain).consumed = in.digest

NewDrops(in, out) == out.ir.drops \ in.ir.drops
DropSubjects(in, out, word) ==
    {Tail(d.what) : d \in {e \in NewDrops(in, out) : Head(e.what) = word}}

\* A drop of a transform names an atom, an operation, a copy or a ref.
NamesASubject(what) ==
    \/ what[1] = "atom" /\ what = <<"atom", what[2]>>
    \/ what[1] \in {"op", "copy", "ref"} /\ what = <<what[1], what[2], what[3]>>

PassesThrough(in, out) ==
    /\ out.ir.prov = in.ir.prov
    /\ out.ir.flags = in.ir.flags
    /\ in.ir.drops \subseteq out.ir.drops
    /\ \A d \in NewDrops(in, out) :
          d.class = "Transform" /\ d.step = {Step(in)} /\ NamesASubject(d.what)

-----------------------------------------------------------------------------
(* Rule 3: every output atom has an input atom, and an input atom has an   *)
(* output atom or exactly one drop.                                        *)

AtomsAccounted(in, out) ==
    LET map     == IdMap(in, out)
        dropped == DropSubjects(in, out, "atom")
    IN  /\ UniqueSources(out.ir.atoms)
        /\ \A b \in ToSet(out.ir.atoms) :
              \E a \in ToSet(in.ir.atoms) : a.source = b.source
        /\ \A a \in ToSet(in.ir.atoms) : (a \in DOMAIN map) <=> (<<a>> \notin dropped)
        /\ \A s \in dropped : s[1] \in ToSet(in.ir.atoms)

-----------------------------------------------------------------------------
(* Rule 4: operations and copies of a matched pair of atoms.               *)

\* Seeded mistake: a change of mode is not a difference.
OpContentDiffers(inOp, outOp) == IF inOp.blob # outOp.blob THEN {"blob"} ELSE {}

OpDiffers(inOp, outOp) ==
    LET was == OpPayload(inOp) IN LET now == OpPayload(outOp) IN
    {part \in {"blob", "mode"} : was[part] # now[part]}

KeptOpIsHonest(inOp, outOp, k) ==
    /\ OpPayload(inOp).kind = OpPayload(outOp).kind
    /\ MarkIsExact(inOp.status, outOp.status, OpDiffers(inOp, outOp), k)

GonePaths(a, b)  == Paths(a.ops) \ Paths(b.ops)
NewPaths(a, b)   == Paths(b.ops) \ Paths(a.ops)
KeptPaths(a, b)  == Paths(a.ops) \cap Paths(b.ops)

\* Seeded mistake: any drop on the atom makes up for an operation that is gone.
OpsAreCounted(a, b, opDrops, k) ==
    /\ \A path \in KeptPaths(a, b) : KeptOpIsHonest(At(a.ops, path), At(b.ops, path), k)
    /\ \A path \in NewPaths(a, b) : MarkNames(At(b.ops, path).status, k, {"path"})
    /\ Cardinality(NewPaths(a, b)) + Cardinality({d \in opDrops : d[1] = a})
          = Cardinality(GonePaths(a, b))

OpsAreHonest(a, b, opDrops, k) ==
    /\ \A path \in KeptPaths(a, b) : KeptOpIsHonest(At(a.ops, path), At(b.ops, path), k)
    /\ \A path \in NewPaths(a, b) : MarkNames(At(b.ops, path).status, k, {"path"})
    /\ Cardinality(NewPaths(a, b)) =
          Cardinality({path \in GonePaths(a, b) : <<a, path>> \notin opDrops})

OpsDiffer(a, b) ==
    \/ NewPaths(a, b) # {}
    \/ \E path \in KeptPaths(a, b) : IsTransformed(At(b.ops, path).status)

\* Copies are collected in a map by `to`: of several to one path, one is seen
\* (the last in an order of names and ids, both opaque here).
Destinations(copies) == {c.to : c \in copies}
CopyTo(copies, to) == CHOOSE c \in copies : c.to = to

CopiesAreHonest(a, b, copyDrops, map) ==
    /\ Destinations(b.copies) \subseteq Destinations(a.copies)
    /\ \A to \in Destinations(b.copies) :
          LET d == CopyTo(a.copies, to) IN LET c == CopyTo(b.copies, to) IN
          /\ d.from = c.from /\ d.status = c.status
          /\ d.fromAtom \in DOMAIN map /\ map[d.fromAtom] = c.fromAtom
    /\ \A to \in Destinations(a.copies) \ Destinations(b.copies) : <<a, to>> \in copyDrops

CopiesDiffer(a, b) == Destinations(a.copies) \ Destinations(b.copies) # {}

-----------------------------------------------------------------------------
(* Rule 5: parents are the input's own, mapped; and the mark of the atom   *)
(* itself names exactly what differs.                                      *)

\* Seeded mistake: a substituted parent is not a difference.
AtomDiffersInContent(a, b, map) ==
    {part \in DOMAIN a.meta : a.meta[part] # b.meta[part]}
      \cup (IF OpsDiffer(a, b)    THEN {"ops"}    ELSE {})
      \cup (IF CopiesDiffer(a, b) THEN {"copies"} ELSE {})

AtomDiffers(a, b, map) ==
    {part \in DOMAIN a.meta : a.meta[part] # b.meta[part]}
      \cup (IF OpsDiffer(a, b)       THEN {"ops"}     ELSE {})
      \cup (IF CopiesDiffer(a, b)    THEN {"copies"}  ELSE {})
      \cup (IF ParentsDiffer(a, map) THEN {"parents"} ELSE {})

\* Seeded mistake: the parents of the output atom are not compared.
AtomIsHonestButParents(in, out, map, a) ==
    LET b == map[a] IN
    /\ OpsAreHonest(a, b, DropSubjects(in, out, "op"), Step(in))
    /\ CopiesAreHonest(a, b, DropSubjects(in, out, "copy"), map)
    /\ MarkIsExact(a.status, b.status, AtomDiffers(a, b, map), Step(in))

AtomIsHonest(in, out, map, a) ==
    LET b == map[a] IN
    /\ OpsAreHonest(a, b, DropSubjects(in, out, "op"), Step(in))
    /\ CopiesAreHonest(a, b, DropSubjects(in, out, "copy"), map)
    /\ b.parents = MappedParents(a.parents, map, ToSet(in.ir.atoms))
    /\ MarkIsExact(a.status, b.status, AtomDiffers(a, b, map), Step(in))

-----------------------------------------------------------------------------
(* Rule 6: refs.  A ref whose (kind, name) is new needs a mark that says   *)
(* so, and there are as many of them as refs gone without a drop.          *)

RefKeys(ir) == {RefKey(rf) : rf \in ir.refs}
RefAt(ir, key) == CHOOSE rf \in ir.refs : RefKey(rf) = key

RefDiffers(was, now) ==
    (IF was.target.source # now.target.source THEN {"target"} ELSE {})
      \cup (IF was.annotation # now.annotation THEN {"annotation"} ELSE {})

\* Seeded mistake: new and vanished refs are not counted against each other.
RefsAreMarked(in, out) ==
    /\ \A key \in RefKeys(out.ir) \ RefKeys(in.ir) :
          MarkNames(RefAt(out.ir, key).status, Step(in), {"name", "kind"})
    /\ \A key \in RefKeys(in.ir) \cap RefKeys(out.ir) :
          LET was == RefAt(in.ir, key) IN LET now == RefAt(out.ir, key) IN
          MarkIsExact(was.status, now.status, RefDiffers(was, now), Step(in))

RefsAreHonest(in, out) ==
    LET new   == RefKeys(out.ir) \ RefKeys(in.ir)
        gone  == RefKeys(in.ir) \ RefKeys(out.ir)
        drops == DropSubjects(in, out, "ref")
    IN  /\ \A key \in new : MarkNames(RefAt(out.ir, key).status, Step(in), {"name", "kind"})
        /\ Cardinality(new) = Cardinality(gone \ drops)
        /\ \A key \in RefKeys(in.ir) \cap RefKeys(out.ir) :
              LET was == RefAt(in.ir, key) IN LET now == RefAt(out.ir, key) IN
              MarkIsExact(was.status, now.status, RefDiffers(was, now), Step(in))

-----------------------------------------------------------------------------
Check(in, out, name) ==
    /\ UniqueSources(in.ir.atoms)
    /\ ChainExtends(in, out, name)
    /\ PassesThrough(in, out)
    /\ AtomsAccounted(in, out)
    /\ LET map == IdMap(in, out) IN
       \A a \in DOMAIN map : AtomIsHonest(in, out, map, a)
    /\ RefsAreHonest(in, out)
=============================================================================
