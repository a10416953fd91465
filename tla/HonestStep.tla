----------------------------- MODULE HonestStep -----------------------------
(***************************************************************************)
(* What one transform step promises a reader who holds both artifacts,     *)
(* stated without the rules transform::check uses to enforce it (the       *)
(* module comment of transform.rs; sections 1 and 3 of                     *)
(* docs/src/reference/writing-a-transform.md).                             *)
(*                                                                         *)
(* What kept its path, or its kind and name, is compared part by part.     *)
(* Of a moved operation and a renamed ref check looks at the mark alone,   *)
(* and nothing in an artifact says which record of the input it was: the   *)
(* promises below give each of them a record of the input that is gone, no *)
(* two the same one, and say nothing of what it holds.                     *)
(***************************************************************************)
EXTENDS IrModel

MarkedBy(k, status) == IsTransformed(status) /\ Outermost(status).step = k
NamedBy(k, status, part) == MarkedBy(k, status) /\ part \in Outermost(status).changed

\* Pairs of an input atom and the output atom of the same source.
Survivors(in, out) ==
    {pair \in ToSet(in.atoms) \X ToSet(out.atoms) : pair[1].source = pair[2].source}

SourcesOf(parents) == [n \in DOMAIN parents |-> parents[n].source]
CopyFacts(copies) == {<<c.to, c.from, c.fromAtom.source, c.status>> : c \in copies}
\* The copies that share their destination with no other: what a step promises
\* of copies, it promises of these (the check sees one copy per destination).
LoneCopies(copies) == {c \in copies : \A d \in copies : d.to = c.to => d = c}

\* What the drops of this step name: subjects, paths of one atom, keys of refs.
StepDrops(in, out) == {d.what : d \in out.drops \ in.drops}
DroppedPaths(in, out, a) ==
    {what[3] : what \in {w \in StepDrops(in, out) : w[1] = "op" /\ w[2] = a}}
DroppedRefs(in, out) ==
    {<<what[2], what[3]>> : what \in {w \in StepDrops(in, out) : w[1] = "ref"}}

-----------------------------------------------------------------------------
(* A reading traces each operation of the output to one of the input, and  *)
(* each ref to a ref, no two to the same: to the one at the same place, or *)
(* from a place that is new, under a mark that says so, to one whose place *)
(* is gone and is not dropped.                                             *)

OpReadings(k, a, b, dropped) ==
    {from \in Injection(b.ops, a.ops) :
        \A op \in b.ops :
            \/ from[op].path = op.path
            \/ /\ NamedBy(k, op.status, "path")
               /\ op.path \notin Paths(a.ops)
               /\ from[op].path \notin Paths(b.ops) \cup dropped}

Keys(refs) == {RefKey(rf) : rf \in refs}

RefReadings(k, in, out, dropped) ==
    {from \in Injection(out.refs, in.refs) :
        \A rf \in out.refs :
            \/ RefKey(from[rf]) = RefKey(rf)
            \/ /\ NamedBy(k, rf.status, "name") \/ NamedBy(k, rf.status, "kind")
               /\ RefKey(rf) \notin Keys(in.refs)
               /\ RefKey(from[rf]) \notin Keys(out.refs) \cup dropped}

-----------------------------------------------------------------------------
UnmarkedAtomUnchanged(a, b) ==
    /\ b.status = a.status
    /\ \A part \in DOMAIN a.meta : b.meta[part] = a.meta[part]
    /\ ToSet(SourcesOf(b.parents)) = ToSet(SourcesOf(a.parents))
    /\ IsInjective(a.parents) => SourcesOf(b.parents) = SourcesOf(a.parents)
    /\ CopyFacts(LoneCopies(a.copies)) \subseteq CopyFacts(b.copies)
    /\ b.ops \subseteq a.ops

UnmarkedRefUnchanged(in, rf) ==
    \E s \in in.refs : /\ s.kind = rf.kind /\ s.name = rf.name
                       /\ s.target.source = rf.target.source
                       /\ s.annotation = rf.annotation /\ s.status = rf.status

UnmarkedIsUnchanged(in, out) ==
    LET k == Len(in.chain) IN
    /\ \A pair \in Survivors(in, out) :
          /\ MarkedBy(k, pair[2].status) \/ UnmarkedAtomUnchanged(pair[1], pair[2])
          /\ \A op \in pair[2].ops : MarkedBy(k, op.status) \/ op \in pair[1].ops
    /\ \A rf \in out.refs : MarkedBy(k, rf.status) \/ UnmarkedRefUnchanged(in, rf)

\* An atom is gone exactly when a drop of this step names it, a copy only when
\* one does; and the operations and the refs can be read so that each one no
\* record of the output is traced to is named by a drop.
EveryLossIsNamed(in, out) ==
    LET k == Len(in.chain) IN
    /\ \A a \in ToSet(in.atoms) :
          <<"atom", a>> \in StepDrops(in, out)
            <=> \A b \in ToSet(out.atoms) : b.source # a.source
    /\ \A pair \in Survivors(in, out) :
          LET a == pair[1] IN LET b == pair[2] IN LET dropped == DroppedPaths(in, out, a) IN
          /\ \E from \in OpReadings(k, a, b, dropped) :
                \A op \in a.ops : op \in Range(from) \/ op.path \in dropped
          /\ \A c \in a.copies : \/ <<"copy", a, c.to>> \in StepDrops(in, out)
                                 \/ \E d \in b.copies : d.to = c.to
    /\ LET dropped == DroppedRefs(in, out) IN
       \E from \in RefReadings(k, in, out, dropped) :
           \A rf \in in.refs : rf \in Range(from) \/ RefKey(rf) \in dropped

\* What kept its place differs only in what a mark of this step names.
OpChangesAreNamed(k, was, now) ==
    /\ now.kind = was.kind
    /\ \A part \in {"blob", "mode"} : now[part] # was[part] => NamedBy(k, now.status, part)

RefChangesAreNamed(k, was, now) ==
    /\ now.target.source # was.target.source => NamedBy(k, now.status, "target")
    /\ now.annotation # was.annotation => NamedBy(k, now.status, "annotation")

\* Every atom has one atom of the input behind it, every operation, copy and ref
\* one of its own; and those in their old place are what they were but for the
\* parts their marks name.
EveryRecordHasAnOrigin(in, out) ==
    LET k == Len(in.chain) IN
    /\ \A b \in ToSet(out.atoms) :
          Cardinality({pair \in Survivors(in, out) : pair[2].source = b.source}) = 1
    /\ \A pair \in Survivors(in, out) : LET a == pair[1] IN LET b == pair[2] IN
          /\ \A part \in DOMAIN a.meta :
                b.meta[part] # a.meta[part] => NamedBy(k, b.status, part)
          /\ OpReadings(k, a, b, DroppedPaths(in, out, a)) # {}
          /\ \A was \in a.ops, now \in b.ops :
                was.path = now.path => OpChangesAreNamed(k, was, now)
          /\ CopyFacts(LoneCopies(b.copies)) \subseteq CopyFacts(a.copies)
          /\ \A c \in b.copies : \E d \in a.copies : d.to = c.to
    /\ RefReadings(k, in, out, DroppedRefs(in, out)) # {}
    /\ \A was \in in.refs, now \in out.refs :
          RefKey(was) = RefKey(now) => RefChangesAreNamed(k, was, now)

\* A mark of this step on an atom, on an operation at its old path or on a ref
\* of its old kind and name sits on the status the input recorded, so the older
\* steps can still be read under it.  What lies under the mark of a moved
\* operation or a renamed ref is compared with nothing.
HistoryKept(in, out) ==
    LET k == Len(in.chain) IN
    /\ SubSeq(out.chain, 1, k) = in.chain
    /\ in.drops \subseteq out.drops
    /\ in.flags = out.flags
    /\ in.prov = out.prov
    /\ \A pair \in Survivors(in, out) :
          /\ MarkedBy(k, pair[2].status) => Prior(pair[2].status) = pair[1].status
          /\ \A was \in pair[1].ops, now \in pair[2].ops :
                was.path = now.path /\ MarkedBy(k, now.status) => Prior(now.status) = was.status
    /\ \A was \in in.refs, now \in out.refs :
          RefKey(was) = RefKey(now) /\ MarkedBy(k, now.status) => Prior(now.status) = was.status

-----------------------------------------------------------------------------
AncestorSources(atoms) ==
    LET anc[a \in atoms] ==
          {p.source : p \in ToSet(a.parents)} \cup UNION {anc[p] : p \in ToSet(a.parents)}
    IN  anc

\* Removing atoms contracts the graph: among the atoms that stay, ancestor and
\* descendant are what they were, and no parent is listed twice.
AncestryKept(in, out) ==
    LET was  == AncestorSources(ToSet(in.atoms))
        now  == AncestorSources(ToSet(out.atoms))
        stay == {b.source : b \in ToSet(out.atoms)}
    IN  \A pair \in Survivors(in, out) :
          /\ now[pair[2]] = was[pair[1]] \cap stay
          /\ Cardinality(ToSet(pair[2].parents)) = Len(pair[2].parents)
=============================================================================
