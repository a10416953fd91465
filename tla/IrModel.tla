------------------------------ MODULE IrModel ------------------------------
(***************************************************************************)
(* The intermediate representation of crates/brygge-ir: statuses, path     *)
(* operations, atoms, refs, drops and the transform chain, and the two     *)
(* judgements every artifact passes: the builder's (builder.rs) and the    *)
(* reader's (check_structure in artifact.rs).                              *)
(*                                                                         *)
(* An AtomId is a SHA-256 of everything an atom holds, parents' ids        *)
(* included.  Hashes do not collide here, so an atom IS its own id: its    *)
(* parents and the sources of its copies are the atoms themselves.  In     *)
(* the same way a blob is its own address.  Strings, times and identities  *)
(* are opaque values.                                                      *)
(***************************************************************************)
EXTENDS Naturals, Sequences, FiniteSets, SequencesExt

Kinds == {"Add", "Modify", "Delete", "Replace"}
NoBlob == "no blob"
NoMode == "no mode"

\* An optional step index is a set of at most one number: DropRecord.step.
NoStep == {}

-----------------------------------------------------------------------------
(* EpistemicStatus: what the source stated or a decoder derived (`base`),  *)
(* under the layers the transforms put on it, outermost first.             *)

Stated(base) == [base |-> base, layers |-> <<>>]
Transformed(step, changed, prior) ==
    [prior EXCEPT !.layers = <<[step |-> step, changed |-> changed]>> \o @]
IsStatus(status) ==
    /\ status = [base |-> status.base, layers |-> status.layers]
    /\ status.layers \in Seq(ToSet(status.layers))
IsTransformed(status) == status.layers # <<>>
Outermost(status) == Head(status.layers)
Prior(status) == [status EXCEPT !.layers = Tail(@)]

-----------------------------------------------------------------------------
(* Path operations of an atom are a set of records with a `path`.          *)

Paths(ops) == {op.path : op \in ops}
At(ops, path) == CHOOSE op \in ops : op.path = path

\* (variant, blob, mode) of an op: what a transform may, or may not, change.
OpPayload(op) == [kind |-> op.kind, blob |-> op.blob, mode |-> op.mode]

\* An operation and nothing beside it.
PlainOp(op) == [kind |-> op.kind, path |-> op.path, blob |-> op.blob,
                mode |-> op.mode, status |-> op.status]

\* An atom and nothing beside it.
PlainAtom(atom) == [parents |-> atom.parents, ops |-> atom.ops, copies |-> atom.copies,
                    meta |-> atom.meta, source |-> atom.source, status |-> atom.status]

\* The blobs the operations of a set of atoms name: what a store must hold.
Referenced(atoms) == {op.blob : op \in UNION {a.ops : a \in atoms}} \ {NoBlob}

\* IrBuilder::add_atom refuses two ops on one path, and a copy of an atom it
\* has not been given yet.
MayAddAtom(known, draft) ==
    /\ \A o1, o2 \in draft.ops : o1.path = o2.path => o1 = o2
    /\ \A copy \in draft.copies : copy.fromAtom \in known

-----------------------------------------------------------------------------
(* The canonical order: Kahn's algorithm over parents only, the ready      *)
(* atoms taken in the order of their source ids.  A parent outside the set *)
(* makes its child a root.                                                 *)

CanonicalOrder(atoms) ==
    LET Ready(out) == {a \in atoms \ ToSet(out) :
                          (ToSet(a.parents) \cap atoms) \subseteq ToSet(out)}
        Extend(out) ==
            Append(out, CHOOSE a \in Ready(out) :
                            \A b \in Ready(out) : a.source <= b.source)
        order[n \in 0..Cardinality(atoms)] == IF n = 0 THEN <<>> ELSE Extend(order[n - 1])
    IN  order[Cardinality(atoms)]

\* What IrBuilder::finish refuses: a repeated (kind, name) among the refs.
\* (Drops are a set here: two drops of one subject are one drop.)
RefKey(rf) == <<rf.kind, rf.name>>
OneRefPerKey(refs) == \A r, s \in refs : RefKey(r) = RefKey(s) => r = s

-----------------------------------------------------------------------------
(* What a reader accepts (check_structure, check_transform_chain).         *)

Earlier(atoms, i) == {atoms[j] : j \in 1..(i - 1)}

\* What decoding alone establishes: lists are lists, operations are operations,
\* an atom has one per path, and no two refs share a name and a kind (the
\* strict orders of the encoding).
Decoded(ir) ==
    /\ ir.atoms \in Seq(ToSet(ir.atoms)) /\ ir.chain \in Seq(ToSet(ir.chain))
    /\ \A a \in ToSet(ir.atoms) :
          /\ IsFiniteSet(a.ops) /\ IsFiniteSet(a.copies)
          /\ \A op \in a.ops : op = PlainOp(op) /\ IsStatus(op.status)
          /\ \A o1, o2 \in a.ops : o1.path = o2.path => o1 = o2
    /\ IsFiniteSet(ir.refs) /\ OneRefPerKey(ir.refs)
    /\ IsFiniteSet(ir.drops)

StepsInRange(status, nsteps) ==
    \A n \in DOMAIN status.layers : status.layers[n].step < nsteps

Readable(ir) ==
    LET all == ToSet(ir.atoms) IN
    /\ Decoded(ir)
    /\ IsInjective(ir.atoms)
    /\ \A i \in DOMAIN ir.atoms :
          /\ ir.atoms[i].parents \in Seq(Earlier(ir.atoms, i))
          /\ \A c \in ir.atoms[i].copies : c.fromAtom \in Earlier(ir.atoms, i)
    /\ ir.atoms = CanonicalOrder(all)
    /\ \A rf \in ir.refs : rf.target \in all
    /\ ir.content = Referenced(all)
    /\ \A a \in all :
          /\ StepsInRange(a.status, Len(ir.chain))
          /\ \A op \in a.ops : StepsInRange(op.status, Len(ir.chain))
          /\ \A c \in a.copies : ~IsTransformed(c.status)
    /\ \A rf \in ir.refs : StepsInRange(rf.status, Len(ir.chain))
    /\ \A d \in ir.drops : \A k \in d.step : k < Len(ir.chain)

-----------------------------------------------------------------------------
(* An artifact a decoder hands to the builder: atoms as drafts that name   *)
(* their parents, and their copies' sources, by position.                  *)

AtomsOf(drafts) ==
    LET atom[i \in DOMAIN drafts] ==
          [parents |-> [n \in DOMAIN drafts[i].parents |-> atom[drafts[i].parents[n]]],
           ops     |-> drafts[i].ops,
           copies  |-> {[to |-> c.to, from |-> c.from, status |-> c.status,
                         fromAtom |-> atom[c.fromAtom]] : c \in drafts[i].copies},
           meta    |-> drafts[i].meta,
           source  |-> drafts[i].source,
           status  |-> drafts[i].status]
    IN  atom

Assemble(draft) ==
    LET atom == AtomsOf(draft.atoms)
        all  == {atom[i] : i \in DOMAIN draft.atoms}
    IN  [atoms   |-> CanonicalOrder(all),
         refs    |-> {[rf EXCEPT !.target = atom[@]] : rf \in draft.refs},
         drops   |-> draft.drops,
         flags   |-> draft.flags,
         prov    |-> draft.prov,
         chain   |-> draft.chain,
         content |-> Referenced(all)]
=============================================================================
