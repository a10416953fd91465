------------------------------ MODULE Decoding ------------------------------
(***************************************************************************)
(* What the decoders have in common (crates/brygge-ir/src/builder.rs, and  *)
(* how each decoder's decode_with uses it): one input, a builder that      *)
(* collects atoms, refs and losses, and an end that is either an artifact  *)
(* or a typed refusal, after which nothing is left of the build.           *)
(*                                                                         *)
(* Atoms are drafts that name their parents, and the sources of their      *)
(* copies, by their place in the builder; IrModel!Assemble makes the       *)
(* artifact of them.  Paths are sequences of names.                        *)
(***************************************************************************)
EXTENDS IrModel

VARIABLES
    input,      \* the source being read, a record with a `kind`: never written
    stage,      \* what the decode does next; done or failed at its end
    failure,    \* why it failed
    builder     \* IrBuilder

decoding == <<input, stage, failure, builder>>

NoFailure == "none"

NewBuilder == [atoms |-> <<>>, refs |-> {}, drops |-> {}, flags |-> {}]

DecodingInit(source, first) ==
    /\ input = source
    /\ stage = first
    /\ failure = NoFailure
    /\ builder = NewBuilder

Goto(next) == stage' = next /\ UNCHANGED <<input, failure>>

(* `?` on an Err: the decoder returns and the builder is dropped.          *)
Fail(why) ==
    /\ stage' = "failed" /\ failure' = why /\ builder' = NewBuilder
    /\ UNCHANGED input

Ended == stage \in {"done", "failed"}

-----------------------------------------------------------------------------
(* Statuses a decoder gives.                                               *)
AsStated == Stated("Stated")
Derived(kind) == Stated(kind)

AddOp(path, blob, mode, status) ==
    [kind |-> "Add", path |-> path, blob |-> blob, mode |-> mode, status |-> status]
ModifyOp(path, blob, mode, status) ==
    [kind |-> "Modify", path |-> path, blob |-> blob, mode |-> mode, status |-> status]
ReplaceOp(path, blob, mode, status) ==
    [kind |-> "Replace", path |-> path, blob |-> blob, mode |-> mode, status |-> status]
DeleteOp(path, status) ==
    [kind |-> "Delete", path |-> path, blob |-> NoBlob, mode |-> NoMode, status |-> status]

(* Seeded mistake: a file whose mode alone changes is not touched.         *)
DiffOpsOfContent(base, child, status) ==
    {AddOp(p, child[p].blob, child[p].mode, status) : p \in DOMAIN child \ DOMAIN base}
    \cup {ModifyOp(p, child[p].blob, child[p].mode, status) :
             p \in {q \in DOMAIN child \cap DOMAIN base : child[q].blob # base[q].blob}}
    \cup {DeleteOp(p, status) : p \in DOMAIN base \ DOMAIN child}

(* The literal difference of two trees, each a function from paths to      *)
(* records with a blob and a mode.                                         *)
DiffOps(base, child, status) ==
    {AddOp(p, child[p].blob, child[p].mode, status) : p \in DOMAIN child \ DOMAIN base}
    \cup {ModifyOp(p, child[p].blob, child[p].mode, status) :
             p \in {q \in DOMAIN child \cap DOMAIN base : child[q] # base[q]}}
    \cup {DeleteOp(p, status) : p \in DOMAIN base \ DOMAIN child}

OneOf(set) == CHOOSE x \in set : TRUE

(* The elements of a set in a strict order of them.  SetToSortSeq is this,  *)
(* but enumerates every sequence.                                          *)
Sorted(set, Less(_, _)) ==
    LET Least(out) == CHOOSE x \in set \ ToSet(out) : \A y \in set \ ToSet(out) : x = y \/ Less(x, y)
    IN  FoldLeft(LAMBDA out, n : Append(out, Least(out)), <<>>, [n \in 1..Cardinality(set) |-> n])

EmptyTree == [p \in {} |-> p]

(* What a tree becomes under a set of operations, and the trees of atoms,  *)
(* replayed along first parents.                                           *)
After(tree, ops) ==
    LET gone    == {o.path : o \in {x \in ops : x.kind = "Delete"}}
        written == Paths(ops) \ gone
    IN  [p \in (DOMAIN tree \ gone) \cup written |->
            IF p \in written THEN [blob |-> At(ops, p).blob, mode |-> At(ops, p).mode]
            ELSE tree[p]]

TreesOf(atoms) ==
    LET replayed[n \in DOMAIN atoms] ==
          After(IF atoms[n].parents = <<>> THEN EmptyTree ELSE replayed[atoms[n].parents[1]], atoms[n].ops)
    IN  replayed

ReplayedTrees == TreesOf(builder.atoms)

-----------------------------------------------------------------------------
(* IrBuilder::add_atom and add_ref: what they refuse, and what they keep.  *)
Accepts(draft) == MayAddAtom(DOMAIN builder.atoms, draft)

WithAtom(b, draft) == [b EXCEPT !.atoms = Append(@, draft)]

NextAtom == Len(builder.atoms) + 1

AtomNamed(source) ==
    CHOOSE i \in DOMAIN builder.atoms : builder.atoms[i].source = source
HasAtom(source) == \E i \in DOMAIN builder.atoms : builder.atoms[i].source = source

Ref(kind, name, target, status, annotation) ==
    [kind |-> kind, name |-> name, target |-> target, status |-> status,
     annotation |-> annotation]

Drop(what, count) == [what |-> what, count |-> count, step |-> NoStep]

\* What is recorded only when there is some of it.
DropIfAny(what, count) == IF count > 0 THEN {Drop(what, count)} ELSE {}

(* IrBuilder::finish with the decoder's loss boundary and flags: a second  *)
(* ref of one kind and name is refused.                                    *)
Finish(refs, drops, flags) ==
    IF OneRefPerKey(refs)
    THEN /\ builder' = [builder EXCEPT !.refs = refs, !.drops = drops, !.flags = flags]
         /\ Goto("done")
    ELSE Fail("two refs of one kind and name")

(* What says how an artifact was made: the kind of the source and of the   *)
(* decoder, whether names and versions are there, the brygge and the tool  *)
(* that made it, and the form of the source where a kind has several.      *)
Provenance(kind, form) ==
    [kind |-> kind, decoder |-> kind, whole |-> TRUE, brygge |-> "this", tool |-> "this", form |-> form]

\* The artifact of a finished build.
Artifact ==
    Assemble([atoms |-> builder.atoms, refs |-> builder.refs, drops |-> builder.drops, flags |-> builder.flags,
              prov |-> Provenance(input.kind, IF input.kind = "svn" THEN input.place ELSE "only"),
              chain |-> <<>>])
=============================================================================
