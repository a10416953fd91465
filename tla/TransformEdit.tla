--------------------------- MODULE TransformEdit ---------------------------
(***************************************************************************)
(* transform::Edit of crates/brygge-ir/src/transform/edit.rs: a session    *)
(* that starts from an input artifact, edits a working copy of its atoms   *)
(* and refs in any order, and ends in `finish`, which computes the marks   *)
(* and the drops from the difference with the input, rebuilds the artifact *)
(* through the builder, reads it back and runs Check on it.                *)
(*                                                                         *)
(* One action per method.  A call that returns an error changes nothing    *)
(* and is not a step.                                                      *)
(***************************************************************************)
EXTENDS TransformCheck, HonestStep, TransformValues

CONSTANTS
    Inputs,       \* the decoded inputs a session may start from: [ir, digest]
    MetaParts,    \* the claims of an atom: author, committer, message, ...
    MaxEdits      \* model bound: how many edits a session makes

NoName == "no new name"

\* What the inputs hold, and so what a working copy may hold.
AllAtoms    == UNION {ToSet(in.ir.atoms) : in \in Inputs}
AllOps      == UNION {a.ops : a \in AllAtoms}
AllRefs     == UNION {in.ir.refs : in \in Inputs}
AllClaims   == MetaValues \cup UNION {{a.meta[part] : part \in MetaParts} : a \in AllAtoms}

WorkingOpType ==
    [kind : Kinds, path : PathNames, origin : PathNames,
     blob : Blobs \cup {op.blob : op \in AllOps},
     mode : Modes \cup {op.mode : op \in AllOps},
     status : {op.status : op \in AllOps}]

AtomEditType ==
    [meta : [MetaParts -> AllClaims], ops : SUBSET WorkingOpType,
     copies : SUBSET UNION {a.copies : a \in AllAtoms},
     removedOps : SUBSET PathNames,
     removedCopies : SUBSET {c.to : c \in UNION {a.copies : a \in AllAtoms}}]

RefEditType ==
    [annotation : Annotations \cup {rf.annotation : rf \in AllRefs},
     newName : RefNames \cup {NoName}]

\* The reader's guarantees on an input, and the model's on its values.
ASSUME EditAssumptions ==
    /\ MaxEdits \in Nat
    /\ NoBlob \notin Blobs
    /\ NoMode \notin Modes

ASSUME InputAssumptions ==
    \A in \in Inputs :
        /\ Readable(in.ir)
        /\ \A i \in DOMAIN in.ir.atoms : LET a == in.ir.atoms[i] IN
              /\ a = PlainAtom(a) /\ a.source \in Nat
              /\ a.meta \in [MetaParts -> AllClaims]
              /\ \A op \in a.ops :
                    /\ op.kind \in Kinds /\ op.path \in PathNames
                    /\ (op.kind = "Delete") <=> (op.blob = NoBlob /\ op.mode = NoMode)

VARIABLES
    input,         \* the artifact being edited; never assigned after begin
    work,          \* Edit.atoms: an AtomEdit per input atom
    removedAtoms,  \* keys of Edit.removed_atoms
    refEdits,      \* Edit.refs: per input ref, its annotation and new name
    removedRefs,   \* keys of Edit.removed_refs
    newBlobs,      \* Edit.new_blobs
    edits,         \* how many edits were made (bounded by MaxEdits)
    outcome        \* what finish returned

vars == <<input, work, removedAtoms, refEdits, removedRefs, newBlobs, edits, outcome>>

InAtoms == input.ir.atoms
Index == DOMAIN InAtoms
Open == [kind |-> "open"]

\* An operation of the working copy remembers the path it had in the input.
\* `origin` is a history variable: no action reads it, and finish drops it.
WorkingOp(op) == [kind |-> op.kind, path |-> op.path, blob |-> op.blob,
                  mode |-> op.mode, status |-> op.status, origin |-> op.path]

AtomEdit(atom) ==
    [meta |-> atom.meta,
     ops |-> {WorkingOp(op) : op \in atom.ops},
     copies |-> atom.copies,
     removedOps |-> {},
     removedCopies |-> {}]

Init ==
    /\ input \in Inputs
    /\ work = [i \in Index |-> AtomEdit(InAtoms[i])]
    /\ removedAtoms = {}
    /\ refEdits = [key \in RefKeys(input.ir) |->
                      [annotation |-> RefAt(input.ir, key).annotation, newName |-> NoName]]
    /\ removedRefs = {}
    /\ newBlobs = {}
    /\ edits = 0
    /\ outcome = Open

Editing == outcome = Open /\ edits < MaxEdits /\ edits' = edits + 1

-----------------------------------------------------------------------------
(* AtomEdit: reached through `atoms()`, which yields removed atoms too.    *)

SetMetadata(i, part, value) ==
    /\ Editing
    /\ work' = [work EXCEPT ![i].meta[part] = value]
    /\ UNCHANGED <<input, removedAtoms, refEdits, removedRefs, newBlobs, outcome>>

\* Seeded mistake: a Delete is given content.
SetAnyOpBlob(i, op, blob) ==
    /\ Editing
    /\ work' = [work EXCEPT ![i].ops = (@ \ {op}) \cup {[op EXCEPT !.blob = blob]}]
    /\ UNCHANGED <<input, removedAtoms, refEdits, removedRefs, newBlobs, outcome>>

SetOpBlob(i, op, blob) ==
    /\ Editing
    /\ op.kind # "Delete"
    /\ work' = [work EXCEPT ![i].ops = (@ \ {op}) \cup {[op EXCEPT !.blob = blob]}]
    /\ UNCHANGED <<input, removedAtoms, refEdits, removedRefs, newBlobs, outcome>>

SetOpMode(i, op, mode) ==
    /\ Editing
    /\ op.kind # "Delete"
    /\ work' = [work EXCEPT ![i].ops = (@ \ {op}) \cup {[op EXCEPT !.mode = mode]}]
    /\ UNCHANGED <<input, removedAtoms, refEdits, removedRefs, newBlobs, outcome>>

\* Seeded mistake: an operation is moved onto a path that is in use.
MoveOpOnto(i, op, path) ==
    /\ Editing
    /\ work' = [work EXCEPT ![i].ops = (@ \ {op}) \cup {[op EXCEPT !.path = path]}]
    /\ UNCHANGED <<input, removedAtoms, refEdits, removedRefs, newBlobs, outcome>>

MoveOp(i, op, path) ==
    /\ Editing
    /\ path \notin Paths(work[i].ops)
    /\ work' = [work EXCEPT ![i].ops = (@ \ {op}) \cup {[op EXCEPT !.path = path]}]
    /\ UNCHANGED <<input, removedAtoms, refEdits, removedRefs, newBlobs, outcome>>

\* removed_ops is keyed by the path the operation has now: a second operation
\* removed at one path replaces the first entry.
RemoveOp(i, op) ==
    /\ Editing
    /\ work' = [work EXCEPT ![i].ops = @ \ {op},
                            ![i].removedOps = @ \cup {op.path}]
    /\ UNCHANGED <<input, removedAtoms, refEdits, removedRefs, newBlobs, outcome>>

RemoveCopy(i, copy) ==
    /\ Editing
    /\ work' = [work EXCEPT ![i].copies = @ \ {copy},
                            ![i].removedCopies = @ \cup {copy.to}]
    /\ UNCHANGED <<input, removedAtoms, refEdits, removedRefs, newBlobs, outcome>>

-----------------------------------------------------------------------------
(* Edit.                                                                   *)

RemoveAtom(i) ==
    /\ Editing
    /\ i \notin removedAtoms
    /\ removedAtoms' = removedAtoms \cup {i}
    /\ UNCHANGED <<input, work, refEdits, removedRefs, newBlobs, outcome>>

\* ref_mut, then RefEdit::set_annotation.
SetAnnotation(key, annotation) ==
    /\ Editing
    /\ key \notin removedRefs
    /\ refEdits' = [refEdits EXCEPT ![key].annotation = annotation]
    /\ UNCHANGED <<input, work, removedAtoms, removedRefs, newBlobs, outcome>>

RemoveRef(key) ==
    /\ Editing
    /\ key \notin removedRefs
    /\ removedRefs' = removedRefs \cup {key}
    /\ UNCHANGED <<input, work, removedAtoms, refEdits, newBlobs, outcome>>

\* The new name is looked up among the names the refs had in the input.
RenameRef(key, name) ==
    /\ Editing
    /\ key \notin removedRefs
    /\ <<key[1], name>> \notin DOMAIN refEdits
    /\ refEdits' = [refEdits EXCEPT ![key].newName = name]
    /\ UNCHANGED <<input, work, removedAtoms, removedRefs, newBlobs, outcome>>

AddBlob(blob) ==
    /\ Editing
    /\ newBlobs' = newBlobs \cup {blob}
    /\ UNCHANGED <<input, work, removedAtoms, refEdits, removedRefs, outcome>>

-----------------------------------------------------------------------------
(* finish, one input atom at a time.  `acc` carries id_map, the atoms      *)
(* rebuilt so far, the drops, and whether the builder refused one.         *)

K == Step(input)
DropOf(what) == [class |-> "Transform", step |-> {K}, what |-> what]

MarkIf(differs, status) == IF differs = {} THEN status ELSE Transformed(K, differs, status)

\* An operation still at a path of the input is compared with the input's
\* operation THERE, whichever operation it was; any other was moved.
FinalOp(inAtom, op) ==
    IF op.path \in Paths(inAtom.ops)
    THEN LET inOp == At(inAtom.ops, op.path) IN
         LET differs == OpDiffers(inOp, op) IN
         IF differs = {} THEN PlainOp(op)
         ELSE [PlainOp(op) EXCEPT !.status = Transformed(K, differs, inOp.status)]
    ELSE [PlainOp(op) EXCEPT !.status = Transformed(K, {"path"}, op.status)]

\* Seeded mistake: a moved operation does not make its atom's operations differ.
KeptOpsDiffer(inAtom, ops) ==
    \E op \in ops : /\ op.path \in Paths(inAtom.ops)
                    /\ OpDiffers(At(inAtom.ops, op.path), op) # {}

EditedOpsDiffer(inAtom, ops) ==
    \E op \in ops : \/ op.path \notin Paths(inAtom.ops)
                    \/ OpDiffers(At(inAtom.ops, op.path), op) # {}

EditedAtomDiffers(inAtom, edit, map) ==
    {part \in DOMAIN inAtom.meta : edit.meta[part] # inAtom.meta[part]}
      \cup (IF EditedOpsDiffer(inAtom, edit.ops) THEN {"ops"} ELSE {})
      \cup (IF edit.copies # inAtom.copies \/ edit.removedCopies # {} THEN {"copies"} ELSE {})
      \cup (IF ParentsDiffer(inAtom, map) THEN {"parents"} ELSE {})

FinishAtom(acc, i) ==
    LET inAtom == InAtoms[i]
        edit == work[i]
        new == [parents |-> MappedParents(inAtom.parents, acc.map, ToSet(InAtoms)),
                ops |-> {FinalOp(inAtom, op) : op \in edit.ops},
                copies |-> edit.copies,
                meta |-> edit.meta,
                source |-> inAtom.source,
                status |-> MarkIf(EditedAtomDiffers(inAtom, edit, acc.map), inAtom.status)]
        dropped == {<<"op", inAtom, path>> : path \in edit.removedOps}
                     \cup {<<"copy", inAtom, to>> : to \in edit.removedCopies}
    IN  IF i \in removedAtoms
        THEN [acc EXCEPT !.drops = @ \cup {DropOf(<<"atom", inAtom>>)}]
        ELSE [ok |-> acc.ok /\ MayAddAtom(acc.atoms, new),
              map |-> [a \in DOMAIN acc.map \cup {inAtom} |-> IF a = inAtom THEN new ELSE acc.map[a]],
              atoms |-> acc.atoms \cup {new},
              drops |-> acc.drops \cup {DropOf(what) : what \in dropped}]

FinishedAtoms ==
    LET made[n \in 0..Len(InAtoms)] ==
          IF n = 0 THEN [ok |-> TRUE, map |-> <<>>, atoms |-> {}, drops |-> {}]
          ELSE FinishAtom(made[n - 1], n)
    IN  made[Len(InAtoms)]

-----------------------------------------------------------------------------
(* finish: the refs, the chain, and the checks on its own result.          *)

LiveRefs == DOMAIN refEdits \ removedRefs

FinalName(key) == IF refEdits[key].newName = NoName THEN key[2] ELSE refEdits[key].newName

FinalRef(map, key) ==
    LET inRef == RefAt(input.ir, key)
        differs == (IF refEdits[key].newName # NoName THEN {"name"} ELSE {})
                     \cup (IF refEdits[key].annotation # inRef.annotation
                           THEN {"annotation"} ELSE {})
    IN  [kind |-> inRef.kind, name |-> FinalName(key), target |-> map[inRef.target],
         annotation |-> refEdits[key].annotation, status |-> MarkIf(differs, inRef.status)]

TargetsSurvive(map) == \A key \in LiveRefs : RefAt(input.ir, key).target \in DOMAIN map

RenamedApart ==
    \A k1, k2 \in LiveRefs :
        k1[1] = k2[1] /\ FinalName(k1) = FinalName(k2) => k1 = k2

Rebuilt(acc) ==
    [atoms   |-> CanonicalOrder(acc.atoms),
     refs    |-> {FinalRef(acc.map, key) : key \in LiveRefs},
     drops   |-> input.ir.drops \cup acc.drops
                   \cup {DropOf(<<"ref">> \o key) : key \in removedRefs},
     flags   |-> input.ir.flags,
     prov    |-> input.ir.prov,
     chain   |-> Append(input.ir.chain, [name |-> Name, consumed |-> input.digest]),
     content |-> (input.ir.content \cup newBlobs) \cap Referenced(acc.atoms)]

Refused(why) == [kind |-> "refused", why |-> why]

\* The steps of finish that can fail, in the order they run; "panic" is the
\* .expect of artifact::to_bytes on an operation whose blob no store holds.
Finished ==
    LET acc == FinishedAtoms IN
    LET out == Rebuilt(acc) IN
    IF ~acc.ok THEN Refused("copy of an unknown atom")
    ELSE IF ~TargetsSurvive(acc.map) THEN Refused("ref to a removed atom")
    ELSE IF ~RenamedApart THEN Refused("two refs of one name")
    ELSE IF out.content # Referenced(acc.atoms) THEN Refused("panic")
    ELSE IF ~Readable(out) THEN Refused("unreadable")
    ELSE IF ~Check(input, [ir |-> out, digest |-> Name], Name) THEN Refused("check")
    ELSE [kind |-> "done", ir |-> out]

Finish ==
    /\ outcome = Open
    /\ outcome' = Finished
    /\ UNCHANGED <<input, work, removedAtoms, refEdits, removedRefs, newBlobs, edits>>

-----------------------------------------------------------------------------
EditAtom(i) ==
    \/ \E part \in MetaParts, value \in MetaValues : SetMetadata(i, part, value)
    \/ \E op \in work[i].ops :
          \/ \E blob \in Blobs : SetOpBlob(i, op, blob)
          \/ \E mode \in Modes : SetOpMode(i, op, mode)
          \/ \E path \in PathNames : MoveOp(i, op, path)
          \/ RemoveOp(i, op)
    \/ \E copy \in work[i].copies : RemoveCopy(i, copy)
    \/ RemoveAtom(i)

EditRef(key) ==
    \/ \E annotation \in Annotations : SetAnnotation(key, annotation)
    \/ \E name \in RefNames : RenameRef(key, name)
    \/ RemoveRef(key)

Next ==
    \/ \E i \in Index : EditAtom(i)
    \/ \E key \in DOMAIN refEdits : EditRef(key)
    \/ \E blob \in Blobs : AddBlob(blob)
    \/ Finish

Spec == Init /\ [][Next]_vars

-----------------------------------------------------------------------------
(* Properties.                                                             *)

\* The working copy keeps its shape: an AtomEdit per input atom, an entry per
\* input ref; and a Delete still carries neither content nor mode, as every
\* other operation still carries both.
TypeOK ==
    /\ input \in Inputs
    /\ work \in [Index -> AtomEditType]
    /\ \A i \in Index : \A op \in work[i].ops :
          (op.kind = "Delete") <=> (op.blob = NoBlob /\ op.mode = NoMode)
    /\ removedAtoms \subseteq Index
    /\ refEdits \in [RefKeys(input.ir) -> RefEditType]
    /\ removedRefs \subseteq RefKeys(input.ir)
    /\ newBlobs \subseteq Blobs
    /\ edits \in 0..MaxEdits

\* However setters, moves and removals are interleaved, every operation of the
\* working copy is one of the input's, of the same kind and status, and no two
\* of them share a path or an origin ("there is no way to add an atom, or an op
\* the input atom did not already have", edit.rs).
OpLineage ==
    \A i \in Index :
        /\ \A op \in work[i].ops : \E inOp \in InAtoms[i].ops :
              inOp.path = op.origin /\ inOp.kind = op.kind /\ inOp.status = op.status
        /\ \A o1, o2 \in work[i].ops :
              o1.path = o2.path \/ o1.origin = o2.origin => o1 = o2

Done == outcome.kind = "done"

\* What finish returns keeps every promise of a step, however the session got
\* there (finish, and check on its own result).
DoneIsHonest ==
    Done => /\ UnmarkedIsUnchanged(input.ir, outcome.ir)
            /\ EveryLossIsNamed(input.ir, outcome.ir)
            /\ EveryRecordHasAnOrigin(input.ir, outcome.ir)
            /\ HistoryKept(input.ir, outcome.ir)

\* Removing atoms re-parents their children so that ancestry among the atoms
\* that stay is what it was (remove_atom, mapped_parents).
DoneKeepsAncestry == Done => AncestryKept(input.ir, outcome.ir)

\* The session changed the atom itself, or its list of parents.
Touched(i) ==
    \/ i \in removedAtoms
    \/ work[i].meta # InAtoms[i].meta
    \/ {PlainOp(op) : op \in work[i].ops} # InAtoms[i].ops
    \/ work[i].copies # InAtoms[i].copies
    \/ \E j \in removedAtoms : InAtoms[j] \in ToSet(InAtoms[i].parents)

\* finish writes the atom anew: also when it lists a parent twice.
Rewritten(i) == Touched(i) \/ ~IsInjective(InAtoms[i].parents)

\* Neither the atom nor anything it descends from is written anew.
Unaltered(i) ==
    \A j \in Index : Rewritten(j) =>
        j # i /\ InAtoms[j].source \notin AncestorSources(ToSet(InAtoms))[InAtoms[i]]

\* Every atom that is not removed is in the output. One whose own claims,
\* operations, copies and parents the session left alone carries the input's
\* status, however much changed upstream of it; and an atom has its old id
\* exactly when neither it nor anything upstream changed (finish).
MarksStayLocal ==
    Done => \A i \in Index \ removedAtoms :
        \E b \in ToSet(outcome.ir.atoms) :
            /\ b.source = InAtoms[i].source
            /\ ~Touched(i) => b.status = InAtoms[i].status
            /\ (b = InAtoms[i]) <=> Unaltered(i)

OpsAddUp(i) ==
    LET ops  == work[i].ops
        was  == InAtoms[i].ops
        gone == (Paths(was) \ Paths(ops)) \ work[i].removedOps
    IN  /\ Cardinality({op \in ops : op.path \notin Paths(was)}) = Cardinality(gone)
        /\ \A op \in ops, inOp \in was : op.path = inOp.path =>
              /\ op.kind = inOp.kind
              /\ op.blob = inOp.blob /\ op.mode = inOp.mode => op.status = inOp.status

Remarked(i) ==
    /\ InAtoms[i].status.layers # <<>> =>
          EditedAtomDiffers(InAtoms[i], work[i],
              [a \in {InAtoms[j] : j \in Index \ removedAtoms} |-> a]) # {}
    /\ \A op \in work[i].ops, inOp \in InAtoms[i].ops :
          op.path = inOp.path /\ inOp.status.layers # <<>> =>
              op.blob # inOp.blob \/ op.mode # inOp.mode

CanFinish ==
    /\ \A key \in LiveRefs :
          LET inRef == RefAt(input.ir, key) IN
          /\ \A i \in removedAtoms : inRef.target # InAtoms[i]
          /\ refEdits[key].newName # NoName =>
                \A other \in LiveRefs \ {key} :
                    other[1] = key[1] => FinalName(other) # refEdits[key].newName
          /\ inRef.status.layers # <<>> /\ refEdits[key].newName = NoName =>
                refEdits[key].annotation # inRef.annotation
    /\ \A i \in Index \ removedAtoms :
          /\ \A copy \in work[i].copies, j \in Index : InAtoms[j] = copy.fromAtom => Unaltered(j)
          /\ \A op \in work[i].ops : op.blob \in input.ir.content \cup newBlobs \cup {NoBlob}
          /\ OpsAddUp(i)
          /\ Remarked(i)

\* Which sessions finish succeeds on, exactly, from the edits alone.  The refusals are: a ref left on a removed
\* atom; two refs under one name; content no store holds; a copy whose source
\* atom got a new id; operations removed under a path they were moved to, or
\* moved over a removed one of another kind or status; and anything an earlier
\* transform marked that this session leaves as it was.
FinishExact == outcome # Open => (Done <=> CanFinish)

-----------------------------------------------------------------------------
(* What the documentation says of every session, and the code does not do. *)

RefsUntouched ==
    /\ removedRefs = {}
    /\ \A key \in DOMAIN refEdits :
          refEdits[key] = [annotation |-> RefAt(input.ir, key).annotation, newName |-> NoName]

OnlyMetadataEdited ==
    /\ removedAtoms = {} /\ RefsUntouched
    /\ \A i \in Index : [work[i] EXCEPT !.meta = InAtoms[i].meta] = AtomEdit(InAtoms[i])

\* Setting claims never makes finish fail: "every edit above only ever produces
\* a difference `check` already accepts" (edit.rs, the comment of finish).
MetadataEditsFinish == outcome # Open /\ OnlyMetadataEdited => Done

\* "An honest no-op step is accepted" (writing-a-transform.md), also of an
\* artifact that an earlier transform wrote.
NoOpFinishes ==
    outcome # Open /\ OnlyMetadataEdited /\ (\A i \in Index : work[i].meta = InAtoms[i].meta)
        => Done

\* An `op` drop names "a removed op, by its atom's input id and the op's own
\* path" (writing-a-transform.md): that operation is not in the output.
DropsNameWhatWasRemoved ==
    Done => \A i \in Index \ removedAtoms : \A op \in work[i].ops :
        <<"op", InAtoms[i], op.origin>> \notin StepDrops(input.ir, outcome.ir)
=============================================================================
