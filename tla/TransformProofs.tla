-------------------------- MODULE TransformProofs --------------------------
(***************************************************************************)
(* A transform, written with the editing library or without.  For every    *)
(* set of inputs and every number of edits: the working copy of an Edit    *)
(* session keeps its type, and its operations are at every moment          *)
(* operations of the input, under paths of their own; what finish returns  *)
(* keeps the promises of HonestStep, and its marks stay where it edited.   *)
(* And for every input artifact and every plugin: what it writes stays an  *)
(* artifact, and what is accepted of it keeps the promises of HonestStep.  *)
(***************************************************************************)
EXTENDS TransformEdit, TransformHonesty, TransformCheckProofs

Inv == TypeOK /\ OpLineage

-----------------------------------------------------------------------------
(* An input atom's working copy has the type, and the lineage.             *)

LEMMA AtomEditTyped ==
    ASSUME NEW in \in Inputs, NEW i \in DOMAIN in.ir.atoms
    PROVE  /\ AtomEdit(in.ir.atoms[i]) \in AtomEditType
           /\ \A op \in AtomEdit(in.ir.atoms[i]).ops :
                 (op.kind = "Delete") <=> (op.blob = NoBlob /\ op.mode = NoMode)
PROOF
<1> DEFINE a == in.ir.atoms[i]
<1>1. a \in AllAtoms
  BY DEF AllAtoms, ToSet
<1>2. \A op \in a.ops : /\ WorkingOp(op) \in WorkingOpType
                        /\ (op.kind = "Delete") <=> (op.blob = NoBlob /\ op.mode = NoMode)
  BY <1>1, InputAssumptions DEF WorkingOp, WorkingOpType, AllOps
<1>3. a.meta \in [MetaParts -> AllClaims]
  BY InputAssumptions
<1>4. a.copies \in SUBSET UNION {b.copies : b \in AllAtoms}
  BY <1>1
<1>5. {WorkingOp(op) : op \in a.ops} \in SUBSET WorkingOpType
  BY <1>2
<1>6. AtomEdit(a) \in AtomEditType
  BY <1>3, <1>4, <1>5 DEF AtomEdit, AtomEditType
<1>7. \A op \in AtomEdit(a).ops : (op.kind = "Delete") <=> (op.blob = NoBlob /\ op.mode = NoMode)
  BY <1>2 DEF AtomEdit, WorkingOp
<1> QED
  BY <1>6, <1>7

LEMMA InitTyped == Init => TypeOK
PROOF
<1> SUFFICES ASSUME Init PROVE TypeOK
  OBVIOUS
<1> USE DEF Init
<1>1. work \in [Index -> AtomEditType]
  BY AtomEditTyped DEF Index, InAtoms
<1>2. \A i \in Index : \A op \in work[i].ops :
         (op.kind = "Delete") <=> (op.blob = NoBlob /\ op.mode = NoMode)
  BY AtomEditTyped DEF Index, InAtoms
<1>3. refEdits \in [RefKeys(input.ir) -> RefEditType]
  <2>1. \A key \in RefKeys(input.ir) : RefAt(input.ir, key) \in AllRefs
    BY DEF RefKeys, RefAt, AllRefs
  <2> QED
    BY <2>1 DEF RefEditType
<1>4. edits \in 0..MaxEdits
  BY EditAssumptions
<1> QED
  BY <1>1, <1>2, <1>3, <1>4 DEF TypeOK

LEMMA InitLineage == Init => OpLineage
PROOF
<1> SUFFICES ASSUME Init, NEW i \in Index
             PROVE  /\ \A op \in work[i].ops : \E inOp \in InAtoms[i].ops :
                          inOp.path = op.origin /\ inOp.kind = op.kind /\ inOp.status = op.status
                    /\ \A o1, o2 \in work[i].ops :
                          o1.path = o2.path \/ o1.origin = o2.origin => o1 = o2
  BY DEF OpLineage
<1>1. work[i].ops = {WorkingOp(op) : op \in InAtoms[i].ops}
  BY DEF Init, AtomEdit
<1>2. \A o1, o2 \in InAtoms[i].ops : o1.path = o2.path => o1 = o2
  <2>1. InAtoms[i] \in ToSet(input.ir.atoms)
    BY DEF Index, InAtoms, ToSet
  <2>2. Decoded(input.ir)
    BY InputAssumptions DEF Init, Readable
  <2> QED
    BY <2>1, <2>2 DEF Decoded
<1> QED
  BY <1>1, <1>2 DEF WorkingOp

-----------------------------------------------------------------------------
(* One operation replaced by another, or taken away, in one atom: what the *)
(* op setters, MoveOp and RemoveOp have in common.                         *)

LEMMA ReplaceOpKeepsInv ==
    ASSUME Inv, UNCHANGED input, NEW i \in Index, NEW op \in work[i].ops,
           NEW new \in WorkingOpType,
           new.kind = op.kind, new.status = op.status, new.origin = op.origin,
           new.path = op.path \/ new.path \notin Paths(work[i].ops),
           (new.kind = "Delete") <=> (new.blob = NoBlob /\ new.mode = NoMode),
           work' = [work EXCEPT ![i].ops = (@ \ {op}) \cup {new}]
    PROVE  /\ work' \in [Index -> AtomEditType]
           /\ \A j \in Index : \A o \in work'[j].ops :
                 (o.kind = "Delete") <=> (o.blob = NoBlob /\ o.mode = NoMode)
           /\ OpLineage'
PROOF
<1> DEFINE ops == (work[i].ops \ {op}) \cup {new}
<1>1. work[i] \in AtomEditType
  BY DEF Inv, TypeOK
<1>2. [work[i] EXCEPT !.ops = ops] \in AtomEditType
  BY <1>1 DEF AtomEditType
<1>3. work' = [work EXCEPT ![i] = [work[i] EXCEPT !.ops = ops]]
  BY DEF Inv, TypeOK
<1>4. work' \in [Index -> AtomEditType]
  BY <1>2, <1>3 DEF Inv, TypeOK
<1>5. work'[i].ops = ops
  BY <1>1, <1>3 DEF Inv, TypeOK, AtomEditType
<1>6. \A j \in Index \ {i} : work'[j] = work[j]
  BY <1>3 DEF Inv, TypeOK
<1>7. \A j \in Index : \A o \in work'[j].ops :
         (o.kind = "Delete") <=> (o.blob = NoBlob /\ o.mode = NoMode)
  BY <1>5, <1>6 DEF Inv, TypeOK
<1>8. Index' = Index /\ InAtoms' = InAtoms
  BY DEF Index, InAtoms
<1>9. \A o \in ops : \E inOp \in InAtoms[i].ops :
         inOp.path = o.origin /\ inOp.kind = o.kind /\ inOp.status = o.status
  BY DEF Inv, OpLineage
<1>10. \A o1, o2 \in ops : o1.path = o2.path \/ o1.origin = o2.origin => o1 = o2
  <2>1. \A o \in work[i].ops \ {op} : o.path # new.path /\ o.origin # new.origin
    BY DEF Inv, OpLineage, Paths
  <2> QED
    BY <2>1 DEF Inv, OpLineage
<1>11. OpLineage'
  BY <1>5, <1>6, <1>8, <1>9, <1>10 DEF Inv, OpLineage
<1> QED
  BY <1>4, <1>7, <1>11

\* An edit of anything but operations: every atom keeps a subset of its own.
LEMMA FewerOpsKeepLineage ==
    ASSUME Inv, UNCHANGED input,
           \A i \in Index : work'[i].ops \subseteq work[i].ops
    PROVE  /\ OpLineage'
           /\ \A j \in Index : \A o \in work'[j].ops :
                 (o.kind = "Delete") <=> (o.blob = NoBlob /\ o.mode = NoMode)
PROOF
<1>1. Index' = Index /\ InAtoms' = InAtoms
  BY DEF Index, InAtoms
<1> QED
  BY <1>1 DEF Inv, TypeOK, OpLineage

-----------------------------------------------------------------------------
(* Every step keeps the invariant, one action at a time.                   *)

LEMMA SetMetadataKeepsInv ==
    ASSUME Inv, NEW i \in Index, NEW part \in MetaParts, NEW value \in MetaValues,
           SetMetadata(i, part, value)
    PROVE  Inv'
PROOF
<1> USE DEF SetMetadata, Editing
<1>1. work[i] \in AtomEditType
  BY DEF Inv, TypeOK
<1>2. value \in AllClaims
  BY DEF AllClaims
<1>3. [work[i] EXCEPT !.meta[part] = value] \in AtomEditType
  BY <1>1, <1>2 DEF AtomEditType
<1>4. work' = [work EXCEPT ![i] = [work[i] EXCEPT !.meta[part] = value]]
  BY DEF Inv, TypeOK
<1>5. work' \in [Index -> AtomEditType]
  BY <1>3, <1>4 DEF Inv, TypeOK
<1>6. \A j \in Index : work'[j].ops \subseteq work[j].ops
  BY <1>1, <1>4 DEF Inv, TypeOK, AtomEditType
<1>7. /\ OpLineage'
      /\ \A j \in Index : \A o \in work'[j].ops :
            (o.kind = "Delete") <=> (o.blob = NoBlob /\ o.mode = NoMode)
  BY <1>6, FewerOpsKeepLineage
<1>8. TypeOK'
  BY <1>5, <1>7, EditAssumptions DEF Inv, TypeOK, Index, InAtoms
<1> QED
  BY <1>7, <1>8 DEF Inv

LEMMA SetOpBlobKeepsInv ==
    ASSUME Inv, NEW i \in Index, NEW op \in work[i].ops, NEW blob \in Blobs,
           SetOpBlob(i, op, blob)
    PROVE  Inv'
PROOF
<1> USE DEF SetOpBlob, Editing
<1>1. op \in WorkingOpType
  BY DEF Inv, TypeOK, AtomEditType
<1> DEFINE new == [op EXCEPT !.blob = blob]
<1>2. /\ new \in WorkingOpType
      /\ new.kind = op.kind /\ new.status = op.status
      /\ new.origin = op.origin /\ new.path = op.path
      /\ (new.kind = "Delete") <=> (new.blob = NoBlob /\ new.mode = NoMode)
  BY <1>1, EditAssumptions DEF WorkingOpType
<1> HIDE DEF new
<1>3. /\ work' \in [Index -> AtomEditType] /\ OpLineage'
      /\ \A j \in Index : \A o \in work'[j].ops :
            (o.kind = "Delete") <=> (o.blob = NoBlob /\ o.mode = NoMode)
  BY <1>2, ReplaceOpKeepsInv DEF new
<1>4. TypeOK'
  BY <1>3, EditAssumptions DEF Inv, TypeOK, Index, InAtoms
<1> QED
  BY <1>3, <1>4 DEF Inv

LEMMA SetOpModeKeepsInv ==
    ASSUME Inv, NEW i \in Index, NEW op \in work[i].ops, NEW mode \in Modes,
           SetOpMode(i, op, mode)
    PROVE  Inv'
PROOF
<1> USE DEF SetOpMode, Editing
<1>1. op \in WorkingOpType
  BY DEF Inv, TypeOK, AtomEditType
<1> DEFINE new == [op EXCEPT !.mode = mode]
<1>2. /\ new \in WorkingOpType
      /\ new.kind = op.kind /\ new.status = op.status
      /\ new.origin = op.origin /\ new.path = op.path
      /\ (new.kind = "Delete") <=> (new.blob = NoBlob /\ new.mode = NoMode)
  BY <1>1, EditAssumptions DEF WorkingOpType
<1> HIDE DEF new
<1>3. /\ work' \in [Index -> AtomEditType] /\ OpLineage'
      /\ \A j \in Index : \A o \in work'[j].ops :
            (o.kind = "Delete") <=> (o.blob = NoBlob /\ o.mode = NoMode)
  BY <1>2, ReplaceOpKeepsInv DEF new
<1>4. TypeOK'
  BY <1>3, EditAssumptions DEF Inv, TypeOK, Index, InAtoms
<1> QED
  BY <1>3, <1>4 DEF Inv

LEMMA MoveOpKeepsInv ==
    ASSUME Inv, NEW i \in Index, NEW op \in work[i].ops, NEW path \in PathNames,
           MoveOp(i, op, path)
    PROVE  Inv'
PROOF
<1> USE DEF MoveOp, Editing
<1>1. op \in WorkingOpType
  BY DEF Inv, TypeOK, AtomEditType
<1> DEFINE new == [op EXCEPT !.path = path]
<1>2. /\ new \in WorkingOpType
      /\ new.kind = op.kind /\ new.status = op.status
      /\ new.origin = op.origin /\ new.path = path
      /\ new.blob = op.blob /\ new.mode = op.mode
  BY <1>1 DEF WorkingOpType
<1>3. (new.kind = "Delete") <=> (new.blob = NoBlob /\ new.mode = NoMode)
  BY <1>2 DEF Inv, TypeOK
<1>4. /\ work' = [work EXCEPT ![i].ops = (@ \ {op}) \cup {new}]
      /\ new.path \notin Paths(work[i].ops)
      /\ UNCHANGED input
  BY <1>2
<1> HIDE DEF new, MoveOp
<1>5. /\ work' \in [Index -> AtomEditType] /\ OpLineage'
      /\ \A j \in Index : \A o \in work'[j].ops :
            (o.kind = "Delete") <=> (o.blob = NoBlob /\ o.mode = NoMode)
  BY <1>2, <1>3, <1>4, ReplaceOpKeepsInv
<1>6. TypeOK'
  BY <1>5, EditAssumptions DEF MoveOp, Inv, TypeOK, Index, InAtoms
<1> QED
  BY <1>5, <1>6 DEF Inv

LEMMA RemoveOpKeepsInv ==
    ASSUME Inv, NEW i \in Index, NEW op \in work[i].ops, RemoveOp(i, op)
    PROVE  Inv'
PROOF
<1> USE DEF RemoveOp, Editing
<1> DEFINE edit == [work[i] EXCEPT !.ops = work[i].ops \ {op},
                                   !.removedOps = work[i].removedOps \cup {op.path}]
<1>1. work[i] \in AtomEditType /\ op \in WorkingOpType
  BY DEF Inv, TypeOK, AtomEditType
<1>2. edit \in AtomEditType
  BY <1>1 DEF AtomEditType, WorkingOpType
<1>3. work' = [work EXCEPT ![i] = edit]
  BY <1>1 DEF Inv, TypeOK, AtomEditType
<1>4. edit.ops = work[i].ops \ {op}
  BY <1>1 DEF AtomEditType
<1> HIDE DEF edit
<1>5. work' \in [Index -> AtomEditType]
  BY <1>2, <1>3 DEF Inv, TypeOK
<1>6. \A j \in Index : work'[j].ops \subseteq work[j].ops
  BY <1>3, <1>4 DEF Inv, TypeOK
<1>7. /\ OpLineage'
      /\ \A j \in Index : \A o \in work'[j].ops :
            (o.kind = "Delete") <=> (o.blob = NoBlob /\ o.mode = NoMode)
  BY <1>6, FewerOpsKeepLineage
<1>8. TypeOK'
  BY <1>5, <1>7, EditAssumptions DEF Inv, TypeOK, Index, InAtoms
<1> QED
  BY <1>7, <1>8 DEF Inv

LEMMA RemoveCopyKeepsInv ==
    ASSUME Inv, NEW i \in Index, NEW copy \in work[i].copies, RemoveCopy(i, copy)
    PROVE  Inv'
PROOF
<1> USE DEF RemoveCopy, Editing
<1> DEFINE edit == [work[i] EXCEPT !.copies = work[i].copies \ {copy},
                                   !.removedCopies = work[i].removedCopies \cup {copy.to}]
<1>1. work[i] \in AtomEditType
  BY DEF Inv, TypeOK
<1>2. edit \in AtomEditType
  BY <1>1 DEF AtomEditType
<1>3. work' = [work EXCEPT ![i] = edit]
  BY <1>1 DEF Inv, TypeOK, AtomEditType
<1>4. edit.ops = work[i].ops
  BY <1>1 DEF AtomEditType
<1> HIDE DEF edit
<1>5. work' \in [Index -> AtomEditType]
  BY <1>2, <1>3 DEF Inv, TypeOK
<1>6. \A j \in Index : work'[j].ops \subseteq work[j].ops
  BY <1>3, <1>4 DEF Inv, TypeOK
<1>7. /\ OpLineage'
      /\ \A j \in Index : \A o \in work'[j].ops :
            (o.kind = "Delete") <=> (o.blob = NoBlob /\ o.mode = NoMode)
  BY <1>6, FewerOpsKeepLineage
<1>8. TypeOK'
  BY <1>5, <1>7, EditAssumptions DEF Inv, TypeOK, Index, InAtoms
<1> QED
  BY <1>7, <1>8 DEF Inv

\* A step that leaves the atoms' working copies alone.
LEMMA SameWorkKeepsLineage ==
    ASSUME Inv, UNCHANGED <<input, work>>
    PROVE  OpLineage'
PROOF
  BY DEF Inv, OpLineage, Index, InAtoms

LEMMA RefEditKeepsInv ==
    ASSUME Inv, NEW key \in DOMAIN refEdits, EditRef(key)
    PROVE  Inv'
PROOF
<1>1. key \in RefKeys(input.ir) /\ refEdits[key] \in RefEditType
  BY DEF Inv, TypeOK
<1>2. CASE \E annotation \in Annotations : SetAnnotation(key, annotation)
  <2> PICK annotation \in Annotations : SetAnnotation(key, annotation)
    BY <1>2
  <2>1. refEdits' \in [RefKeys(input.ir) -> RefEditType]
    BY <1>1 DEF SetAnnotation, RefEditType, Inv, TypeOK
  <2> QED
    BY <2>1, SameWorkKeepsLineage, EditAssumptions
       DEF SetAnnotation, Editing, Inv, TypeOK, Index, InAtoms
<1>3. CASE \E name \in RefNames : RenameRef(key, name)
  <2> PICK name \in RefNames : RenameRef(key, name)
    BY <1>3
  <2>1. refEdits' \in [RefKeys(input.ir) -> RefEditType]
    BY <1>1 DEF RenameRef, RefEditType, Inv, TypeOK
  <2> QED
    BY <2>1, SameWorkKeepsLineage, EditAssumptions
       DEF RenameRef, Editing, Inv, TypeOK, Index, InAtoms
<1>4. CASE RemoveRef(key)
  BY <1>1, <1>4, SameWorkKeepsLineage, EditAssumptions
     DEF RemoveRef, Editing, Inv, TypeOK, Index, InAtoms
<1> QED
  BY <1>2, <1>3, <1>4 DEF EditRef

LEMMA AtomEditKeepsInv ==
    ASSUME Inv, NEW i \in Index, EditAtom(i)
    PROVE  Inv'
PROOF
<1>1. CASE \E part \in MetaParts, value \in MetaValues : SetMetadata(i, part, value)
  BY <1>1, SetMetadataKeepsInv
<1>2. CASE \E op \in work[i].ops : \E blob \in Blobs : SetOpBlob(i, op, blob)
  BY <1>2, SetOpBlobKeepsInv
<1>3. CASE \E op \in work[i].ops : \E mode \in Modes : SetOpMode(i, op, mode)
  BY <1>3, SetOpModeKeepsInv
<1>4. CASE \E op \in work[i].ops : \E path \in PathNames : MoveOp(i, op, path)
  BY <1>4, MoveOpKeepsInv
<1>5. CASE \E op \in work[i].ops : RemoveOp(i, op)
  BY <1>5, RemoveOpKeepsInv
<1>6. CASE \E copy \in work[i].copies : RemoveCopy(i, copy)
  BY <1>6, RemoveCopyKeepsInv
<1>7. CASE RemoveAtom(i)
  BY <1>7, SameWorkKeepsLineage, EditAssumptions
     DEF RemoveAtom, Editing, Inv, TypeOK, Index, InAtoms
<1> QED
  BY <1>1, <1>2, <1>3, <1>4, <1>5, <1>6, <1>7 DEF EditAtom

LEMMA StepKeepsInv == Inv /\ [Next]_vars => Inv'
PROOF
<1> SUFFICES ASSUME Inv, [Next]_vars PROVE Inv'
  OBVIOUS
<1>1. CASE \E i \in Index : EditAtom(i)
  BY <1>1, AtomEditKeepsInv
<1>2. CASE \E key \in DOMAIN refEdits : EditRef(key)
  BY <1>2, RefEditKeepsInv
<1>3. CASE \E blob \in Blobs : AddBlob(blob)
  BY <1>3, SameWorkKeepsLineage, EditAssumptions
     DEF AddBlob, Editing, Inv, TypeOK, Index, InAtoms
<1>4. CASE Finish
  BY <1>4, SameWorkKeepsLineage DEF Finish, Inv, TypeOK, Index, InAtoms
<1>5. CASE UNCHANGED vars
  BY <1>5, SameWorkKeepsLineage DEF vars, Inv, TypeOK, Index, InAtoms
<1> QED
  BY <1>1, <1>2, <1>3, <1>4, <1>5 DEF Next

-----------------------------------------------------------------------------
LEMMA InvHolds == Spec => []Inv
PROOF
<1>1. Init => Inv
  BY InitTyped, InitLineage DEF Inv
<1> QED
  BY <1>1, StepKeepsInv, PTL DEF Spec

\* The working copy of a session keeps its type, whatever is edited.
THEOREM WorkingCopyTyped == Spec => []TypeOK
PROOF
<1>1. Inv => TypeOK
  BY DEF Inv
<1> QED
  BY <1>1, InvHolds, PTL

\* No session, however long, invents an operation, changes the kind or the
\* status of one, or has two of them at one path or from one origin.
THEOREM OperationsKeepLineage == Spec => []OpLineage
PROOF
<1>1. Inv => OpLineage
  BY DEF Inv
<1> QED
  BY <1>1, InvHolds, PTL

-----------------------------------------------------------------------------
(* What finish returned was checked against the input of the session, and  *)
(* neither changes after.                                                  *)

Vetted ==
    Done => /\ Readable(outcome.ir)
            /\ Check(input, [ir |-> outcome.ir, digest |-> Name], Name)

Checked == input \in Inputs /\ Vetted

LEMMA FinishedIsVetted ==
    ASSUME Finished.kind = "done"
    PROVE  /\ Readable(Finished.ir) /\ Finished.ir = Rebuilt(FinishedAtoms)
           /\ Check(input, [ir |-> Finished.ir, digest |-> Name], Name)
PROOF
<1> DEFINE acc == FinishedAtoms
           out == Rebuilt(acc)
           fine == Check(input, [ir |-> out, digest |-> Name], Name)
           readable == Readable(out)
<1>1. \A why : Refused(why).kind = "refused"
  BY DEF Refused
<1>2. \/ \E why : Finished = Refused(why)
      \/ Finished = [kind |-> "done", ir |-> out] /\ readable /\ fine
  <2>1. Finished =
          IF ~acc.ok THEN Refused("copy of an unknown atom")
          ELSE IF ~TargetsSurvive(acc.map) THEN Refused("ref to a removed atom")
          ELSE IF ~RenamedApart THEN Refused("two refs of one name")
          ELSE IF out.content # Referenced(acc.atoms) THEN Refused("panic")
          ELSE IF ~readable THEN Refused("unreadable")
          ELSE IF ~fine THEN Refused("check")
          ELSE [kind |-> "done", ir |-> out]
    BY DEF Finished
  <2> HIDE DEF acc, out, fine, readable
  <2> QED
    BY <2>1
<1> HIDE DEF out
<1>3. Finished = [kind |-> "done", ir |-> out] /\ readable /\ fine
  <2> HIDE DEF readable, fine
  <2> QED
    BY <1>1, <1>2
<1>4. Finished.ir = out
  BY <1>3
<1> QED
  BY <1>3, <1>4 DEF out

LEMMA CheckedHolds == Spec => []Checked
PROOF
<1>1. Init => Checked
  BY DEF Init, Checked, Vetted, Done, Open
<1>2. Checked /\ [Next]_vars => Checked'
  <2> SUFFICES ASSUME Checked, [Next]_vars PROVE Checked'
    OBVIOUS
  <2>1. CASE Finish
    <3> DEFINE new == Finished
    <3>1. outcome' = new /\ input' = input
      BY <2>1 DEF Finish
    <3>2. new.kind = "done" => /\ Readable(new.ir)
                               /\ Check(input, [ir |-> new.ir, digest |-> Name], Name)
      BY FinishedIsVetted
    <3> HIDE DEF new
    <3> QED
      BY <3>1, <3>2 DEF Checked, Vetted, Done
  <2>2. CASE ~Finish
    <3>1. input' = input /\ outcome' = outcome
      BY <2>2 DEF Next, vars, EditAtom, EditRef, SetMetadata, SetOpBlob, SetOpMode, MoveOp,
                  RemoveOp, RemoveCopy, RemoveAtom, SetAnnotation, RenameRef, RemoveRef, AddBlob
    <3> QED
      BY <3>1 DEF Checked, Vetted, Done
  <2> QED
    BY <2>1, <2>2
<1> QED
  BY <1>1, <1>2, PTL DEF Spec

LEMMA DoneKeepsPromises ==
    ASSUME Checked, Done
    PROVE  /\ UnmarkedIsUnchanged(input.ir, outcome.ir)
           /\ EveryLossIsNamed(input.ir, outcome.ir)
           /\ EveryRecordHasAnOrigin(input.ir, outcome.ir)
           /\ HistoryKept(input.ir, outcome.ir)
           /\ AncestryKept(input.ir, outcome.ir)
PROOF
<1> DEFINE in == input
           out == [ir |-> outcome.ir, digest |-> Name]
<1>1. Readable(in.ir) /\ Readable(out.ir) /\ Check(in, out, Name) /\ out.ir = outcome.ir
  BY InputAssumptions DEF Checked, Vetted
<1> HIDE DEF in, out
<1>2. /\ UnmarkedIsUnchanged(in.ir, out.ir) /\ EveryLossIsNamed(in.ir, out.ir)
      /\ EveryRecordHasAnOrigin(in.ir, out.ir) /\ HistoryKept(in.ir, out.ir)
      /\ AncestryKept(in.ir, out.ir)
  BY <1>1, CheckIsSound
<1> QED
  BY <1>1, <1>2 DEF in

\* Whatever edits were made, in whatever order and number: what finish returns
\* marks every change, records every removal, invents nothing and leaves the
\* earlier record alone.
THEOREM FinishIsHonest == Spec => []DoneIsHonest
PROOF
<1>1. Checked => DoneIsHonest
  BY DoneKeepsPromises DEF DoneIsHonest
<1> QED
  BY <1>1, CheckedHolds, PTL

\* Whatever atoms a session removed, those that stay have the ancestors they
\* had among them.
THEOREM FinishKeepsAncestry == Spec => []DoneKeepsAncestry
PROOF
<1>1. Checked => DoneKeepsAncestry
  BY DoneKeepsPromises DEF DoneKeepsAncestry
<1> QED
  BY <1>1, CheckedHolds, PTL
-----------------------------------------------------------------------------
(* CanonicalOrder lists each atom of a set once, when parents can be       *)
(* ranked: some atom is always ready.                                      *)
LEMMA KahnLists ==
    ASSUME NEW S, IsFiniteSet(S), \A a \in S : a.source \in Nat, NEW rank \in [S -> Nat],
           \A a \in S : \A p \in ToSet(a.parents) \cap S : rank[p] < rank[a]
    PROVE  ToSet(CanonicalOrder(S)) = S
PROOF
<1> DEFINE N == Cardinality(S)
           Ready(out) == {a \in S \ ToSet(out) : (ToSet(a.parents) \cap S) \subseteq ToSet(out)}
           Extend(out) == Append(out, CHOOSE a \in Ready(out) : \A b \in Ready(out) : a.source <= b.source)
           Eq(f, k) == f = [n \in 0..k |-> IF n = 0 THEN <<>> ELSE Extend(f[n - 1])]
<1>1. N \in Nat
  BY FS_CardinalityType
<1>2. ASSUME NEW out \in Seq(S), IsInjective(out), Cardinality(ToSet(out)) < N
      PROVE  /\ Extend(out) \in Seq(S) /\ IsInjective(Extend(out))
             /\ Cardinality(ToSet(Extend(out))) = Cardinality(ToSet(out)) + 1
  <2> DEFINE left == S \ ToSet(out)
             next == CHOOSE a \in Ready(out) : \A b \in Ready(out) : a.source <= b.source
  <2>1. ToSet(out) \subseteq S /\ IsFiniteSet(ToSet(out))
    <3>1. ToSet(out) \subseteq S
      BY DEF ToSet
    <3> QED
      BY <3>1, FS_Subset
  <2>2. left # {}
    <3>1. ToSet(out) # S
      BY <1>1, <1>2
    <3> QED
      BY <2>1, <3>1
  <2>3. PICK a \in left : \A b \in left : rank[a] <= rank[b]
    <3> DEFINE T == {rank[b] : b \in left}
    <3>1. T \subseteq Nat /\ T # {}
      BY <2>2
    <3>2. PICK m \in T : \A n \in T : m <= n
      <4> HIDE DEF T
      <4> QED
        BY <3>1, LeastNumber
    <3> QED
      BY <3>2
  <2>4. a \in Ready(out)
    <3>1. ASSUME NEW p \in ToSet(a.parents) \cap S PROVE p \in ToSet(out)
      <4>1. rank[p] < rank[a] /\ rank[p] \in Nat /\ rank[a] \in Nat
        BY <2>3
      <4>2. ~ (rank[a] <= rank[p])
        BY <4>1
      <4> QED
        BY <2>3, <4>2
    <3> QED
      BY <2>3, <3>1
  <2>5. PICK c \in Ready(out) : \A b \in Ready(out) : c.source <= b.source
    <3> DEFINE T == {b.source : b \in Ready(out)}
    <3>1. T \subseteq Nat /\ T # {}
      BY <2>4
    <3>2. PICK m \in T : \A n \in T : m <= n
      <4> HIDE DEF T
      <4> QED
        BY <3>1, LeastNumber
    <3> QED
      BY <3>2
  <2>6. next \in Ready(out)
    <3> HIDE DEF Ready
    <3> QED
      BY <2>5
  <2>7. next \in S /\ next \notin ToSet(out)
    BY <2>6
  <2>8. Extend(out) = Append(out, next)
    OBVIOUS
  <2> HIDE DEF next, Extend, Ready
  <2>9. Extend(out) \in Seq(S) /\ IsInjective(Extend(out)) /\ ToSet(Extend(out)) = ToSet(out) \cup {next}
    BY <1>2, <2>7, <2>8, AppendHolds
  <2>10. Cardinality(ToSet(out) \cup {next}) = Cardinality(ToSet(out)) + 1
    BY <2>1, <2>7, FS_AddElement
  <2> QED
    BY <2>9, <2>10
<1> HIDE DEF Extend
<1>3. ASSUME NEW k \in Nat PROVE \E f : Eq(f, k)
  <2> DEFINE U == {j \in Nat : \E f : Eq(f, j)}
  <2>1. 0 \in U
    <3>1. Eq([n \in 0..0 |-> <<>>], 0)
      OBVIOUS
    <3> QED
      BY <3>1
  <2>2. ASSUME NEW j \in Nat, j \in U PROVE j + 1 \in U
    <3>1. PICK f : Eq(f, j)
      BY <2>2
    <3> DEFINE g == [n \in 0..(j + 1) |-> IF n = j + 1 THEN Extend(f[j]) ELSE f[n]]
    <3>2. \A n \in 0..j : f[n] = IF n = 0 THEN <<>> ELSE Extend(f[n - 1])
      BY <3>1
    <3>3. \A n \in 0..(j + 1) : g[n] = IF n = j + 1 THEN Extend(f[j]) ELSE f[n]
      OBVIOUS
    <3> HIDE DEF Eq
    <3>4. ASSUME NEW n \in 0..(j + 1) PROVE g[n] = IF n = 0 THEN <<>> ELSE Extend(g[n - 1])
      <4>1. CASE n = 0
        <5>1. n \in 0..j /\ n # j + 1
          BY <4>1
        <5> QED
          BY <3>2, <3>3, <4>1, <5>1
      <4>2. CASE n # 0 /\ n # j + 1
        <5>1. n \in 0..j /\ n - 1 \in 0..(j + 1) /\ n - 1 # j + 1
          BY <4>2
        <5>2. g[n] = f[n] /\ g[n - 1] = f[n - 1]
          BY <3>3, <4>2, <5>1
        <5> QED
          BY <3>2, <4>2, <5>1, <5>2
      <4>3. CASE n = j + 1
        <5>1. n # 0 /\ n - 1 = j /\ j \in 0..(j + 1) /\ j # j + 1
          BY <4>3
        <5>2. g[n] = Extend(f[j]) /\ g[n - 1] = f[j]
          BY <3>3, <4>3, <5>1
        <5> QED
          BY <5>1, <5>2
      <4> QED
        BY <4>1, <4>2, <4>3
    <3>5. g = [n \in 0..(j + 1) |-> g[n]]
      OBVIOUS
    <3> HIDE DEF g
    <3>6. g = [n \in 0..(j + 1) |-> IF n = 0 THEN <<>> ELSE Extend(g[n - 1])]
      BY <3>4, <3>5
    <3>7. Eq(g, j + 1)
      BY <3>6 DEF Eq
    <3> QED
      BY <3>7
  <2> HIDE DEF U
  <2>3. Nat \subseteq U
    BY <2>1, <2>2, NumberInduction
  <2> QED
    BY <2>3 DEF U
<1> DEFINE order == CHOOSE f : Eq(f, N)
<1>4. Eq(order, N)
  <2> HIDE DEF Eq
  <2> QED
    BY <1>1, <1>3
<1>5. CanonicalOrder(S) = order[N]
  BY DEF CanonicalOrder, Extend
<1> HIDE DEF order, N
<1>6. order[0] = <<>> /\ \A n \in 0..(N - 1) : order[n + 1] = Extend(order[n])
  <2>1. \A n \in 0..N : order[n] = IF n = 0 THEN <<>> ELSE Extend(order[n - 1])
    BY <1>4
  <2>2. 0 \in 0..N /\ \A n \in 0..(N - 1) : n + 1 \in 0..N /\ n + 1 # 0 /\ (n + 1) - 1 = n
    BY <1>1
  <2> HIDE DEF Eq
  <2>3. ASSUME NEW n \in 0..(N - 1) PROVE order[n + 1] = Extend(order[n])
    <3>1. order[n + 1] = Extend(order[(n + 1) - 1])
      BY <2>1, <2>2
    <3> QED
      BY <2>2, <3>1
  <2> QED
    BY <2>1, <2>2, <2>3
<1> HIDE DEF Eq
<1> DEFINE U == {n \in 0..N : /\ order[n] \in Seq(S) /\ IsInjective(order[n])
                              /\ Cardinality(ToSet(order[n])) = n}
<1>7. 0 \in U
  <2>1. ToSet(<<>>) = {} /\ IsInjective(<<>>) /\ <<>> \in Seq(S)
    BY DEF ToSet, IsInjective
  <2>2. Cardinality({}) = 0
    BY FS_EmptySet
  <2>3. order[0] = <<>> /\ 0 \in 0..N
    BY <1>1, <1>6
  <2>4. Cardinality(ToSet(<<>>)) = 0
    BY <2>1, <2>2, Zenon
  <2> HIDE DEF order
  <2> QED
    BY <2>1, <2>3, <2>4
<1>8. ASSUME NEW n \in 0..(N - 1), n \in U PROVE n + 1 \in U
  <2>1. n + 1 \in 0..N /\ n < N
    BY <1>1
  <2>2. order[n] \in Seq(S) /\ IsInjective(order[n]) /\ Cardinality(ToSet(order[n])) = n
    BY <1>8
  <2>3. /\ Extend(order[n]) \in Seq(S) /\ IsInjective(Extend(order[n]))
        /\ Cardinality(ToSet(Extend(order[n]))) = n + 1
    BY <1>2, <2>1, <2>2
  <2> QED
    BY <1>6, <2>1, <2>3
<1>9. N \in U
  <2> HIDE DEF U
  <2> QED
    BY <1>1, <1>7, <1>8, BoundedInduction
<1>10. ToSet(order[N]) \subseteq S /\ Cardinality(ToSet(order[N])) = Cardinality(S)
  BY <1>9 DEF ToSet, N
<1> QED
  BY <1>5, <1>10, FS_Subset

-----------------------------------------------------------------------------
(* finish, atom by atom: what it has made of the first n of the input.     *)

\* The parents it gives an atom are of those it has made.
AreMade(parents, map) == \A p \in ToSet(parents) : \E x \in DOMAIN map : p = map[x]

LEMMA MappedAreThere ==
    ASSUME NEW ir, Readable(ir), NEW map, DOMAIN map \subseteq ToSet(ir.atoms), NEW a \in ToSet(ir.atoms)
    PROVE  AreMade(MappedParents(a.parents, map, ToSet(ir.atoms)), map)
PROOF
<1> DEFINE atoms == ToSet(ir.atoms)
           X == {map[x] : x \in DOMAIN map}
           s == a.parents
<1>1. PICK resolve \in [atoms -> Seq(X)] : Resolves(resolve, map, atoms)
  BY ResolveSolved
<1>2. s \in Seq(atoms)
  BY AtomRanks DEF Ranks
<1> DEFINE seqs == [n \in DOMAIN s |-> resolve[s[n]]]
<1>3. MappedParents(s, map, atoms) = FirstOccurrences(FlattenSeq(seqs))
  BY <1>1 DEF Resolves
<1> HIDE DEF X, atoms, s
<1>4. seqs \in Seq(Seq(X))
  <2>1. Len(s) \in Nat /\ DOMAIN s = 1..Len(s) /\ \A n \in 1..Len(s) : resolve[s[n]] \in Seq(X)
    BY <1>1, <1>2
  <2> QED
    BY <2>1
<1> HIDE DEF seqs
<1>5. FlattenSeq(seqs) \in Seq(X)
  BY <1>4, FlattenHolds
<1>6. FirstOccurrences(FlattenSeq(seqs)) \in Seq(X)
  BY <1>5, FirstOccurrencesKeep
<1>7. \A p \in ToSet(MappedParents(s, map, atoms)) : p \in X
  BY <1>3, <1>6 DEF ToSet
<1> QED
  BY <1>7 DEF X, s, atoms, AreMade

NothingMade == [ok |-> TRUE, map |-> <<>>, atoms |-> {}, drops |-> {}]

IsFinishRun(f) ==
    /\ f[0] = NothingMade
    /\ \A n \in 1..Len(InAtoms) : f[n] = FinishAtom(f[n - 1], n)

LEMMA FinishRuns ==
    ASSUME Len(InAtoms) \in Nat
    PROVE  \E f : IsFinishRun(f) /\ FinishedAtoms = f[Len(InAtoms)]
PROOF
<1> DEFINE N == Len(InAtoms)
           Extend(acc, n) == FinishAtom(acc, n)
           Eq(f, k) == f = [n \in 0..k |-> IF n = 0 THEN NothingMade ELSE Extend(f[n - 1], n)]
           made == CHOOSE f : Eq(f, N)
<1>1. N \in Nat
  OBVIOUS
<1>2. FinishedAtoms = made[N]
  BY DEF FinishedAtoms, NothingMade
<1> HIDE DEF Extend, made, N
<1>3. ASSUME NEW k \in Nat PROVE \E f : Eq(f, k)
  <2> DEFINE U == {j \in Nat : \E f : Eq(f, j)}
  <2>1. 0 \in U
    <3>1. Eq([n \in 0..0 |-> NothingMade], 0)
      OBVIOUS
    <3> QED
      BY <3>1
  <2>2. ASSUME NEW j \in Nat, j \in U PROVE j + 1 \in U
    <3>1. PICK f : Eq(f, j)
      BY <2>2
    <3> DEFINE g == [n \in 0..(j + 1) |-> IF n = j + 1 THEN Extend(f[j], j + 1) ELSE f[n]]
    <3>2. \A n \in 0..j : f[n] = IF n = 0 THEN NothingMade ELSE Extend(f[n - 1], n)
      BY <3>1
    <3>3. \A n \in 0..(j + 1) : g[n] = IF n = j + 1 THEN Extend(f[j], j + 1) ELSE f[n]
      OBVIOUS
    <3> HIDE DEF Eq
    <3>4. ASSUME NEW n \in 0..(j + 1) PROVE g[n] = IF n = 0 THEN NothingMade ELSE Extend(g[n - 1], n)
      <4>1. CASE n = 0
        <5>1. n \in 0..j /\ n # j + 1
          BY <4>1
        <5> QED
          BY <3>2, <3>3, <4>1, <5>1
      <4>2. CASE n # 0 /\ n # j + 1
        <5>1. n \in 0..j /\ n - 1 \in 0..(j + 1) /\ n - 1 # j + 1
          BY <4>2
        <5>2. g[n] = f[n] /\ g[n - 1] = f[n - 1]
          BY <3>3, <4>2, <5>1
        <5> QED
          BY <3>2, <4>2, <5>1, <5>2
      <4>3. CASE n = j + 1
        <5>1. n # 0 /\ n - 1 = j /\ j \in 0..(j + 1) /\ j # j + 1
          BY <4>3
        <5>2. g[n] = Extend(f[j], n) /\ g[n - 1] = f[j]
          BY <3>3, <4>3, <5>1
        <5> QED
          BY <5>1, <5>2
      <4> QED
        BY <4>1, <4>2, <4>3
    <3>5. g = [n \in 0..(j + 1) |-> g[n]]
      OBVIOUS
    <3> HIDE DEF g
    <3>6. g = [n \in 0..(j + 1) |-> IF n = 0 THEN NothingMade ELSE Extend(g[n - 1], n)]
      BY <3>4, <3>5
    <3>7. Eq(g, j + 1)
      BY <3>6 DEF Eq
    <3> QED
      BY <3>7
  <2> HIDE DEF U
  <2>3. Nat \subseteq U
    BY <2>1, <2>2, NumberInduction
  <2> QED
    BY <2>3 DEF U
<1>4. Eq(made, N)
  <2> HIDE DEF Eq
  <2> QED
    BY <1>1, <1>3 DEF made
<1>5. \A n \in 0..N : made[n] = IF n = 0 THEN NothingMade ELSE Extend(made[n - 1], n)
  BY <1>4
<1>6. made[0] = NothingMade /\ \A n \in 1..N : made[n] = Extend(made[n - 1], n)
  <2>1. 0 \in 0..N /\ \A n \in 1..N : n \in 0..N /\ n # 0
    BY <1>1
  <2> QED
    BY <1>5, <2>1
<1> QED
  BY <1>2, <1>6 DEF IsFinishRun, Extend, N

\* The atoms of the first n that stay.
Left(n) == {InAtoms[j] : j \in (1..n) \ removedAtoms}

\* What finish makes of the i-th atom, whatever its parents have become.
FinishedAs(b, i) ==
    /\ b = PlainAtom(b) /\ b.source = InAtoms[i].source
    /\ b.meta = work[i].meta /\ b.copies = work[i].copies
    /\ b.ops = {FinalOp(InAtoms[i], op) : op \in work[i].ops}
    /\ \E map : /\ DOMAIN map = Left(i - 1)
                /\ b.status = MarkIf(EditedAtomDiffers(InAtoms[i], work[i], map), InAtoms[i].status)
    /\ \A p \in ToSet(b.parents) : \E j \in (1..(i - 1)) \ removedAtoms : p.source = InAtoms[j].source

Rebuilds(acc, n) ==
    /\ acc = [ok |-> acc.ok, map |-> acc.map, atoms |-> acc.atoms, drops |-> acc.drops]
    /\ DOMAIN acc.map = Left(n)
    /\ \A a \in Left(n) : acc.map[a] \in acc.atoms
    /\ IsFiniteSet(acc.atoms)
    /\ \A b \in acc.atoms : \E i \in (1..n) \ removedAtoms : FinishedAs(b, i)
    /\ \A i \in (1..n) \ removedAtoms : \E b \in acc.atoms : FinishedAs(b, i)

LEMMA FinishStep ==
    ASSUME Readable(input.ir), NEW n \in 1..Len(InAtoms), Len(InAtoms) \in Nat, NEW acc, Rebuilds(acc, n - 1)
    PROVE  Rebuilds(FinishAtom(acc, n), n)
PROOF
<1> DEFINE inAtom == InAtoms[n]
           atoms == ToSet(InAtoms)
           was == (1..(n - 1)) \ removedAtoms
           now == (1..n) \ removedAtoms
<1>1. /\ DOMAIN acc.map = Left(n - 1) /\ (\A a \in Left(n - 1) : acc.map[a] \in acc.atoms)
      /\ IsFiniteSet(acc.atoms)
      /\ \A b \in acc.atoms : \E i \in was : FinishedAs(b, i)
      /\ \A i \in was : \E b \in acc.atoms : FinishedAs(b, i)
      /\ acc = [ok |-> acc.ok, map |-> acc.map, atoms |-> acc.atoms, drops |-> acc.drops]
  BY DEF Rebuilds
<1>2. CASE n \in removedAtoms
  <2> DEFINE drops == acc.drops \cup {DropOf(<<"atom", inAtom>>)}
  <2>1. FinishAtom(acc, n) = [acc EXCEPT !.drops = drops]
    BY <1>2 DEF FinishAtom
  <2>2. now = was
    BY <1>2
  <2> HIDE DEF drops
  <2>3. FinishAtom(acc, n) = [ok |-> acc.ok, map |-> acc.map, atoms |-> acc.atoms, drops |-> drops]
    BY <1>1, <2>1
  <2>4. Left(n) = Left(n - 1)
    BY <2>2 DEF Left
  <2> HIDE DEF was, now
  <2> QED
    BY <1>1, <2>2, <2>3, <2>4 DEF Rebuilds, was, now
<1>3. CASE n \notin removedAtoms
  <2> DEFINE edit == work[n]
             parents == MappedParents(inAtom.parents, acc.map, atoms)
             new == [parents |-> parents,
                     ops |-> {FinalOp(inAtom, op) : op \in edit.ops},
                     copies |-> edit.copies, meta |-> edit.meta, source |-> inAtom.source,
                     status |-> MarkIf(EditedAtomDiffers(inAtom, edit, acc.map), inAtom.status)]
             map == [a \in DOMAIN acc.map \cup {inAtom} |-> IF a = inAtom THEN new ELSE acc.map[a]]
             ok == acc.ok /\ MayAddAtom(acc.atoms, new)
             drops == acc.drops \cup {DropOf(what) : what \in
                        {<<"op", inAtom, path>> : path \in edit.removedOps}
                          \cup {<<"copy", inAtom, to>> : to \in edit.removedCopies}}
  <2>1. FinishAtom(acc, n) = [ok |-> ok, map |-> map, atoms |-> acc.atoms \cup {new}, drops |-> drops]
    BY <1>3 DEF FinishAtom
  <2>2. now = was \cup {n} /\ n \notin was
    BY <1>3
  <2>3. Left(n) = Left(n - 1) \cup {inAtom}
    BY <2>2 DEF Left
  <2>4. \A p \in ToSet(parents) : \E j \in was : p.source = InAtoms[j].source
    <3>1. inAtom \in atoms /\ DOMAIN acc.map \subseteq atoms
      <4>1. DOMAIN InAtoms = 1..Len(InAtoms)
        BY DEF InAtoms, Readable, Decoded
      <4>2. \A j \in was : j \in 1..Len(InAtoms)
        OBVIOUS
      <4> QED
        BY <1>1, <4>1, <4>2 DEF Left, ToSet
    <3>2. \A p \in ToSet(parents) : \E x \in DOMAIN acc.map : p = acc.map[x]
      <4> DEFINE ir == input.ir
                 idMap == acc.map
                 a == inAtom
      <4>1. a \in ToSet(ir.atoms) /\ DOMAIN idMap \subseteq ToSet(ir.atoms) /\ Readable(ir)
        BY <3>1 DEF InAtoms
      <4> HIDE DEF ir, idMap, a
      <4>2. AreMade(MappedParents(a.parents, idMap, ToSet(ir.atoms)), idMap)
        BY <4>1, MappedAreThere
      <4>3. AreMade(parents, acc.map)
        BY <4>2 DEF ir, idMap, a, InAtoms
      <4> QED
        BY <4>3 DEF AreMade
    <3> HIDE DEF parents, was
    <3>3. \A p \in ToSet(parents) : p \in acc.atoms
      BY <1>1, <3>2
    <3> QED
      BY <1>1, <3>3 DEF FinishedAs
  <2>5. FinishedAs(new, n)
    <3>1. new = PlainAtom(new) /\ new.source = inAtom.source /\ new.meta = edit.meta /\ new.copies = edit.copies
          /\ new.ops = {FinalOp(inAtom, op) : op \in edit.ops} /\ new.parents = parents
          /\ new.status = MarkIf(EditedAtomDiffers(inAtom, edit, acc.map), inAtom.status)
      <4> HIDE DEF parents, edit, inAtom
      <4> QED
        BY DEF PlainAtom
    <3> HIDE DEF new
    <3> QED
      BY <1>1, <2>4, <3>1 DEF FinishedAs
  <2> HIDE DEF new, ok, drops
  <2>6. DOMAIN map = Left(n) /\ \A a \in Left(n) : map[a] \in acc.atoms \cup {new}
    BY <1>1, <2>3
  <2>7. IsFiniteSet(acc.atoms \cup {new})
    BY <1>1, FS_AddElement
  <2> HIDE DEF map, was, now
  <2>8. \A b \in acc.atoms \cup {new} : \E i \in now : FinishedAs(b, i)
    BY <1>1, <2>2, <2>5
  <2>9. \A i \in now : \E b \in acc.atoms \cup {new} : FinishedAs(b, i)
    BY <1>1, <2>2, <2>5
  <2> QED
    BY <2>1, <2>6, <2>7, <2>8, <2>9 DEF Rebuilds, now
<1> QED
  BY <1>2, <1>3

LEMMA FinishedRebuilds ==
    ASSUME Readable(input.ir)
    PROVE  Len(InAtoms) \in Nat /\ Index = 1..Len(InAtoms) /\ Rebuilds(FinishedAtoms, Len(InAtoms))
PROOF
<1>1. Len(InAtoms) \in Nat /\ Index = 1..Len(InAtoms)
  BY DEF InAtoms, Index, Readable, Decoded
<1>2. PICK f : IsFinishRun(f) /\ FinishedAtoms = f[Len(InAtoms)]
  BY <1>1, FinishRuns
<1> DEFINE L == Len(InAtoms)
           U == {n \in 0..L : Rebuilds(f[n], n)}
<1>3. 0 \in U
  <2>1. Left(0) = {} /\ (1..0) \ removedAtoms = {}
    BY DEF Left
  <2>2. f[0] = NothingMade
    BY <1>2 DEF IsFinishRun
  <2>3. DOMAIN <<>> = {} /\ IsFiniteSet({})
    BY FS_EmptySet
  <2>4. Rebuilds(NothingMade, 0)
    <3>1. NothingMade.map = <<>> /\ NothingMade.atoms = {}
          /\ NothingMade = [ok |-> NothingMade.ok, map |-> NothingMade.map,
                            atoms |-> NothingMade.atoms, drops |-> NothingMade.drops]
      BY DEF NothingMade
    <3> QED
      BY <2>1, <2>3, <3>1 DEF Rebuilds
  <2> HIDE DEF L
  <2>5. 0 \in 0..L
    BY <1>1 DEF L
  <2> QED
    BY <2>2, <2>4, <2>5
<1>4. ASSUME NEW n \in 0..(L - 1), n \in U PROVE n + 1 \in U
  <2>1. n + 1 \in 1..L /\ (n + 1) - 1 = n /\ n + 1 \in 0..L
    BY <1>1
  <2>2. f[n + 1] = FinishAtom(f[n], n + 1) /\ Rebuilds(f[n], n)
    BY <1>2, <1>4, <2>1 DEF IsFinishRun
  <2>3. Rebuilds(FinishAtom(f[n], n + 1), n + 1)
    BY <1>1, <2>1, <2>2, FinishStep
  <2> QED
    BY <2>1, <2>2, <2>3
<1>5. L \in U
  <2>1. L \in Nat
    BY <1>1
  <2> HIDE DEF U, L
  <2> QED
    BY <2>1, <1>3, <1>4, BoundedInduction
<1> QED
  BY <1>1, <1>2, <1>5

-----------------------------------------------------------------------------
(* What the session left alone comes out as it was.                        *)

\* A copy that was removed is gone for good.
CopiesShrink ==
    \A i \in Index : /\ work[i].copies \subseteq InAtoms[i].copies
                     /\ work[i].removedCopies # {} => work[i].copies # InAtoms[i].copies

LEMMA CopiesShrinkHolds == Spec => []CopiesShrink
PROOF
<1>1. Init => CopiesShrink
  BY DEF Init, CopiesShrink, AtomEdit, Index
<1>2. Inv /\ CopiesShrink /\ [Next]_vars => CopiesShrink'
  <2> SUFFICES ASSUME Inv, CopiesShrink, [Next]_vars PROVE CopiesShrink'
    OBVIOUS
  <2>1. work \in [Index -> AtomEditType] /\ \A i \in Index : work[i] \in AtomEditType
    BY DEF Inv, TypeOK
  <2>2. ASSUME UNCHANGED input,
               \A j \in Index : \/ /\ work'[j].copies = work[j].copies
                                   /\ work'[j].removedCopies = work[j].removedCopies
                                \/ \E c \in work[j].copies : work'[j].copies = work[j].copies \ {c}
        PROVE  CopiesShrink'
    <3>1. Index' = Index /\ InAtoms' = InAtoms
      BY <2>2 DEF Index, InAtoms
    <3> QED
      BY <2>2, <3>1 DEF CopiesShrink
  <2>3. ASSUME NEW i \in Index, NEW new, work' = [work EXCEPT ![i] = new], UNCHANGED input,
               \/ new.copies = work[i].copies /\ new.removedCopies = work[i].removedCopies
               \/ \E c \in work[i].copies : new.copies = work[i].copies \ {c}
        PROVE  CopiesShrink'
    <3>1. work'[i] = new /\ \A j \in Index \ {i} : work'[j] = work[j]
      BY <2>1, <2>3
    <3> QED
      BY <2>2, <2>3, <3>1
  <2>4. ASSUME NEW i \in Index, NEW ops, work' = [work EXCEPT ![i].ops = ops], UNCHANGED input
        PROVE  CopiesShrink'
    <3> DEFINE new == [work[i] EXCEPT !.ops = ops]
    <3>1. work' = [work EXCEPT ![i] = new]
      BY <2>4
    <3>2. new.copies = work[i].copies /\ new.removedCopies = work[i].removedCopies
      BY <2>1 DEF AtomEditType
    <3> HIDE DEF new
    <3> QED
      BY <2>3, <2>4, <3>1, <3>2
  <2>5. ASSUME NEW i \in Index, EditAtom(i) PROVE CopiesShrink'
    <3>1. CASE \E part \in MetaParts, value \in MetaValues : SetMetadata(i, part, value)
      <4> PICK part \in MetaParts, value \in MetaValues : SetMetadata(i, part, value)
        BY <3>1
      <4> DEFINE new == [work[i] EXCEPT !.meta[part] = value]
      <4>1. work' = [work EXCEPT ![i] = new] /\ UNCHANGED input
        BY DEF SetMetadata
      <4>2. new.copies = work[i].copies /\ new.removedCopies = work[i].removedCopies
        BY <2>1 DEF AtomEditType
      <4> HIDE DEF new
      <4> QED
        BY <2>3, <4>1, <4>2
    <3>2. CASE \E op \in work[i].ops : \/ \E blob \in Blobs : SetOpBlob(i, op, blob)
                                       \/ \E mode \in Modes : SetOpMode(i, op, mode)
                                       \/ \E path \in PathNames : MoveOp(i, op, path)
      <4>1. UNCHANGED input /\ \E ops : work' = [work EXCEPT ![i].ops = ops]
        BY <3>2 DEF SetOpBlob, SetOpMode, MoveOp
      <4> QED
        BY <2>4, <4>1
    <3>3. CASE \E op \in work[i].ops : RemoveOp(i, op)
      <4> PICK op \in work[i].ops : RemoveOp(i, op)
        BY <3>3
      <4> DEFINE new == [work[i] EXCEPT !.ops = work[i].ops \ {op}, !.removedOps = work[i].removedOps \cup {op.path}]
      <4>1. work' = [work EXCEPT ![i] = new] /\ UNCHANGED input
        BY <2>1 DEF RemoveOp, AtomEditType
      <4>2. new.copies = work[i].copies /\ new.removedCopies = work[i].removedCopies
        BY <2>1 DEF AtomEditType
      <4> HIDE DEF new
      <4> QED
        BY <2>3, <4>1, <4>2
    <3>4. CASE \E copy \in work[i].copies : RemoveCopy(i, copy)
      <4> PICK copy \in work[i].copies : RemoveCopy(i, copy)
        BY <3>4
      <4> DEFINE new == [work[i] EXCEPT !.copies = work[i].copies \ {copy},
                                        !.removedCopies = work[i].removedCopies \cup {copy.to}]
      <4>1. work' = [work EXCEPT ![i] = new] /\ UNCHANGED input
        BY <2>1 DEF RemoveCopy, AtomEditType
      <4>2. new.copies = work[i].copies \ {copy}
        BY <2>1 DEF AtomEditType
      <4> HIDE DEF new
      <4> QED
        BY <2>3, <4>1, <4>2
    <3>5. CASE RemoveAtom(i)
      BY <2>2, <3>5 DEF RemoveAtom
    <3> QED
      BY <2>5, <3>1, <3>2, <3>3, <3>4, <3>5 DEF EditAtom
  <2>6. CASE UNCHANGED <<input, work>>
    BY <2>2, <2>6
  <2>7. (\E i \in Index : EditAtom(i)) \/ UNCHANGED <<input, work>>
    BY DEF Next, vars, EditRef, SetAnnotation, RenameRef, RemoveRef, AddBlob, Finish
  <2> QED
    BY <2>5, <2>6, <2>7
<1> QED
  BY <1>1, <1>2, InvHolds, PTL DEF Spec

LEMMA InputAtoms ==
    ASSUME input \in Inputs, NEW i \in Index
    PROVE  /\ Readable(input.ir) /\ InAtoms[i] \in ToSet(InAtoms)
           /\ InAtoms[i] = PlainAtom(InAtoms[i]) /\ InAtoms[i].source \in Nat
           /\ DOMAIN InAtoms[i].meta = MetaParts /\ OpsDecoded(InAtoms[i].ops)
           /\ \A op \in InAtoms[i].ops : IsStatus(op.status)
PROOF
<1>1. Readable(input.ir) /\ InAtoms[i] \in ToSet(InAtoms)
  BY InputAssumptions DEF InAtoms, Index, ToSet
<1>2. InAtoms[i] = PlainAtom(InAtoms[i]) /\ InAtoms[i].source \in Nat /\ DOMAIN InAtoms[i].meta = MetaParts
  BY InputAssumptions DEF InAtoms, Index
<1>3. OpsDecoded(InAtoms[i].ops) /\ \A op \in InAtoms[i].ops : IsStatus(op.status)
  BY <1>1 DEF Readable, Decoded, InAtoms, OpsDecoded
<1> QED
  BY <1>1, <1>2, <1>3

\* An operation comes out as it is exactly when it is one of the input's.
LEMMA OpsComeBack ==
    ASSUME NEW inAtom, OpsDecoded(inAtom.ops), NEW ops,
           \A op \in inAtom.ops : IsStatus(op.status)
    PROVE  /\ {PlainOp(op) : op \in ops} = inAtom.ops
                 => {FinalOp(inAtom, op) : op \in ops} = inAtom.ops /\ ~ EditedOpsDiffer(inAtom, ops)
           /\ {FinalOp(inAtom, op) : op \in ops} = inAtom.ops => {PlainOp(op) : op \in ops} = inAtom.ops
PROOF
<1>1. \A op : /\ PlainOp(op).path = op.path /\ PlainOp(op).kind = op.kind /\ PlainOp(op).status = op.status
              /\ PlainOp(op).blob = op.blob /\ PlainOp(op).mode = op.mode
  BY DEF PlainOp
<1>2. \A o \in inAtom.ops : o.path \in Paths(inAtom.ops) /\ At(inAtom.ops, o.path) = o
  BY OpAt DEF OpsDecoded
<1>3. ASSUME NEW op, PlainOp(op) \in inAtom.ops
      PROVE  /\ op.path \in Paths(inAtom.ops) /\ At(inAtom.ops, op.path) = PlainOp(op)
             /\ OpDiffers(At(inAtom.ops, op.path), op) = {} /\ FinalOp(inAtom, op) = PlainOp(op)
  <2>1. op.path \in Paths(inAtom.ops) /\ At(inAtom.ops, op.path) = PlainOp(op)
    BY <1>1, <1>2, <1>3
  <2>2. OpPayload(PlainOp(op)) = OpPayload(op)
    BY <1>1 DEF OpPayload
  <2>3. OpDiffers(PlainOp(op), op) = {}
    BY <2>2 DEF OpDiffers
  <2> QED
    BY <2>1, <2>3 DEF FinalOp
<1>4. ASSUME NEW op, FinalOp(inAtom, op) \in inAtom.ops
      PROVE  FinalOp(inAtom, op) = PlainOp(op)
  <2> DEFINE o == FinalOp(inAtom, op)
             inOp == At(inAtom.ops, op.path)
             differs == OpDiffers(inOp, op)
  <2>1. o.path = op.path
    BY DEF FinalOp, PlainOp
  <2>2. op.path \in Paths(inAtom.ops) /\ o = inOp
    BY <1>2, <1>4, <2>1
  <2>3. CASE differs = {}
    BY <2>2, <2>3 DEF FinalOp
  <2>4. CASE differs # {}
    <3>1. o.status = Transformed(K, differs, inOp.status)
      BY <2>2, <2>4 DEF FinalOp, PlainOp
    <3> DEFINE was == inOp.status
               layer == [step |-> K, changed |-> differs]
               q == was.layers
    <3>2. was = [was EXCEPT !.layers = <<layer>> \o q]
      BY <2>2, <3>1 DEF Transformed
    <3>3. was = [base |-> was.base, layers |-> q] /\ q \in Seq(ToSet(q))
      BY <1>4, <2>2 DEF IsStatus
    <3> HIDE DEF layer, was
    <3>4. was.layers = <<layer>> \o q
      BY <3>2, <3>3
    <3>5. Len(<<layer>> \o q) = 1 + Len(q) /\ Len(q) \in Nat
      BY <3>3
    <3> QED
      BY <3>4, <3>5
  <2> QED
    BY <2>3, <2>4
<1>5. ASSUME {PlainOp(op) : op \in ops} = inAtom.ops
      PROVE  {FinalOp(inAtom, op) : op \in ops} = inAtom.ops /\ ~ EditedOpsDiffer(inAtom, ops)
  <2>1. \A op \in ops : PlainOp(op) \in inAtom.ops
    BY <1>5
  <2>2. \A op \in ops : FinalOp(inAtom, op) = PlainOp(op)
    BY <1>3, <2>1
  <2>3. ~ EditedOpsDiffer(inAtom, ops)
    BY <1>3, <2>1 DEF EditedOpsDiffer
  <2>4. {FinalOp(inAtom, op) : op \in ops} = {PlainOp(op) : op \in ops}
    BY <2>2
  <2> QED
    BY <1>5, <2>3, <2>4
<1>6. ASSUME {FinalOp(inAtom, op) : op \in ops} = inAtom.ops
      PROVE  {PlainOp(op) : op \in ops} = inAtom.ops
  <2>1. \A op \in ops : FinalOp(inAtom, op) = PlainOp(op)
    BY <1>4, <1>6
  <2>2. {FinalOp(inAtom, op) : op \in ops} = {PlainOp(op) : op \in ops}
    BY <2>1
  <2> QED
    BY <1>6, <2>2
<1> QED
  BY <1>5, <1>6

\* Untouched from the roots down: the atom itself, and its parents.
LEMMA UnalteredStepwise ==
    ASSUME Readable(input.ir), UniqueSources(InAtoms), NEW i \in Index
    PROVE  Unaltered(i) <=> /\ ~ Rewritten(i)
                            /\ \A j \in Index : InAtoms[j] \in ToSet(InAtoms[i].parents) => Unaltered(j)
PROOF
<1> DEFINE a == InAtoms[i]
           anc == AncestorSources(ToSet(InAtoms))
           Of(x) == {p.source : p \in ToSet(x.parents)} \cup UNION {anc[p] : p \in ToSet(x.parents)}
<1>1. a \in ToSet(InAtoms) /\ ToSet(a.parents) \subseteq ToSet(InAtoms)
  <2>1. a \in ToSet(InAtoms)
    BY DEF Index, ToSet
  <2> QED
    BY <2>1, AtomRanks DEF Ranks, InAtoms
<1>2. anc[a] = Of(a)
  BY <1>1, AncestorsSolved DEF InAtoms
<1>3. \A j, k \in Index : InAtoms[j].source = InAtoms[k].source => j = k
  BY DEF UniqueSources, Index
<1>4. \A p \in ToSet(a.parents) : \E j \in Index : p = InAtoms[j]
  BY <1>1 DEF ToSet, Index
<1> HIDE DEF anc, a
<1>5. \A k \in Index : Unaltered(k) <=> \A j \in Index : Rewritten(j) => j # k /\ InAtoms[j].source \notin anc[InAtoms[k]]
  BY DEF Unaltered, anc
<1>6. ASSUME Unaltered(i)
      PROVE  ~ Rewritten(i) /\ \A j \in Index : InAtoms[j] \in ToSet(a.parents) => Unaltered(j)
  <2>1. ~ Rewritten(i)
    BY <1>5, <1>6
  <2>2. ASSUME NEW j \in Index, InAtoms[j] \in ToSet(a.parents), NEW k \in Index, Rewritten(k)
        PROVE  k # j /\ InAtoms[k].source \notin anc[InAtoms[j]]
    <3>1. InAtoms[k].source \notin anc[a]
      BY <1>5, <1>6, <2>2 DEF a
    <3>2. InAtoms[j].source \in anc[a] /\ anc[InAtoms[j]] \subseteq anc[a]
      BY <1>2, <2>2
    <3> QED
      BY <3>1, <3>2
  <2> QED
    BY <1>5, <2>1, <2>2
<1>7. ASSUME ~ Rewritten(i), \A j \in Index : InAtoms[j] \in ToSet(a.parents) => Unaltered(j)
      PROVE  Unaltered(i)
  <2> SUFFICES ASSUME NEW k \in Index, Rewritten(k) PROVE k # i /\ InAtoms[k].source \notin anc[a]
    BY <1>5 DEF a
  <2>1. k # i
    BY <1>7
  <2>2. ASSUME InAtoms[k].source \in anc[a] PROVE FALSE
    <3>1. PICK p \in ToSet(a.parents) : InAtoms[k].source = p.source \/ InAtoms[k].source \in anc[p]
      BY <1>2, <2>2
    <3>2. PICK j \in Index : p = InAtoms[j]
      BY <1>4
    <3>3. Unaltered(j)
      BY <1>7, <3>1, <3>2
    <3> QED
      BY <1>3, <1>5, <3>1, <3>2, <3>3
  <2> QED
    BY <2>1, <2>2
<1> QED
  BY <1>6, <1>7 DEF a

\* What MarksStayLocal says of a finished artifact.
LocalMarks(ir) ==
    \A i \in Index \ removedAtoms :
        \E b \in ToSet(ir.atoms) :
            /\ b.source = InAtoms[i].source
            /\ ~Touched(i) => b.status = InAtoms[i].status
            /\ (b = InAtoms[i]) <=> Unaltered(i)

LEMMA FinishIsLocal ==
    ASSUME Inv, CopiesShrink, Finished.kind = "done"
    PROVE  LocalMarks(Finished.ir)
PROOF
<1> DEFINE ir == Finished.ir
           out == [ir |-> ir, digest |-> Name]
           map == IdMap(input, out)
           made == FinishedAtoms.atoms
           stay == Index \ removedAtoms
<1>1. /\ Readable(input.ir) /\ ir.atoms = CanonicalOrder(made) /\ UniqueSources(InAtoms)
      /\ Accepts(input, out, Name) /\ out.ir = ir /\ input \in Inputs
  <2>1. Readable(input.ir) /\ input \in Inputs
    BY InputAssumptions DEF Inv, TypeOK
  <2>2. Readable(ir) /\ ir = Rebuilt(FinishedAtoms) /\ Check(input, out, Name)
    BY FinishedIsVetted
  <2>3. ir.atoms = CanonicalOrder(made)
    <3>1. Rebuilt(FinishedAtoms).atoms = CanonicalOrder(FinishedAtoms.atoms)
      BY DEF Rebuilt
    <3> QED
      BY <2>2, <3>1
  <2> QED
    BY <2>1, <2>2, <2>3 DEF Accepts, Check, InAtoms
<1>2. /\ Len(InAtoms) \in Nat /\ Index = 1..Len(InAtoms) /\ Rebuilds(FinishedAtoms, Len(InAtoms))
  BY <1>1, FinishedRebuilds
<1> HIDE DEF ir, map
<1>3. /\ IsFiniteSet(made)
      /\ \A b \in made : \E i \in stay : FinishedAs(b, i)
      /\ \A i \in stay : \E b \in made : FinishedAs(b, i)
  BY <1>2 DEF Rebuilds
<1> HIDE DEF made
<1>4. \A i, j \in Index : InAtoms[i].source = InAtoms[j].source => i = j
  BY <1>1 DEF UniqueSources, Index
<1>5. \A i \in Index : /\ InAtoms[i] \in ToSet(InAtoms) /\ InAtoms[i] = PlainAtom(InAtoms[i])
                       /\ InAtoms[i].source \in Nat /\ OpsDecoded(InAtoms[i].ops)
                       /\ DOMAIN InAtoms[i].meta = MetaParts
                       /\ \A op \in InAtoms[i].ops : IsStatus(op.status)
  BY <1>1, InputAtoms
<1>6. ToSet(ir.atoms) = made
  <2> DEFINE rank == [b \in made |-> CHOOSE i \in stay : FinishedAs(b, i)]
  <2>1. \A b \in made : rank[b] \in stay /\ FinishedAs(b, rank[b])
    BY <1>3
  <2>2. \A b \in made : \A i \in stay : b.source = InAtoms[i].source => rank[b] = i
    BY <1>4, <2>1 DEF FinishedAs
  <2> HIDE DEF rank
  <2>3. ASSUME NEW b \in made, NEW p \in ToSet(b.parents) \cap made PROVE rank[p] < rank[b]
    <3>1. PICK j \in (1..(rank[b] - 1)) \ removedAtoms : p.source = InAtoms[j].source
      BY <2>1 DEF FinishedAs
    <3>2. rank[b] \in 1..Len(InAtoms)
      BY <1>2, <2>1
    <3>3. j \in stay /\ j < rank[b]
      BY <1>2, <3>1, <3>2
    <3>4. rank[p] = j
      BY <2>2, <3>1, <3>3
    <3> QED
      BY <3>3, <3>4
  <2>4. rank \in [made -> Nat]
    <3>1. \A b \in made : rank[b] \in Nat
      BY <1>2, <2>1
    <3> QED
      BY <3>1 DEF rank
  <2>5. \A b \in made : b.source \in Nat
    BY <1>5, <2>1 DEF FinishedAs
  <2> QED
    BY <1>1, <1>3, <2>3, <2>4, <2>5, KahnLists
<1>7. /\ \A a \in DOMAIN map : a \in ToSet(InAtoms) /\ map[a] \in made /\ map[a].source = a.source
      /\ \A a, b \in DOMAIN map : map[a] = map[b] => a = b
      /\ \A a \in ToSet(InAtoms), b \in made : a.source = b.source => a \in DOMAIN map /\ map[a] = b
  <2>1. Check(input, out, Name) /\ ToSet(out.ir.atoms) = made
    BY <1>1, <1>6 DEF Accepts
  <2> HIDE DEF out
  <2> QED
    BY <2>1, Matching DEF map, InAtoms
<1> HIDE DEF out
<1>8. ASSUME NEW i \in stay PROVE InAtoms[i] \in DOMAIN map /\ FinishedAs(map[InAtoms[i]], i)
  <2>1. PICK b \in made : FinishedAs(b, i)
    BY <1>3
  <2>2. b.source = InAtoms[i].source
    BY <2>1 DEF FinishedAs
  <2> QED
    BY <1>5, <1>7, <2>1, <2>2
<1>9. ASSUME NEW i \in Index, InAtoms[i] \in DOMAIN map PROVE i \in stay
  <2>1. PICK j \in stay : FinishedAs(map[InAtoms[i]], j)
    BY <1>3, <1>7, <1>9
  <2> QED
    BY <1>4, <1>7, <1>9, <2>1 DEF FinishedAs
<1>10. ASSUME NEW i \in Index, NEW p \in ToSet(InAtoms[i].parents)
       PROVE  \E j \in 1..(i - 1) : j \in Index /\ p = InAtoms[j]
  <2> DEFINE q == InAtoms[i].parents
  <2>1. q \in Seq(Earlier(InAtoms, i))
    BY <1>1 DEF Readable, InAtoms, Index
  <2> HIDE DEF q
  <2>2. p \in Earlier(InAtoms, i)
    BY <1>10, <2>1 DEF ToSet, q
  <2>3. \A j \in 1..(i - 1) : j \in Index
    BY <1>2
  <2> QED
    BY <2>2, <2>3 DEF Earlier
<1>11. ASSUME NEW i \in Index, \A j \in removedAtoms : InAtoms[j] \notin ToSet(InAtoms[i].parents)
       PROVE  /\ ~ ParentsDiffer(InAtoms[i], map)
              /\ \A before : DOMAIN before = Left(i - 1) => ~ ParentsDiffer(InAtoms[i], before)
  <2>1. ASSUME NEW p \in ToSet(InAtoms[i].parents)
        PROVE  \E j \in 1..(i - 1) : j \in stay /\ p = InAtoms[j]
    BY <1>10, <1>11, <2>1
  <2> QED
    BY <1>8, <2>1 DEF ParentsDiffer, Left
<1>12. removedAtoms \subseteq Index
  BY DEF Inv, TypeOK
<1>13. ASSUME NEW i \in stay, ~ Touched(i)
       PROVE  LET b == map[InAtoms[i]] IN
              /\ b.meta = InAtoms[i].meta /\ b.ops = InAtoms[i].ops /\ b.copies = InAtoms[i].copies
              /\ b.status = InAtoms[i].status
  <2> DEFINE b == map[InAtoms[i]]
  <2>1. FinishedAs(b, i)
    BY <1>8
  <2>2. PICK before : /\ DOMAIN before = Left(i - 1)
                      /\ b.status = MarkIf(EditedAtomDiffers(InAtoms[i], work[i], before), InAtoms[i].status)
    BY <2>1 DEF FinishedAs
  <2>3. ~ ParentsDiffer(InAtoms[i], before)
    BY <1>11, <1>13, <2>2 DEF Touched
  <2>4. /\ {FinalOp(InAtoms[i], op) : op \in work[i].ops} = InAtoms[i].ops
        /\ ~ EditedOpsDiffer(InAtoms[i], work[i].ops)
    BY <1>5, <1>13, OpsComeBack DEF Touched
  <2>5. work[i].removedCopies = {} /\ work[i].copies = InAtoms[i].copies /\ work[i].meta = InAtoms[i].meta
    BY <1>13 DEF Touched, CopiesShrink
  <2>6. EditedAtomDiffers(InAtoms[i], work[i], before) = {}
    BY <2>3, <2>4, <2>5 DEF EditedAtomDiffers
  <2> QED
    BY <2>1, <2>2, <2>4, <2>5, <2>6 DEF FinishedAs, MarkIf
<1> DEFINE Same(i) == i \in stay /\ map[InAtoms[i]] = InAtoms[i]
           mapped(i) == [n \in DOMAIN InAtoms[i].parents |-> map[InAtoms[i].parents[n]]]
<1>14. ASSUME NEW i \in stay, \A j \in removedAtoms : InAtoms[j] \notin ToSet(InAtoms[i].parents)
       PROVE  /\ \A n \in DOMAIN InAtoms[i].parents : InAtoms[i].parents[n] \in DOMAIN map
              /\ mapped(i) \in Seq(made) /\ map[InAtoms[i]].parents = FirstOccurrences(mapped(i))
  <2>1. InAtoms[i] \in ToSet(input.ir.atoms) /\ map[InAtoms[i]] \in ToSet(out.ir.atoms)
        /\ InAtoms[i].source = map[InAtoms[i]].source
    BY <1>1, <1>5, <1>6, <1>7, <1>8 DEF InAtoms
  <2>2. ~ ParentsDiffer(InAtoms[i], IdMap(input, out))
    BY <1>11, <1>14 DEF map
  <2> QED
    BY <1>1, <1>6, <2>1, <2>2, ParentsMapped DEF map
<1>15. ASSUME NEW i \in Index, Same(i)
       PROVE  ~ Rewritten(i) /\ \A j \in Index : InAtoms[j] \in ToSet(InAtoms[i].parents) => Same(j)
  <2> DEFINE a == InAtoms[i]
             s == a.parents
  <2>1. FinishedAs(a, i)
    BY <1>8, <1>15
  <2>2. \A j \in removedAtoms : a # InAtoms[j] /\ InAtoms[j] \notin ToSet(s)
    <3>1. ASSUME NEW j \in removedAtoms, InAtoms[j] \in ToSet(s) PROVE FALSE
      <4>1. PICK k \in (1..(i - 1)) \ removedAtoms : InAtoms[j].source = InAtoms[k].source
        BY <2>1, <3>1 DEF FinishedAs
      <4>2. k \in Index /\ j \in Index
        BY <1>2, <1>12
      <4> QED
        BY <1>4, <4>1, <4>2
    <3>2. \A j \in removedAtoms : a # InAtoms[j]
      BY <1>4, <1>12, <1>15
    <3> QED
      BY <3>1, <3>2
  <2>3. work[i].meta = a.meta /\ work[i].copies = a.copies /\ {FinalOp(a, op) : op \in work[i].ops} = a.ops
    BY <2>1 DEF FinishedAs
  <2>4. {PlainOp(op) : op \in work[i].ops} = a.ops
    BY <1>5, <2>3, OpsComeBack
  <2>5. ~ Touched(i)
    BY <1>15, <2>2, <2>3, <2>4 DEF Touched
  <2>6. /\ \A n \in DOMAIN s : s[n] \in DOMAIN map
        /\ mapped(i) \in Seq(made) /\ s = FirstOccurrences(mapped(i))
    BY <1>14, <1>15, <2>2
  <2>7. IsInjective(s) /\ (IsInjective(mapped(i)) => s = mapped(i))
    <3> DEFINE t == mapped(i)
    <3>1. t \in Seq(made) /\ s = FirstOccurrences(t)
      BY <2>6
    <3> HIDE DEF t
    <3> QED
      BY <3>1, FirstOccurrencesKeep DEF t
  <2>8. IsInjective(mapped(i))
    BY <1>7, <2>6, <2>7 DEF IsInjective
  <2>9. \A n \in DOMAIN s : map[s[n]] = s[n]
    <3>1. s = mapped(i)
      BY <2>7, <2>8
    <3>2. \A n \in DOMAIN s : mapped(i)[n] = map[s[n]]
      OBVIOUS
    <3> QED
      BY <3>1, <3>2
  <2>10. ASSUME NEW j \in Index, InAtoms[j] \in ToSet(s) PROVE Same(j)
    <3>1. PICK n \in DOMAIN s : s[n] = InAtoms[j]
      BY <2>10 DEF ToSet
    <3>2. InAtoms[j] \in DOMAIN map /\ map[InAtoms[j]] = InAtoms[j]
      BY <2>6, <2>9, <3>1
    <3> QED
      BY <1>9, <3>2
  <2> QED
    BY <2>5, <2>7, <2>10 DEF Rewritten
<1>16. ASSUME NEW i \in Index, ~ Rewritten(i),
              \A j \in Index : InAtoms[j] \in ToSet(InAtoms[i].parents) => Same(j)
       PROVE  Same(i)
  <2> DEFINE a == InAtoms[i]
             s == a.parents
             b == map[a]
  <2>1. i \in stay /\ ~ Touched(i) /\ IsInjective(s)
    BY <1>16 DEF Rewritten, Touched
  <2>2. /\ mapped(i) \in Seq(made) /\ b.parents = FirstOccurrences(mapped(i))
    BY <1>14, <2>1 DEF Touched
  <2>3. \A n \in DOMAIN s : map[s[n]] = s[n]
    <3> SUFFICES ASSUME NEW n \in DOMAIN s PROVE map[s[n]] = s[n]
      OBVIOUS
    <3>1. s[n] \in ToSet(s)
      BY DEF ToSet
    <3>2. PICK j \in Index : s[n] = InAtoms[j]
      BY <1>10, <3>1
    <3> QED
      BY <1>16, <3>1, <3>2
  <2>4. s \in Seq(ToSet(InAtoms))
    BY <1>1, <1>5, AtomRanks DEF Ranks, InAtoms
  <2>5. mapped(i) = s
    <3>1. mapped(i) = [n \in DOMAIN s |-> s[n]]
      BY <2>3
    <3>2. s = [n \in DOMAIN s |-> s[n]]
      <4> HIDE DEF s
      <4> QED
        BY <2>4
    <3> QED
      BY <3>1, <3>2
  <2>6. b.parents = s
    <3> DEFINE t == mapped(i)
    <3>1. t \in Seq(made) /\ b.parents = FirstOccurrences(t) /\ t = s
      BY <2>2, <2>5
    <3> HIDE DEF t, s
    <3> QED
      BY <2>1, <3>1, FirstOccurrencesKeep
  <2>7. /\ b.meta = a.meta /\ b.ops = a.ops /\ b.copies = a.copies /\ b.status = a.status
    BY <1>13, <2>1
  <2>8. b = PlainAtom(b) /\ b.source = a.source /\ a = PlainAtom(a)
    BY <1>5, <1>8, <2>1 DEF FinishedAs
  <2>9. b = a
    <3> HIDE DEF a, b
    <3> QED
      BY <2>6, <2>7, <2>8 DEF PlainAtom
  <2> QED
    BY <2>1, <2>9
<1> HIDE DEF Same, mapped
<1>17. \A i \in Index : Same(i) <=> Unaltered(i)
  <2> DEFINE U == {i \in Index : Same(i) <=> Unaltered(i)}
             rank == [i \in Index |-> i]
  <2>1. rank \in [Index -> Nat]
    BY <1>2
  <2>2. ASSUME NEW i \in Index, \A j \in Index : rank[j] < rank[i] => j \in U PROVE i \in U
    <3>1. \A j \in Index : InAtoms[j] \in ToSet(InAtoms[i].parents) => (Same(j) <=> Unaltered(j))
      <4> SUFFICES ASSUME NEW j \in Index, InAtoms[j] \in ToSet(InAtoms[i].parents) PROVE j \in U
        OBVIOUS
      <4>1. PICK k \in 1..(i - 1) : k \in Index /\ InAtoms[j] = InAtoms[k]
        BY <1>10
      <4>2. j = k /\ k < i
        BY <1>2, <1>4, <4>1
      <4> QED
        BY <2>2, <4>1, <4>2
    <3>2. Unaltered(i) <=> /\ ~ Rewritten(i)
                           /\ \A j \in Index : InAtoms[j] \in ToSet(InAtoms[i].parents) => Unaltered(j)
      BY <1>1, UnalteredStepwise
    <3> QED
      BY <1>15, <1>16, <3>1, <3>2
  <2>3. Index \subseteq U
    <3> HIDE DEF U, rank
    <3> QED
      BY <2>1, <2>2, RankInduction
  <2> QED
    BY <2>3
<1>18. ASSUME NEW i \in stay
       PROVE  \E b \in ToSet(ir.atoms) :
                 /\ b.source = InAtoms[i].source
                 /\ ~Touched(i) => b.status = InAtoms[i].status
                 /\ (b = InAtoms[i]) <=> Unaltered(i)
  <2>1. map[InAtoms[i]] \in ToSet(ir.atoms) /\ map[InAtoms[i]].source = InAtoms[i].source
    BY <1>6, <1>7, <1>8
  <2>2. ~Touched(i) => map[InAtoms[i]].status = InAtoms[i].status
    BY <1>13
  <2>3. (map[InAtoms[i]] = InAtoms[i]) <=> Unaltered(i)
    BY <1>17 DEF Same
  <2> QED
    BY <2>1, <2>2, <2>3
<1> QED
  BY <1>18 DEF LocalMarks, ir

\* However much of a history a session changes: every atom that was not removed
\* is there, one that the session left alone has the input's status, and ids
\* change exactly from what was changed downwards.
THEOREM FinishMarksLocally == Spec => []MarksStayLocal
PROOF
<1>1. Init => MarksStayLocal
  BY DEF Init, MarksStayLocal, Done, Open
<1>2. Inv /\ CopiesShrink /\ MarksStayLocal /\ [Next]_vars => MarksStayLocal'
  <2> SUFFICES ASSUME Inv, CopiesShrink, MarksStayLocal, [Next]_vars PROVE MarksStayLocal'
    OBVIOUS
  <2>1. ASSUME UNCHANGED <<input, work, removedAtoms>>, NEW ir
        PROVE  LocalMarks(ir) => (\A i \in Index \ removedAtoms :
                                    \E b \in ToSet(ir.atoms) :
                                       /\ b.source = InAtoms[i].source
                                       /\ ~Touched(i) => b.status = InAtoms[i].status
                                       /\ (b = InAtoms[i]) <=> Unaltered(i))'
    <3>1. InAtoms' = InAtoms /\ Index' = Index
      BY <2>1 DEF InAtoms, Index
    <3>2. ASSUME NEW i \in Index PROVE Touched(i)' <=> Touched(i)
      BY <2>1, <3>1 DEF Touched
    <3>3. ASSUME NEW i \in Index PROVE Rewritten(i)' <=> Rewritten(i)
      BY <3>1, <3>2 DEF Rewritten
    <3>4. ASSUME NEW i \in Index PROVE Unaltered(i)' <=> Unaltered(i)
      BY <3>1, <3>3 DEF Unaltered
    <3> QED
      BY <2>1, <3>1, <3>2, <3>4 DEF LocalMarks
  <2>2. CASE Finish
    <3> DEFINE new == Finished
    <3>1. outcome' = new /\ UNCHANGED <<input, work, removedAtoms>>
      BY <2>2 DEF Finish
    <3>2. new.kind = "done" => LocalMarks(new.ir)
      BY FinishIsLocal
    <3> HIDE DEF new
    <3> QED
      BY <2>1, <3>1, <3>2 DEF MarksStayLocal, Done
  <2>3. CASE UNCHANGED vars
    <3>1. UNCHANGED <<input, work, removedAtoms, outcome>>
      BY <2>3 DEF vars
    <3> QED
      BY <2>1, <3>1 DEF MarksStayLocal, Done, LocalMarks
  <2>4. CASE Next /\ ~ Finish
    <3>1. outcome' = Open
      BY <2>4 DEF Next, EditAtom, EditRef, SetMetadata, SetOpBlob, SetOpMode, MoveOp, RemoveOp, RemoveCopy,
                  RemoveAtom, SetAnnotation, RenameRef, RemoveRef, AddBlob, Editing
    <3> QED
      BY <3>1 DEF MarksStayLocal, Done, Open
  <2> QED
    BY <2>2, <2>3, <2>4
<1> QED
  BY <1>1, <1>2, InvHolds, CopiesShrinkHolds, PTL DEF Spec

-----------------------------------------------------------------------------
(* Any plugin.  Once judged, the output is not written any more, and the   *)
(* input is the one it was judged against.                                 *)

Judged ==
    /\ original \in InDrafts
    /\ Accepted => Readable(Out.ir) /\ Check(In, Out, Name)

LEMMA JudgedHolds == PluginSpec => []Judged
PROOF
<1>1. PluginInit => Judged
  BY DEF PluginInit, Judged, Accepted
<1>2. Judged /\ [PluginNext]_pluginVars => Judged'
  <2> SUFFICES ASSUME Judged, [PluginNext]_pluginVars PROVE Judged'
    OBVIOUS
  <2>1. \/ Judge \/ UNCHANGED pluginVars
        \/ original' = original /\ verdict' = verdict /\ verdict = "writing"
    BY DEF PluginNext, SetClaim, RewriteOp, LoseOp, InventOp, LoseCopy, InventCopy, RedirectCopy,
           Reparent, MarkAtom, ForgeStatus, LoseAtom, InventAtom, RewriteRef, LoseRef,
           InventRef, RecordDrop, EraseDrop, AlterRest, Change
  <2>2. CASE Judge
    BY <2>2 DEF Judge, Judged, Accepted, In, Out, InDigest
  <2>3. CASE UNCHANGED pluginVars
    BY <2>3 DEF Judged, Accepted, In, Out, InDigest, pluginVars
  <2>4. CASE original' = original /\ verdict' = verdict /\ verdict = "writing"
    BY <2>4 DEF Judged, Accepted
  <2> QED
    BY <2>1, <2>2, <2>3, <2>4
<1> QED
  BY <1>1, <1>2, PTL DEF PluginSpec

LEMMA AcceptedIsHonest ==
    ASSUME Judged, Accepted
    PROVE  /\ UnmarkedIsUnchanged(In.ir, Out.ir)
           /\ EveryLossIsNamed(In.ir, Out.ir)
           /\ EveryRecordHasAnOrigin(In.ir, Out.ir)
           /\ HistoryKept(In.ir, Out.ir)
           /\ AncestryKept(In.ir, Out.ir)
PROOF
<1> DEFINE in == In
           out == Out
<1>1. Readable(in.ir) /\ Readable(out.ir) /\ Check(in, out, Name)
  BY InputIsReadable DEF Judged, In
<1> HIDE DEF in, out
<1>2. /\ UnmarkedIsUnchanged(in.ir, out.ir) /\ EveryLossIsNamed(in.ir, out.ir)
      /\ EveryRecordHasAnOrigin(in.ir, out.ir) /\ HistoryKept(in.ir, out.ir)
      /\ AncestryKept(in.ir, out.ir)
  BY <1>1, CheckIsSound
<1> QED
  BY <1>2 DEF in, out

\* Whatever program wrote the output: if check accepts it, what bears no mark of
\* the step is the input's own.
THEOREM AcceptedIsMarked == PluginSpec => []AcceptedMarksChanges
PROOF
<1>1. Judged => AcceptedMarksChanges
  BY AcceptedIsHonest DEF AcceptedMarksChanges
<1> QED
  BY <1>1, JudgedHolds, PTL

\* If check accepts it, an atom or a copy is gone only under a drop that names it,
\* and the operations and the refs can be traced to the input so that each one
\* left over has a drop that names it.
THEOREM AcceptedLossesAreNamed == PluginSpec => []AcceptedNamesLosses
PROOF
<1>1. Judged => AcceptedNamesLosses
  BY AcceptedIsHonest DEF AcceptedNamesLosses
<1> QED
  BY <1>1, JudgedHolds, PTL

\* If check accepts it, every record has one of the input to itself, and what kept
\* its place differs from it in the parts its mark names and in no other.
THEOREM AcceptedRecordsHaveOrigins == PluginSpec => []AcceptedHasOrigins
PROOF
<1>1. Judged => AcceptedHasOrigins
  BY AcceptedIsHonest DEF AcceptedHasOrigins
<1> QED
  BY <1>1, JudgedHolds, PTL

\* If check accepts it, the chain, the drops, the flags and the provenance of the
\* input are in it, and so is the status under each mark of what kept its place.
THEOREM AcceptedHasItsHistory == PluginSpec => []AcceptedKeepsHistory
PROOF
<1>1. Judged => AcceptedKeepsHistory
  BY AcceptedIsHonest DEF AcceptedKeepsHistory
<1> QED
  BY <1>1, JudgedHolds, PTL

\* If check accepts it, the atoms that stay have the ancestors they had.
THEOREM AcceptedHasItsAncestry == PluginSpec => []AcceptedKeepsAncestry
PROOF
<1>1. Judged => AcceptedKeepsAncestry
  BY AcceptedIsHonest DEF AcceptedKeepsAncestry
<1> QED
  BY <1>1, JudgedHolds, PTL
=============================================================================
