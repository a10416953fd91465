-------------------------- MODULE TransformHonesty --------------------------
(***************************************************************************)
(* What transform::check keeps out.  A transform is a program brygge did   *)
(* not write: it reads the input artifact and writes any artifact the      *)
(* reader accepts.  Here the output starts as the honest no-op step on one *)
(* of the inputs and is changed one record at a time, in any order, marked *)
(* or not, over a true or a forged earlier status, recorded or not.        *)
(* Whatever Check accepts must keep the promises of HonestStep.            *)
(***************************************************************************)
EXTENDS TransformCheck, HonestStep, TransformValues

CONSTANTS
    InDrafts,     \* the input artifacts, their atoms as drafts
    AtomMarks,    \* sets of parts an atom may be marked with
    OpMarks,      \* the same for an operation
    RefMarks,     \* the same for a ref
    MaxChanges    \* model bound: how many records the plugin changes

VARIABLES
    original, \* the input, one of InDrafts
    draft,    \* the output, its atoms as drafts at the input's positions
    changes,  \* how many records were changed (bounded by MaxChanges)
    verdict   \* what became of the output: "writing", then "accepted" or "refused"

pluginVars == <<original, draft, changes, verdict>>

InDigest == "digest of the input"
In  == [ir |-> Assemble(original), digest |-> InDigest]
Out == [ir |-> Assemble(draft),    digest |-> "digest of the output"]
InAtom == AtomsOf(original.atoms)
PluginStep == Len(original.chain)

NoOpDraft ==
    [original EXCEPT !.chain = Append(@, [name |-> Name, consumed |-> InDigest])]

\* The CLI has read the input before the plugin runs.
ASSUME InputIsReadable ==
    /\ MaxChanges \in Nat
    /\ \A d \in InDrafts : Readable(Assemble(d))

PluginInit ==
    /\ original \in InDrafts
    /\ draft = NoOpDraft
    /\ changes = 0
    /\ verdict = "writing"

Change(newDraft) ==
    /\ verdict = "writing"
    /\ changes < MaxChanges
    /\ changes' = changes + 1
    /\ draft' = newDraft
    /\ UNCHANGED <<original, verdict>>

Atoms == DOMAIN draft.atoms

-----------------------------------------------------------------------------
(* One atom: its claims, operations, copies, parents and status.           *)

WithAtom(i, atom) == [draft EXCEPT !.atoms[i] = atom]

\* A mark of the step, over the record's own status or over a forged one (an
\* atom takes two changes for that: ForgeStatus, then MarkAtom).
Forged == Stated("derived")
Marked(status, marks) ==
    {Transformed(PluginStep, parts, prior) : parts \in marks, prior \in {status, Forged}}

SetClaim(i) ==
    \E part \in DOMAIN draft.atoms[i].meta, value \in MetaValues :
        Change(WithAtom(i, [draft.atoms[i] EXCEPT !.meta[part] = value]))

RewrittenOp(op) ==
    {[op EXCEPT !.blob = b] : b \in Blobs}
      \cup {[op EXCEPT !.mode = m] : m \in Modes}
      \cup {[op EXCEPT !.path = p] : p \in PathNames}
      \cup {[op EXCEPT !.kind = kind] : kind \in {"Add", "Replace"}}
      \cup {[op EXCEPT !.status = new] : new \in Marked(op.status, OpMarks)}
      \cup {[op EXCEPT !.status = Forged]}

RewriteOp(i) ==
    \E op \in draft.atoms[i].ops : \E new \in RewrittenOp(op) :
        /\ new.path \notin Paths(draft.atoms[i].ops \ {op})
        /\ Change(WithAtom(i, [draft.atoms[i] EXCEPT !.ops = (@ \ {op}) \cup {new}]))

LoseOp(i) ==
    \E op \in draft.atoms[i].ops :
        Change(WithAtom(i, [draft.atoms[i] EXCEPT !.ops = @ \ {op}]))

InventOp(i) ==
    \E path \in PathNames \ Paths(draft.atoms[i].ops), b \in Blobs, m \in Modes :
        Change(WithAtom(i, [draft.atoms[i] EXCEPT !.ops = @ \cup
            {[kind |-> "Add", path |-> path, blob |-> b, mode |-> m,
              status |-> Transformed(PluginStep, {"path"}, Stated("stated"))]}]))

LoseCopy(i) ==
    \E copy \in draft.atoms[i].copies :
        Change(WithAtom(i, [draft.atoms[i] EXCEPT !.copies = @ \ {copy}]))

\* A second copy to one destination: the reader accepts it.
InventCopy(i) ==
    \E copy \in draft.atoms[i].copies, from \in PathNames :
        Change(WithAtom(i, [draft.atoms[i] EXCEPT !.copies = @ \cup {[copy EXCEPT !.from = from]}]))

RedirectCopy(i) ==
    \E copy \in draft.atoms[i].copies, j \in {n \in Atoms : n < i} :
        Change(WithAtom(i, [draft.atoms[i] EXCEPT !.copies =
            (@ \ {copy}) \cup {[copy EXCEPT !.fromAtom = j]}]))

Reparent(i) ==
    \E parents \in UNION {[1..n -> {j \in Atoms : j < i}] : n \in 0..2} :
        Change(WithAtom(i, [draft.atoms[i] EXCEPT !.parents = parents]))

MarkAtom(i) ==
    \E parts \in AtomMarks :
        Change(WithAtom(i, [draft.atoms[i] EXCEPT !.status = Transformed(PluginStep, parts, @)]))

ForgeStatus(i) ==
    Change(WithAtom(i, [draft.atoms[i] EXCEPT !.status = Forged]))

-----------------------------------------------------------------------------
(* Atoms as a whole.  Losing one re-parents its children, as `Edit` would, *)
(* and is possible only while nothing else of the output names it.         *)

Inherit(parents, i) ==
    FirstOccurrences(FlattenSeq(
        [n \in DOMAIN parents |-> IF parents[n] = i THEN draft.atoms[i].parents
                                  ELSE <<parents[n]>>]))

LoseAtom(i) ==
    /\ \A rf \in draft.refs : rf.target # i
    /\ \A j \in Atoms : \A copy \in draft.atoms[j].copies : copy.fromAtom # i
    /\ Change([draft EXCEPT !.atoms =
           [j \in Atoms \ {i} |->
               [draft.atoms[j] EXCEPT !.parents = Inherit(@, i)]]])

InventAtom ==
    LET next == Cardinality(DOMAIN original.atoms) + 1 IN
    \E i \in Atoms : \E source \in {draft.atoms[i].source, 99} :
        LET new == [draft.atoms[i] EXCEPT !.source = source, !.meta = [part \in DOMAIN @ |-> "m9"]]
        IN  Change([draft EXCEPT !.atoms =
                [j \in Atoms \cup {next} |-> IF j = next THEN new ELSE draft.atoms[j]]])

-----------------------------------------------------------------------------
(* Refs, drops, and everything that passes through.                        *)

RewrittenRef(rf) ==
    {[rf EXCEPT !.name = name] : name \in RefNames}
      \cup {[rf EXCEPT !.target = i] : i \in Atoms}
      \cup {[rf EXCEPT !.annotation = note] : note \in Annotations}
      \cup {[rf EXCEPT !.status = new] : new \in Marked(rf.status, RefMarks)}

RewriteRef ==
    \E rf \in draft.refs : \E new \in RewrittenRef(rf) :
        /\ OneRefPerKey((draft.refs \ {rf}) \cup {new})
        /\ Change([draft EXCEPT !.refs = (@ \ {rf}) \cup {new}])

LoseRef == \E rf \in draft.refs : Change([draft EXCEPT !.refs = @ \ {rf}])

InventRef ==
    \E rf \in draft.refs, name \in RefNames :
        LET new == [rf EXCEPT !.name = name, !.status = Transformed(PluginStep, {"name"}, @)] IN
        /\ OneRefPerKey(draft.refs \cup {new})
        /\ Change([draft EXCEPT !.refs = @ \cup {new}])

Subjects ==
    {<<"atom", InAtom[i]>> : i \in DOMAIN InAtom}
      \cup (UNION {{<<"op", InAtom[i], path>> : path \in Paths(InAtom[i].ops)} : i \in DOMAIN InAtom})
      \cup (UNION {{<<"copy", InAtom[i], c.to>> : c \in InAtom[i].copies} : i \in DOMAIN InAtom})
      \cup {<<"ref">> \o key : key \in RefKeys(original)}

RecordDrop ==
    \E what \in Subjects :
        Change([draft EXCEPT !.drops = @ \cup
            {[class |-> "Transform", step |-> {PluginStep}, what |-> what]}])

EraseDrop == \E d \in draft.drops : Change([draft EXCEPT !.drops = @ \ {d}])

AlterRest ==
    \/ Change([draft EXCEPT !.flags = {}])
    \/ Change([draft EXCEPT !.prov = "another source"])
    \/ Change([draft EXCEPT !.chain = Append(@, [name |-> Name, consumed |-> InDigest])])
    \/ \E n \in DOMAIN draft.chain : Change([draft EXCEPT !.chain[n].consumed = "another digest"])

-----------------------------------------------------------------------------
(* The CLI reads the output and checks it (run_transform in commands.rs).  *)

Judge ==
    /\ verdict = "writing"
    /\ verdict' = IF Readable(Out.ir) /\ Check(In, Out, Name) THEN "accepted" ELSE "refused"
    /\ UNCHANGED <<original, draft, changes>>

-----------------------------------------------------------------------------
PluginNext ==
    \/ Judge
    \/ \E i \in Atoms :
          \/ SetClaim(i) \/ RewriteOp(i) \/ LoseOp(i) \/ InventOp(i) \/ LoseCopy(i)
          \/ InventCopy(i) \/ RedirectCopy(i) \/ Reparent(i) \/ MarkAtom(i) \/ ForgeStatus(i) \/ LoseAtom(i)
    \/ InventAtom \/ RewriteRef \/ LoseRef \/ InventRef
    \/ RecordDrop \/ EraseDrop \/ AlterRest

PluginSpec == PluginInit /\ [][PluginNext]_pluginVars

-----------------------------------------------------------------------------
(* Properties.                                                             *)

Accepted == verdict = "accepted"

\* "Accepts an output artifact as an honest transform of an input one only if
\* every change is marked ..." (transform.rs): an atom, operation or ref that
\* bears no mark of this step is the input's own.
AcceptedMarksChanges == Accepted => UnmarkedIsUnchanged(In.ir, Out.ir)

\* "... and every removal is recorded": an atom or a copy is gone only with a
\* drop that names it, and what is left of the operations of an atom, and of the
\* refs, can be traced to the input so that every one nothing is traced to has a
\* drop that names it.  A drop that names what is still there excuses nothing.
AcceptedNamesLosses == Accepted => EveryLossIsNamed(In.ir, Out.ir)

\* A transform may not "invent an atom, an op, or a ref that has no counterpart in
\* the input" (section 1 of writing-a-transform.md): every record of the output has
\* one of the input to itself, and what kept its place is what it was but for the
\* parts its mark names.  What a moved operation or a renamed ref holds is not
\* compared, by check or here.
AcceptedHasOrigins == Accepted => EveryRecordHasAnOrigin(In.ir, Out.ir)

\* The earlier part of the chain, the earlier drops, the flags and the provenance
\* are what they were, and so is the status under each mark of an atom, of an
\* operation that kept its path and of a ref that kept its kind and name.
AcceptedKeepsHistory == Accepted => HistoryKept(In.ir, Out.ir)

\* Whatever was removed, the atoms that stay have the ancestors they had.
AcceptedKeepsAncestry == Accepted => AncestryKept(In.ir, Out.ir)

\* "Only if every change is marked" (transform.rs), for the target of a ref: one
\* not marked as retargeted points at an atom a ref of its kind pointed at.
RetargetsAreMarked ==
    Accepted => \A rf \in Out.ir.refs :
        \/ MarkNames(rf.status, PluginStep, {"target"})
        \/ \E was \in In.ir.refs : was.kind = rf.kind /\ was.target.source = rf.target.source
=============================================================================
