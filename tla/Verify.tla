------------------------------- MODULE Verify -------------------------------
(***************************************************************************)
(* `verify` (crates/brygge/src/commands.rs): an artifact is read back and  *)
(* put to the internal checks, its operations are replayed with no more    *)
(* trees in memory than are still needed, and with --against-source it is  *)
(* compared with what the source decodes to now.                           *)
(*                                                                         *)
(* What is verified is the artifact a decoder made of `input`, against the *)
(* same source; or, when the kind of `input` is "artifact", the file       *)
(* `input.ir`, against `input.now`: the form the source has now and what   *)
(* it decodes to, if it decodes.                                           *)
(***************************************************************************)
EXTENDS Decoding

VARIABLES
    artifact,   \* what was read, if it could be
    replay,     \* replay_ir: the atoms replayed, the uses of each tree to come, the trees kept
    results,    \* the outcome of each check
    against     \* AgainstSourceOutcome

verifyVars == <<artifact, replay, results, against>>

NoReplay == [at |-> 0, uses |-> EmptyTree, trees |-> EmptyTree]

VerifyIdle ==
    artifact = {} /\ replay = NoReplay /\ results = EmptyTree /\ against = "not-run"

CheckNames == {"integrity", "structure", "replay", "derivations", "source-invariants", "provenance",
               "loss-boundary"}

File == IF input.kind = "artifact" THEN input.ir ELSE Artifact

(* What the source decodes to when it is read again.                       *)
SourceNow ==
    IF input.kind = "artifact" THEN input.now
    ELSE [form |-> Artifact.prov.form, result |-> {Artifact}]

Ir == OneOf(artifact)

-----------------------------------------------------------------------------
(* check_structure.                                                        *)
IsStructured(ir) ==
    /\ \A n \in DOMAIN ir.atoms :
          /\ ToSet(ir.atoms[n].parents) \subseteq Earlier(ir.atoms, n)
          /\ ir.atoms[n] \notin Earlier(ir.atoms, n)
          /\ \A o1, o2 \in ir.atoms[n].ops : o1.path = o2.path => o1 = o2
    /\ \A r \in ir.refs : r.target \in ToSet(ir.atoms)
    /\ OneRefPerKey(ir.refs)

-----------------------------------------------------------------------------
(* replay_ir.  A tree is the set of its paths; an atom is named by its     *)
(* place.                                                                  *)

PlaceOf(atom) == CHOOSE n \in DOMAIN Ir.atoms : Ir.atoms[n] = atom

FirstParent(n) == {PlaceOf(p) : p \in {Ir.atoms[n].parents[k] : k \in DOMAIN Ir.atoms[n].parents \cap {1}}}

CopiesFrom(n, source) == {c \in Ir.atoms[n].copies : PlaceOf(c.fromAtom) = source}

(* Seeded mistake: only the uses as a first parent are counted.            *)
UsesAsParent(source) == Cardinality({n \in DOMAIN Ir.atoms : source \in FirstParent(n)})

UsesToCome(source) ==
    Cardinality({n \in DOMAIN Ir.atoms : source \in FirstParent(n)})
    + Cardinality(UNION {{n} \X CopiesFrom(n, source) : n \in DOMAIN Ir.atoms})

Fits(op, paths) == op.kind = "Add" <=> op.path \notin paths

PathsAfter(paths, ops) ==
    (paths \cup {o.path : o \in ops}) \ {o.path : o \in {x \in ops : x.kind = "Delete"}}

Outcome(passes) == IF passes THEN "pass" ELSE "fail"

\* Outcomes beside those already there.
Note(outcomes) ==
    results' = [c \in DOMAIN results \cup DOMAIN outcomes |->
                   IF c \in DOMAIN outcomes THEN outcomes[c] ELSE results[c]]

Pass(check, passes) == Note([c \in {check} |-> Outcome(passes)])

(* One atom: its first parent's tree is taken, or copied while something   *)
(* later needs it; its copies are checked before its operations.           *)
ReplayAtom ==
    /\ stage = "verify replay" /\ replay.at < Len(Ir.atoms)
    /\ LET n      == replay.at + 1
           first  == FirstParent(n)
           atom   == Ir.atoms[n]
           start  == IF first \subseteq DOMAIN replay.trees
                     THEN UNION {replay.trees[p] : p \in first} ELSE {}
           Used(s) == IF s \in first THEN 1 ELSE Cardinality(CopiesFrom(n, s))
           uses   == [s \in DOMAIN replay.uses |-> replay.uses[s] - Used(s)]
           TreeAt(s) == IF s \in first THEN start ELSE replay.trees[s]
           sources == {PlaceOf(c.fromAtom) : c \in atom.copies}
           sound  == /\ first \cup sources \subseteq DOMAIN replay.trees
                     /\ \A c \in atom.copies : c.from \in TreeAt(PlaceOf(c.fromAtom))
                     /\ \A o \in atom.ops : Fits(o, start)
       IN  \/ /\ ~sound
              /\ Pass("replay", FALSE) /\ Goto("verify checks") /\ UNCHANGED replay
           \/ /\ sound
              /\ replay' = [at |-> n, uses |-> uses,
                            trees |-> [s \in {k \in DOMAIN replay.trees \cup {n} : uses[k] > 0} |->
                                          IF s = n THEN PathsAfter(start, atom.ops) ELSE replay.trees[s]]]
              /\ Goto("verify replay") /\ UNCHANGED results
    /\ UNCHANGED <<builder, artifact, against>>

ReplayEnds ==
    /\ stage = "verify replay" /\ replay.at = Len(Ir.atoms)
    /\ Pass("replay", TRUE) /\ Goto("verify checks")
    /\ UNCHANGED <<builder, artifact, replay, against>>

-----------------------------------------------------------------------------
(* check_derivations: "Underspecified" is a derivation that lacks what its *)
(* kind requires, under whatever layers.                                   *)
AllStatuses(ir) ==
    {a.status : a \in ToSet(ir.atoms)} \cup {r.status : r \in ir.refs}
    \cup UNION {{x.status : x \in a.ops \cup a.copies} : a \in ToSet(ir.atoms)}

DerivationsAreWhole(ir) == \A s \in AllStatuses(ir) : s.base # "Underspecified"

(* check_source_invariants, through innermost_status.  (The kind of source *)
(* that each atom repeats is not represented.)                             *)
IsDerivedAtHeart(status) == status.base # "Stated"

KnownKinds == {"git", "hg", "svn", "cvs"}

KeepsSourceInvariants(ir) ==
    LET kind == ir.prov.kind
        all  == ToSet(ir.atoms)
    IN  /\ ir.prov.decoder = kind
        /\ kind = "cvs" =>
              /\ \A a \in all : a.status.base \in {"ReconstructedChangeset", "ReconstructedBranch"} /\ a.copies = {}
              /\ \A r \in ir.refs : IsDerivedAtHeart(r.status)
        /\ kind = "svn" =>
              /\ \A a \in all : ~IsDerivedAtHeart(a.status) /\ Len(a.parents) <= 1
              /\ \A r \in ir.refs : r.status.base = "ReconstructedBranch"
        /\ kind = "git" => \A a \in all : \A c \in a.copies : IsDerivedAtHeart(c.status)
        /\ kind = "hg" => \A a \in all : Len(a.parents) <= 2

-----------------------------------------------------------------------------
(* compute_internal_checks.                                                *)

VerifyArtifact ==
    /\ stage \in {"done", "verify read"}
    /\ LET file == File IN
       \/ /\ ~Readable(file)
          /\ results' = [c \in CheckNames |-> IF c = "integrity" THEN "fail" ELSE "not-checked"]
          /\ Goto("verify source") /\ UNCHANGED <<artifact, replay>>
       \/ /\ Readable(file)
          /\ artifact' = {file}
          /\ results' = [c \in {"integrity", "structure"} |->
                            Outcome(c = "structure" => IsStructured(file))]
          /\ Goto("verify begin") /\ UNCHANGED replay
    /\ UNCHANGED <<builder, against>>

ReplayBegins ==
    /\ stage = "verify begin"
    /\ replay' = [NoReplay EXCEPT !.uses = [s \in DOMAIN Ir.atoms |-> UsesToCome(s)]]
    /\ Goto("verify replay")
    /\ UNCHANGED <<builder, artifact, results, against>>

RunChecks ==
    /\ stage = "verify checks"
    /\ Note([c \in {"derivations", "source-invariants", "provenance", "loss-boundary"} |->
                CASE c = "derivations" -> Outcome(DerivationsAreWhole(Ir))
                  [] c = "source-invariants" -> IF Ir.prov.kind \notin KnownKinds THEN "not-checked"
                                                ELSE Outcome(KeepsSourceInvariants(Ir))
                  [] c = "provenance" -> Outcome(Ir.prov.whole)
                  [] c = "loss-boundary" -> Outcome(\A d \in Ir.drops : d.what # "")])
    /\ Goto("verify source")
    /\ UNCHANGED <<builder, artifact, replay, against>>

-----------------------------------------------------------------------------
(* run_against_source.                                                     *)

(* align_svnadmin_version and Ir::restamped: the tools' versions of one    *)
(* artifact put into another.  (The version a derivation names is not      *)
(* represented; it is replaced with the rest.)                             *)
Relabelled(ir, model) ==
    [ir EXCEPT !.prov.tool = model.prov.tool, !.prov.brygge = model.prov.brygge]

\* svn_source_form_mismatch: a source that is not there has no form.
FormsDiffer(ir, now) ==
    ir.prov.kind = "svn" /\ now.form # "absent" /\ ir.prov.form # "unrecorded" /\ now.form # ir.prov.form

(* Seeded mistake: a difference is a mismatch whichever brygge made it.    *)
AnyDifference(ir, again, agree, words) == IF agree THEN words.good ELSE words.bad

\* A difference between two versions of brygge shows nothing.
Judged(ir, again, agree, words) ==
    IF agree THEN words.good
    ELSE IF ir.prov.brygge # again.prov.brygge THEN "not-checked" ELSE words.bad

run_against_source(ir, now) ==
    LET again == OneOf(now.result)
        same  == Relabelled(again, ir)
        words == IF ir.prov.kind = "cvs"
                 THEN [good |-> IF ir.chain = <<>> THEN "reproduces" ELSE "root-reproduces",
                       bad |-> "does-not-reproduce"]
                 ELSE [good |-> IF ir.chain = <<>> THEN "corresponds" ELSE "root-corresponds",
                       bad |-> "does-not-correspond"]
    IN  IF ir.prov.kind \notin KnownKinds \/ FormsDiffer(ir, now) \/ now.result = {} THEN "not-checked"
        ELSE IF ir.chain # <<>> THEN Judged(ir, again, ir.chain[1].consumed = same, words)
        ELSE Judged(ir, again, ir = same, words)

(* run_verify without and with --against-source.                           *)
CompareWithSource ==
    /\ stage = "verify source"
    /\ \/ UNCHANGED against
       \/ against' = IF artifact = {} THEN "not-checked" ELSE run_against_source(Ir, SourceNow)
    /\ Goto("verified")
    /\ UNCHANGED <<builder, artifact, replay, results>>

InternalPass == \A c \in DOMAIN results : results[c] # "fail"

IsMismatch == against \in {"does-not-correspond", "does-not-reproduce"}

Verdict ==
    IF ~InternalPass \/ IsMismatch THEN "fail"
    ELSE IF against = "not-checked" THEN "incomplete" ELSE "pass"

VerifyNext ==
    VerifyArtifact \/ ReplayBegins \/ ReplayAtom \/ ReplayEnds \/ RunChecks \/ CompareWithSource

-----------------------------------------------------------------------------
(* Properties.                                                             *)

(* The trees of an artifact without any bookkeeping, and whether all its   *)
(* operations and copies fit them.                                         *)
PlainTrees(ir) ==
    LET trees[n \in DOMAIN ir.atoms] ==
          LET start == IF ir.atoms[n].parents = <<>> THEN {}
                       ELSE trees[CHOOSE k \in DOMAIN ir.atoms : ir.atoms[k] = ir.atoms[n].parents[1]]
          IN  PathsAfter(start, ir.atoms[n].ops)
    IN  trees

PlainlySound(ir) ==
    LET trees == PlainTrees(ir)
        Of(atom) == trees[CHOOSE k \in DOMAIN ir.atoms : ir.atoms[k] = atom]
    IN  \A n \in DOMAIN ir.atoms :
          LET atom  == ir.atoms[n]
              start == IF atom.parents = <<>> THEN {} ELSE Of(atom.parents[1])
          IN  /\ \A c \in atom.copies : c.from \in Of(c.fromAtom)
              /\ \A o \in atom.ops : (o.kind = "Add") # (o.path \in start)

(* A tree is kept as long as an atom to come starts from it or copies from *)
(* it, and is the tree it should be; and the replay passes exactly where a *)
(* replay that keeps everything does.  (It may be kept longer: a copy from *)
(* an atom's own first parent is counted and never taken off.)             *)
ReplayIsExact ==
    /\ stage = "verify replay" =>
          LET trees == PlainTrees(Ir)
              Asked(n) == FirstParent(n) \cup {PlaceOf(c.fromAtom) : c \in Ir.atoms[n].copies}
              coming == UNION {Asked(n) : n \in (replay.at + 1)..Len(Ir.atoms)}
          IN  /\ coming \cap 1..replay.at \subseteq DOMAIN replay.trees
              /\ \A s \in DOMAIN replay.trees : replay.trees[s] = trees[s]
              /\ \A s \in DOMAIN replay.trees \ coming :
                    \E n \in 1..replay.at : s \in FirstParent(n) /\ CopiesFrom(n, s) # {}
    /\ (stage = "verified" /\ artifact # {}) => (results["replay"] = "pass" <=> PlainlySound(Ir))

History(ir) == <<ir.atoms, ir.refs, ir.drops, ir.flags, ir.content, ir.chain, ir.prov.kind, ir.prov.form>>

(* What verify says is what there is.  Every artifact a decoder makes      *)
(* passes, and corresponds to its source.  It passes against a source only *)
(* when the history is that of the source, or begins with it; and it       *)
(* claims a mismatch only of another history, never across versions of     *)
(* brygge, forms of a source, or what could not be decoded.                *)
VerdictIsFair ==
    stage = "verified" =>
        LET begun == IF Ir.chain = <<>> THEN Ir ELSE Ir.chain[1].consumed
            agree == \E again \in SourceNow.result : History(begun) = History(again)
        IN  /\ input.kind # "artifact" =>
                  Verdict = "pass" /\ against \in {"not-run", "corresponds", "reproduces"}
            /\ Verdict = "pass" /\ against # "not-run" => agree
            /\ IsMismatch =>
                  /\ SourceNow.result # {} /\ ~agree
                  /\ \A again \in SourceNow.result : again.prov.brygge = Ir.prov.brygge
                  /\ Ir.prov.form \in {SourceNow.form, "unrecorded"}
=============================================================================
