------------------------------- MODULE Import -------------------------------
(***************************************************************************)
(* One run of `decode` on one source, and `verify --against-source` on the *)
(* artifact it wrote (crates/brygge/src/commands.rs): decode_source picks  *)
(* the decoder by the kind of the source; the other decoders do nothing.   *)
(***************************************************************************)
EXTENDS GitDecode, HgDecode, SvnDecode, CvsDecode, Verify

CONSTANT Sources    \* what may be decoded or verified

ASSUME SourceKinds ==
    \A source \in Sources : source.kind \in {"git", "hg", "svn", "cvs", "artifact"}

ASSUME SourcePrograms ==
    \A source \in Sources : source.kind = "svn" => IsProgram(source.program)

ASSUME SourceDumps ==
    \A source \in Sources : source.kind = "svn" => IsDump(source)

ASSUME SourceRepositories ==
    \A source \in Sources : source.kind = "git" => IsRepository(source)

ASSUME SourceStores ==
    \A source \in Sources : source.kind = "hg" => IsStore(source)

vars == <<decoding, gitVars, hgVars, svnVars, captureVars, cvsVars, verifyVars>>

(* decode_source; an artifact is only verified.                            *)
Begin(kind) ==
    CASE kind = "git" -> "git open"
      [] kind = "hg" -> "hg open"
      [] kind = "svn" -> "svn load"
      [] kind = "cvs" -> "cvs open"
      [] kind = "artifact" -> "verify read"

Init ==
    \E source \in Sources :
        /\ DecodingInit(source, Begin(source.kind))
        /\ GitIdle /\ HgIdle /\ SvnIdle /\ CvsIdle /\ VerifyIdle
        /\ CaptureInit(IF source.kind = "svn" THEN source.program ELSE NoProgram)

Decoder ==
    \/ GitNext /\ UNCHANGED <<hgVars, svnVars, captureVars, cvsVars, verifyVars>>
    \/ HgNext /\ UNCHANGED <<gitVars, svnVars, captureVars, cvsVars, verifyVars>>
    \/ SvnStep /\ UNCHANGED <<gitVars, hgVars, cvsVars, verifyVars>>
    \/ CvsNext /\ UNCHANGED <<gitVars, hgVars, svnVars, captureVars, verifyVars>>

Verifier == VerifyNext /\ UNCHANGED <<gitVars, hgVars, svnVars, captureVars, cvsVars>>

Reader == DecoderReads /\ UNCHANGED <<gitVars, hgVars, cvsVars, verifyVars>>

Thread == ThreadRuns /\ UNCHANGED <<gitVars, hgVars, cvsVars, verifyVars>>

Child == ChildRuns /\ UNCHANGED <<gitVars, hgVars, cvsVars, verifyVars>>

Next == Decoder \/ Verifier \/ Reader \/ Thread \/ Child

(* Each of the three processes of a capture runs on; nothing is assumed of *)
(* the order in which they do.                                             *)
Captures == Captured /\ UNCHANGED <<captureVars, gitVars, hgVars, cvsVars, verifyVars>>

Spec ==
    /\ Init /\ [][Next]_vars
    /\ WF_vars(Reader) /\ WF_vars(Captures) /\ WF_vars(Thread) /\ WF_vars(Child)

-----------------------------------------------------------------------------
(* The type invariant of every part.                                       *)
TypeOK ==
    /\ builder.atoms = <<>> => builder.refs = {}
    /\ stage = "failed" <=> failure # NoFailure
    /\ \A n \in DOMAIN builder.atoms : ToSet(builder.atoms[n].parents) \subseteq 1..(n - 1)
    /\ GitTypeOK /\ HgTypeOK /\ SvnTypeOK /\ CvsTypeOK
    /\ Cardinality(artifact) <= 1 /\ DOMAIN results \subseteq CheckNames

(* The same question asked of each decoder of revisions that can be        *)
(* verified: exactly the sources are imported that are whole.              *)
RefusesExactly == GitRefusesExactly /\ HgRefusesExactly

(* What they import is the source's history.                               *)
HistoryExact == GitHistoryExact /\ HgHistoryExact

(* And nothing is left out without being counted.                          *)
LossAccounts == GitLossAccounts /\ HgLossAccounts /\ CvsLossAccounts

(* Whatever svnadmin writes to its two pipes, however much of it, and      *)
(* however the decoder, its thread and the child take turns, the capture   *)
(* comes to its end: no two of them wait for one another.                  *)
CaptureEnds == stage = "svn capture" ~> stage # "svn capture"
=============================================================================
