------------------------------ MODULE MCImport ------------------------------
(***************************************************************************)
(* Import on small sources of every kind.                                  *)
(***************************************************************************)
EXTENDS Import, GitSamples, HgSamples, SvnSamples, CvsSamples, VerifySamples

TheSources == TheGitRepos \cup TheHgRepos \cup TheSvnSources \cup TheCvsSources \cup TheArtifacts

=============================================================================
