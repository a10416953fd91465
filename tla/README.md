# A verification of brygge in TLA+

brygge reads a version-control repository (git, Mercurial, Subversion or CVS), writes what it
found as one *artifact* in an intermediate representation (IR), and lets independent programs
transform artifacts and encode them for another system. Its promise is *honesty*: whatever an
artifact does not say as the source did is marked, and whatever was left out is recorded. This
directory holds TLA+ models of the parts of brygge where that promise is decided, TLC runs that
check them on small instances, and TLAPS proofs of the main results for every instance.

Contents: [1 the system](#1-the-system), [2 the modules](#2-the-modules),
[3 the runs](#3-the-runs), [4 the proofs](#4-the-proofs),
[5 where code and documentation disagree](#5-where-code-and-documentation-disagree),
[6 what is not modelled](#6-what-is-not-modelled), [7 the plan](#7-the-plan).

## 1. The system

| Component (crate or file) | State it keeps | Operations | Hard parts | What makes it correct |
|---|---|---|---|---|
| `brygge-ir` model, builder, status | an artifact under construction: atoms in insertion order, refs, drops, flags, steps | `add_atom`, `add_ref`, ..., `finish` | ids are hashes that contain the parents' ids; canonical order; nested statuses | parents come first, one ref per (kind, name), marks name steps that exist |
| `brygge-ir` transform `Edit` | a working copy of an artifact, removals, edits of refs | setters, `move_op`, `remove_*`, `rename_ref`, `finish` | any order of calls; ids of everything downstream change; marks come from a difference | the output is an honest step from the input, or refused |
| `brygge-ir` transform `check` | none (a predicate on two artifacts) | `check` | matching by identity, by path and by key; parents through removed atoms; earlier steps | accepts only honest steps |
| `brygge-ir` artifact codec, content store, spill file | frames, an index per blob, a cache of eight frames, a spill file | insert, get, retain, write, read | partial appends, eviction, files that change while they are read, parallel compression | every blob read is the blob named, or an error |
| `brygge-decode-hg` | phases, visibility, the served set, revlogs, atoms, refs | gate, phase pass, visibility pass, closure check, import, refs | revision order, secrets, obsolescence, delta chains, copies that name no commit, damaged stores | the imported view is exactly what Mercurial would publish, every byte of it verified |
| `brygge-decode-git` | an object database, the refs scanned, a cache of trees with the uses still to come | gate, ref scan, walk, import, refs | tags of tags, commits only a dropped ref reaches, trees released too early or never | each commit's tree is the tree it names; what is refused and what is counted is complete |
| `brygge-decode-svn` | the dump, a live tree, the trees copies will ask for, a budget; a child process and a thread | load, capture, parse, apply a node, end a revision, refs | deltas, replacements and copies in one revision; two pipes and one reader | an atom's operations replay to the tree of its revision; a capture ends and is whole |
| `brygge-decode-cvs` | files with their revisions, branches resolved, clusters, lines built | walk, gather, cluster, plan, build, refs | clocks that disagree, files cut at different points, branches cut from branches | each line has, after each atom, what CVS has on it |
| `brygge` verify | an artifact, the trees of a replay, outcomes | internal checks, replay, comparison with the source | trees released while something still needs them; sources that changed | passes what a decoder made; claims a mismatch only of another history |
| `brygge` commands | files: the artifact, the output, a temporary file; child processes | `decode`, `transform`, `encode`, `inspect` | concurrent runs, kills, power loss, plugins that misbehave | an output is a whole accepted artifact or what it was before |

How they interact. `decode` drives a decoder, which fills an `IrBuilder`; the finished IR is
written to a temporary file that replaces the output. `transform` checks an artifact, runs an
external plugin on it and reads back what the plugin wrote. The plugin is usually built on `Edit`,
but need not be: brygge trusts only the internal checks and `check`. `encode` checks an artifact and
runs a plugin on it. Between processes there is no lock, only files and their names.

## 2. The modules

| Module | What it is | Code |
|---|---|---|
| `IrModel` | artifacts as values: atoms, ops, copies, refs, statuses; `Assemble` (the builder), `Readable` (the reader) | `model.rs`, `status.rs`, `builder.rs`, `artifact.rs` (structure checks) |
| `TransformCheck` | `Check(in, out, name)`, one operator per rule | `transform.rs` |
| `HonestStep` | the abstract promise of one step, written from the guide and not from the rules | (specification) |
| `TransformEdit` | a session of the editing library, one action per method | `transform/edit.rs` |
| `TransformHonesty` | a plugin that writes what it likes, judged by `Check` | `transform.rs`, `commands.rs` |
| `TransformValues` | what a transform may put where something stood: the constants the two above share | |
| `HgPublished` | the published view, the import and the refs of a Mercurial decode | `phases.rs`, `published.rs`, `decode.rs` |
| `Decoding` | what the decoders share: one input, a builder, a typed refusal or an artifact; `DiffOps` | `builder.rs`, `decode.rs` of each decoder |
| `GitDecode` | the Git decoder | `brygge-decode-git/src/decode.rs`, `open.rs` |
| `HgDecode` | the Mercurial decoder around the published view | `brygge-decode-hg/src/` (`decode.rs`, `revlog.rs`, `manifest.rs`, `filelog.rs`, ...) |
| `Capture` | a child process, the thread on its error output, the decoder on its output | `brygge-decode-svn/src/source.rs` |
| `SvnDecode` | the Subversion decoder | `brygge-decode-svn/src/` (`decode.rs`, `tree.rs`, `dumpstream.rs`, `svndiff.rs`, ...) |
| `CvsDecode` | the CVS decoder | `brygge-decode-cvs/src/` (`decode.rs`, `rcs.rs`, `branches.rs`, `cluster.rs`, ...) |
| `Verify` | the internal checks, the replay, the comparison with a source | `commands.rs` (`run_verify` and what it calls) |
| `Import` | one `decode` and one `verify --against-source`, composed of the six modules above | `commands.rs` (`decode_source`) |
| `Frames` | the order of blobs, the frame plan, frames, the digest, the readers | `artifact.rs`, `artifact/frame.rs` |
| `ContentStore` | the four backings | `content.rs`, `content/spill.rs` |
| `ArtifactFile` | a store filled, written by several threads, read back and asked | `artifact.rs` (`write_to_inner`, `write_blob_frames`) |
| `BlobStore` | the abstract store of blobs | (specification) |
| `AtomicOutput` | the abstract promise about output files | (specification) |
| `Commands` | several `decode`, `transform` and `encode` runs in one directory, with kills and power losses | `commands.rs`, `plugin.rs`, `exit.rs` |
| `DataInduction` | induction and recursion over numbers, finite sets, sequences and ranked relations, as theorems about sets | (mathematics) |
| `TransformCheckProofs` | `Check` implies `HonestStep`, for any two artifacts | |
| `TransformProofs` | theorems about any editing session and about any plugin | |
| `HgPublishedProofs`, `CommandsProofs` | theorems about the published view and about concurrent commands | |
| `ImportProofs` | theorems about captures and about what git, Mercurial and Subversion imports make | |
| `RefusalProofs` | theorems about what the replay of `verify` and git and Mercurial imports refuse | |
| `ArtifactFileProofs` | the refinement of the blob store | |
| `GitSamples`, `HgSamples`, `SvnSamples`, `CvsSamples`, `VerifySamples` | the small sources of each kind | |
| `MC*` | instances for TLC | |

### IrModel

An atom is a record whose `parents` are the parent atoms themselves, not ids. That is what an id
is: a SHA-256 of the canonical encoding, which contains the parents' ids and the source ids of
copies; with no collisions, "same id" is "same value", and editing an ancestor changes the atom as
it changes the id. A draft is the same with positions for parents, as a caller of the builder
holds them. A status is a base (`stated`, `derived`) with `layers`, the nested `Transformed` marks,
outermost first; `Prior` takes one off. A drop names its subject by value (`<<"op", atom, path>>`),
which stands for the drop grammar's text. `Decoded` is what the reader's types alone give (finite sets of well-formed ops, copies
and refs, `PlainOp`: blob and mode present where the kind has them); `Readable` adds the structure checks, and no more than the reader
checks: it says nothing of two copies to one path.

Abstracted: paths, blobs, modes and claims are members of small sets; the five metadata claims are
a function over `MetaParts`; reasons of drops and the ref's `source` claim are opaque, and of provenance
there is what `verify` reads.

### TransformCheck, HonestStep and TransformHonesty

`Check` follows `check` rule by rule: the chain extends by one step that consumed the input's
digest; provenance, flags and old drops pass through; every atom is matched by source identity or
has its drop; ops are matched by path, copies by `to`, refs by key; marks are exact and sit on the
input's status. Ids, where the code compares ids mapped through `id_map`, are compared through
`IdMap`. An input with two atoms of one source identity is refused before a plugin runs
(`run_transform`), so it is a precondition.

`HonestStep` states the promise to a reader who holds both artifacts, in five parts. *Unmarked is unchanged.* *Every loss is named*: the ops of an
atom, and the refs, have a *reading*, which traces each one of the output to one of the input, no two to the same (to the one at its
own place, or, under a mark that says so, from a new place to one that is gone and not dropped), and whatever nothing is traced to has a drop of this step that
names it; so has every atom and copy that is gone. *Every record has an origin*: an atom, an op, a ref each has one of the input to itself, and what kept its place
differs only in the parts its mark names. *History is kept*: chain, drops, flags, provenance, and the status under every mark of an atom, of an op at its old path and of a ref of its old
kind and name. *Ancestry is kept.* The reading says which place a moved op or a renamed ref may come from and nothing of what it holds, nor of the
status under its mark: `check` compares neither (section 5), so no such promise is kept.

`TransformHonesty` takes one of several inputs, fresh or marked by an earlier step, lets a plugin start from the honest no-op and
change, remove or invent one record at a time, marked or not, over the record's own status or a forged one, recorded or not, an atom with any earlier
atoms for parents and a copy from any atom included; `Judge` applies `Readable` and `Check`.

### TransformEdit

State: `input`, `work` (an `AtomEdit` per atom: claims, ops with their original path, copies,
removed ops and copies), `removedAtoms`, `refEdits`, `removedRefs`, `newBlobs`, `outcome`. A method
that returns an error changes nothing and is not a step. `Finish` is the whole of `Edit::finish`:
the atoms in order with their marks and re-chained parents, drops, refs, the builder's refusals, the
reader and the final `check`. Content that no store holds makes the serializer panic; it is an
outcome of its own. The `debug_assert` on the kind of an op is a release build's: not there.

### HgPublished

State: the loop counter `rev` and the tables the code fills: `phase`, `visible`, `served`, `parents`
(the imported changesets with their atoms' parents), `tips`, and `counts` (the loss boundary's
numbers). One action per loop iteration, one for each straight-line part. The store is a
constant record: parents, declared phase roots, the precursors of obsolescence markers, bookmarks,
other pins, branches, closed heads. `Ordered` (parents before children) is *not* assumed: the revlog
reader does not check it (`revlog.rs:231-255`), so damaged stores are part of the instance.

Abstracted: the obsstore is its set of precursors, `phaseroots` the greatest phase declared at a
changeset, at most one bookmark per changeset. Parent numbers below -1 are left out.

### Commands

Each invocation in `Jobs` is a process with a program counter. What is shared is `file` (contents at
each name, and whether they reached the disk), `disk` (the directory entry known to be durable) and
`temp`. Every system call that can fail is a step with a failing alternative. `transform` and `encode`
read the artifact at three different moments (the internal checks, brygge's own read, and the plugin's),
each a step of its own. A temporary name is a record of what it is made of (output, process id and
clock, attempt), and two processes may have the same process id and clock: two containers that mount
one directory. `Crash` kills an invocation anywhere; its plugin lives on (`orphaned`). `PowerLoss` keeps
or loses every rename that was not made durable and may tear content that was not synced.

Abstracted: the verdict of the internal checks is the set `Sound`, of `check` the relation `Accepts` (its
one property used, an assumption here: an output names the digest of a single input; `ChainExtends` in
TransformCheck is the rule); all files are in one directory; spellings of one path are one name; an
I/O error while an existing artifact is verified is left out.

### Decoding, the decoders and Import

A decoder is a function of its source: no other process takes part, except in a capture. Its modules are therefore
state machines whose steps are the turns of the code's loops (a ref scanned, a commit, revision, changeset or file
imported), over `input`, a constant record that *is* the source, and a `builder`. `stage` is the program counter.
`Fail` is a `?` on an `Err`: the builder is dropped. Where several faults of one item could be met first and the code's order is
by bytes the model does not have, the choice of the fault is left open. A hash is injective: in `GitDecode` an object is at the id
it hashes to unless the id is in `altered`; in `HgDecode` `made` says what each node was made of, so that `verify_node` is a comparison
with it; in `SvnDecode` a checksum is the text it was made of. What may be absent is a set of at most one element.

* `GitDecode`: `OpenRepository`, `ScanRef` (tags peeled hop by hop, carried, dropped or refused), `CountDroppedOnly`, `WalkHistory`,
  `ImportCommit` (the whole turn: trees through the cache, the difference, blobs, claims, inferred copies, the release of trees), `FinishGit`.
* `HgDecode`: `OpenHg`, `ComputeView` (by `HgPublished`'s own reference definitions; the run hg_published shows that the passes compute
  them), `SkipChangeset`, `ImportChangeset`, `FinishHg`. A revlog is a sequence of entries with a base, hunks, a recorded length, flags and parents;
  `Rebuilt` follows the chain.
* `SvnDecode` with `Capture`: `LoadDump`, the three processes of a capture (`ReaderStep`, `DrainerStep`, `ChildStep`), `ParseRecord`, `DumpParsed`,
  `ApplyNode` (with deltas window by window, flags, checksums and the budget), `EndRevision`, `FinishSvn`.
* `CvsDecode`: `ScanEntry`, `EndScan` (branches discovered and resolved), `GatherFile` (texts along the delta chains), `PlanLines` (clusters,
  per-file order, confidence, cut points), `BuildChangeset`, `CutBranch`, `FinishCvs`.
* `Verify`: `VerifyArtifact`, `ReplayAtom`, `ReplayEnds` with the other checks, `CompareWithSource`. It follows a decode, or starts on an
  artifact of its own.

Samples state, beside each source, what it was made from (`is` in a CVS revision, `made` of a Mercurial node, `sums` of a Subversion
node), and properties compare with that, never with what the decoder computed.

### Frames, ContentStore, ArtifactFile and BlobStore

A blob is a number; its bytes are cells that name it, so that bytes are a blob's exactly when they are its own. A frame has what it
inflates to and its lengths. The recursive parts of the code (running offsets, `canonical_frame_plan`) are recursive functions, `Ends` and
`Plan`, over one step each (`Planned`); an order given as pairs is a sequence by counting predecessors (`InOrder`). `ArtifactFile` goes through the life of a store: `Insert` into memory or a spill file (an append may fail
half way), `Write` (order, table, digest), `Gather`, `Compress` by any of the workers in any order, `Flush`, `FinishWriting`, `Open` by one of the
four readers, and `Get` at any time. `FileChanges` alters a frame or the body (`OtherFrames`, `ChangedBody`), the table or the end, at any time after writing. `BlobStore` is what all this must be:
a set of blobs that gives what it holds, and fails only if the disk or the file did. The refinement is `StoresBlobs`.

## 3. The runs

Every property of a passing run has a mutant in `PROJECT.json`: a plausible mistake in one mapped definition
(they stand in the modules under "Seeded mistake") under which TLC finds the property violated.

**transform_edit** (TransformEdit.cfg, 212,894 states). Two inputs: a fresh decode (four atoms with a
merge, a copy, adds, modifies and a delete, two branches) and an artifact one earlier transform marked. Up to
four edits, then `finish`. Properties: `OpLineage`, `DoneIsHonest`, `DoneKeepsAncestry`,
`MarksStayLocal`, `FinishExact` (finish succeeds exactly when `CanFinish` holds: every refusal is foreseen
from the edits). Four edits are enough for swaps of two ops through a third path, moves over removed ops and the
removal of two generations.

**transform_edit_metadata**, **transform_edit_noop**, **transform_edit_drops**: see section 5.

**transform_honesty** (655,228 states). Three inputs: a fresh decode of three atoms in a line, two ops in the first, a copy from the first in the third, two refs;
and two artifacts of one atom that an earlier transform marked, its tag and its claim in the one, one of its two files in the other. Three changes of any kind: a
change, its mark and one more of the same plugin. Properties: the five parts of `HonestStep` for everything `Check` accepts. The marked inputs are what makes
`AcceptedKeepsHistory` more than a statement about plain statuses: there is a prior status to lose. **transform_honesty_refs**: see section 5.

**hg_published** (191,227 states). Every ordered store of three changesets with all phases, precursors and three
choices of pins; every history of four changesets in two branches with any set of closed ones; damaged stores of
three. Properties: `ViewIsExact` (the loops compute the set that reachability defines),
`SecretStaysOut`, `ClosedByConstruction`, `ExclusionsPartition`, `ParentsKept`,
`TipIsMercurials`. Three changesets have every shape of two edges (chain, fork, merge) with every status on each; four are needed for a
branch with two heads beside a merge.

**commands** (428,265 states). Three invocations in four crews: a decode over the input of a transform beside an
encode of its output; two decodes into one file beside a transform; three transforms with two temporary
names; a transform whose output is its input. One stamp, so that names collide; one power loss. Properties:
`AcceptedFromWhatWasRead`, `TempsAreApart`, `OnlyCrashesLeaveTemps`, `ExitTellsWhatLanded`,
`OutputIsAtomic` (Commands implements AtomicOutput), `InvocationsEnd`.

**import** (156,223 states). Git: six shapes of four commits (a line, a line whose ids run against time, merges with the parents in either order, two
roots, a fan) with every choice of four trees; lists of refs of every kind with tags of tags, to commits that are carried, dropped or missing; one object
at a time missing or altered; everything below the floor. Mercurial: five shapes of four changesets with copies, deletions, merges and mode changes, in
revlogs of whole texts and deltas, one of them inline; views with phases, obsolescence, bookmarks and pins; every entry of every revlog damaged in turn, also in a changeset
nobody publishes; a file revision linked to any changeset at all; the gate. Subversion: dumps of three revisions, the third of every pair of the nodes listed in `Thirds` and the second one of `Seconds`: files and
directories added, replaced, deleted and copied; deltas that are sound and malformed, at each limit; properties; a revision number given twice; two prefixes of one ref name; captures of programs that write more than
a pipe holds to either stream, write too much, or fail. CVS: skewed dates of two files and two authors, branches that sprout from other branches and at
different points, vendor imports, deltas, one fault at a time. Verify: artifacts with one thing wrong, compared with sources that
are the same, another, of another form or version, or unreadable. Properties: `RefusesExactly` (an import succeeds exactly when all that
the published or carried history reaches is sound; git and Mercurial), `HistoryExact` (and then is that history), `LossAccounts` (what is left out
is counted, once), `GitSnapshotsAreFrontier` (the cache holds the trees still needed and no others), `HgCopiesAreTrue`, `SvnTreesExact`,
`SvnRefsShowRoots`, `CaptureIsWhole`, `CaptureEnds`, `CvsLinesExact`, `ReplayIsExact`, `VerdictIsFair`. Three and four changes are enough for a
merge with a copy from either side, a replacement of what was copied, a branch of a branch; every fault needs only one item of its kind.

**artifact_file** (163,031 states). Five blobs (an empty one, compressible ones, one larger than a frame and the window), a cache of one frame, two
workers, one failure of the disk and one change of the file. `StoresBlobs`: a refinement of `BlobStore`.

**import_alias**: see section 5.

*Bounds*: `MaxEdits`, `MaxChanges`, the sizes of the stores, `MaxAttempts` (2 for the code's 64), `MaxPowerLoss`, `MaxFaults`; the limits of the
decoders (`MaxCommits`, `MaxTreeDepth`, `MaxPathBytes`, `MaxTagChain`, `MaxBlobBytes`, `MaxRevisionBytes`, `MaxDump`, `MaxStderr`, `MaxNodeText`,
`MaxFiles`, `MaxRcsBytes`), the frame, window and cache sizes (`FrameCap`, `Window`, `CacheFrames`, `Workers`) and `PipeSize` are the code's limits made
small, so that the samples meet each of them from both sides.

*Fairness*: `Commands` and `Import` have some. Weak fairness on each invocation's own steps is what an operating system gives a
process. There is none on the plugin, since brygge waits for it without a timeout: `InvocationsEnd` says that an
invocation ends or waits for its plugin. Nothing has fairness on crashes or power losses. In `Import` it is on the steps of a capture, for each of
the decoder, its thread and the child alone: `CaptureEnds` therefore assumes a child that goes on, as it does when nothing blocks it; a
child that sleeps for ever would be waited for.

`CHECK_DEADLOCK FALSE` is said in every cfg: a session, a decode, a store's life and a set of commands end.

## 4. The proofs

Proved with TLAPS for all values of the constants; assumptions are the named `ASSUME`s of the modules, which TLC evaluates on
every run. Each property that a run checks and a theorem states is named in `PROJECT.json`.

*How recursion is reasoned about* (`DataInduction`). The library's induction theorems take an operator as a parameter, which the provers
at hand cannot instantiate. Here induction is stated about *sets* instead: a set of numbers that has 0 and the successor of each of its
members has every number (`NumberInduction`, and the bounded, counting and downward forms). A recursive function is reached by showing that some function satisfies its equation (`LoopHasRun` for loops,
`RankedRecursion` for recursion along a relation whose ranks fall, as parents do), so that the `CHOOSE` it stands for does too,
and then by induction that it has the values wanted. Everything below that speaks of ancestors, flattened sequences, sums or plans
rests on these lemmas.

*TransformCheckProofs*: `CheckIsSound`: whatever two artifacts, if the reader decodes both and `Check` accepts the pair, all five parts
of `HonestStep` hold. The argument: `ResolveSolved` and `AncestorsSolved` give the recursions over parents their equations, by rank in the list
of atoms; `Matching` gives each output atom its input atom; `CountedReading` turns the check's count into a reading (as many keys are new as
are gone without a drop, so there is a bijection between them, and the kept ones trace to themselves), for ops (`OpsAreRead`) and for refs (`RefsAreRead`);
`DropsAreSeen` says that the subjects `check` reads are those of this step's drops; `AncestryIsRead` shows by induction along the output's parents
that resolving through removed atoms keeps ancestry among survivors both ways. `HonestStep` promises copies only
of destinations with a lone copy (`LoneCopies`); section 5 says why.

*TransformProofs*, of a plugin (any readable inputs, any plugin, any number of changes): `AcceptedIsMarked`, `AcceptedLossesAreNamed`, `AcceptedRecordsHaveOrigins`,
`AcceptedHasItsHistory` and `AcceptedHasItsAncestry` follow from `CheckIsSound` and the invariant `Judged`: the verdict is about the output as it is, and the input is one of those given.

*TransformProofs*, of an editing session (any input the reader accepts, any number of edits): `WorkingCopyTyped` and `OperationsKeepLineage` from
`Inv == TypeOK /\ OpLineage`. `OpLineage` alone is not inductive: a set of the blob of an op must find the op by its path (typing), and a
move must know that its target is free. `FinishIsHonest` and `FinishKeepsAncestry` are about what `finish` returns: it ends in the
reader and in `check` (`FinishedIsVetted`), an invariant `Checked` keeps the fact, and `CheckIsSound` does the rest.
`FinishMarksLocally` is `MarksStayLocal`, about what `finish` computes. Kahn's algorithm never runs dry (`KahnLists`), because the parents of an input atom come
before it; every staying atom is therefore rewritten, after the parents it will have (`MappedAreThere`, `FinishRuns`). Which atoms get a new id is then an
induction along parents: an atom nobody touched, none of whose ancestors was, is rebuilt into the very same record (`OpsComeBack`, `CopiesShrinkHolds`:
an edit only takes copies away), and one below a touched atom has another parent list. The proof found the property false as first stated: an atom that names one parent
twice is rewritten even when nobody touched it, since the mapping of parents names it once. `Rewritten` says so now, and the checked instance has such an atom.
It uses of the reader's artifacts that statuses of operations are those of `model.rs` (`IsStatus`), that sources are numbers and that atoms are records with the fields of one (`PlainAtom`).

*HgPublishedProofs* (any store, also damaged ones): the invariant `IInv` says what each loop has
achieved at each value of its counter: phases below `rev` are final, so a child's phase is at least its parents';
everything visible above `rev` has its parents visible; the imported set is the served set below `rev`. From it:
`DecodeTyped`, `SecretsStayOut` (on *every* store, thanks to the closure check), `NeverRefusesItsOwnView` (on ordered stores the check
never fires: the comment "closed by construction" in `published.rs` is right) and `EveryParentIsKept` (`parent_atoms` never
skips a parent on an ordered store). A second invariant `VInv`, on top of it and for ordered stores, says that what the loops hold at each
revision *is* what reachability over the whole store defines (`PhaseExact`, `VisibleExact`, `ServedExact`, `CountsExact`); a step of a loop looks at parents
or children only, and `AncestorsStepwise` says that reachability can be computed so. `ReferenceIsClosed` (what is visible and served by definition is closed under parents)
is used again by `RefusalProofs`, through an INSTANCE. From it `PublishedViewIsExact`,
`EveryChangesetIsAccounted` (a sum of disjoint sets' sizes) and `BranchRefsAreMercurials` (`KeepTip` keeps the best head so far).

*CommandsProofs* (any number of invocations, files, stamps, attempts and power losses): every safety property of the
run and the refinement. The invariant `IInv` says of each invocation (`Sane`) which command can be at which step and whether
it owns a temporary file there (`Stage`), what it has read and what that file holds of it (`Holds`), and what it has landed
and said (`Told`); of all of them, that temporary files are apart and that one which is there has an owner who is not done;
and of the outputs, that only a transform's may be unsynced (`UnsyncedIsTransforms`). None of the properties is inductive
alone: a rename lands what an earlier step judged, so the judgement has to be carried in the state of the temporary file,
and it survives the steps of the others only because nobody else owns that file. The argument is therefore one lemma per
action, about the invocation that takes it, and one (`FrameKeepsOthers`) that carries all the others over such a step.
`LandedWasAccepted` is `AcceptedFromWhatWasRead`, which needs that an output names one input (`CommandAssumptions`);
`OutputsAreAtomic` is `OutputIsAtomic`: a rename is a `Replace`, the directory sync a `Settle`, a power loss a `PowerLoss`, and
every other step stutters. `CommandsTyped`, `TemporariesStayApart`, `OnlyKillsLeaveTemporaries` and `ExitCodesTell` are the other four.

*ImportProofs*: `CapturesAreWhole` (any child, any size of the pipes, any ceilings). `CaptureInv`: what the reader has, with what is in the pipe, is what
the child has written so far (`ReadInOrder`), and who has ended has ended for a reason that still holds (`EndsInOrder`).
`GitSnapshotsStayFrontier` (any repository, any limits) is `GitSnapshotsAreFrontier`: however branches interleave and trees come back, the cache is exactly the
trees asked for that will be asked for again, and none is walked twice. `GitInv` adds what the walk left: `order` has each commit found once, after its parents, and
`remaining` counts what is to come of each tree from the commit at hand on (`ToCome`). That Kahn's algorithm never runs dry (`ParentFirstOrders`: some commit is always
ready) is where the assumption `SourceRepositories` is used: ids are hashes, so that among unaltered commits nobody is its own ancestor; it also says that a repository
is finite and that a ref lies in one of `Spaces`.
`HistoriesAreExact` (any repository, any limits) is `HistoryExact`. Git's half is `GitImportsHistory`; its invariant `ExactInv` follows the import through its phases.
The scan has, for each ref behind it, the commit at the end of the ref's chain of tags (`PeelFinds`; a chain that ends within the hop limit ends within the number of
tags, because no unaltered tag lies under itself: `ChainRests`, `ChainsAgree`). The walk turns these tips into the carried history, parents first, and counts what
only dropped refs reach. Each atom is right when it is made, against the trees of its parents, and stays so, since objects are read and never written
(`HistoryStays`). Replaying the atoms (`TreesAddUp`) is an induction in import order: the first parent's files are right, and `DiffMakesChild` says that the
operations between two trees lead from the one to the other, files that became directories and directories that became files included.
Mercurial's half is `HgImportsHistory`: its invariant `HgExactInv` says that the served set is the published view and closed under parents, and that
the atoms are the served changesets the loop is past, each with the atoms of all its parents (`ParentsHaveAtoms`: the closure check, with parents that come first,
is why none is missing) and with operations that lead from its first parent's files to its own, although a file revision is read only where the
manifests differ (`HgOpsLead`). It rests on `SourceStores` (`IsStore`): what Mercurial makes sure of in a changelog (`IsChangelog`), and the decoder does
not check, and the shapes of the revlogs. The proof needs all of it: with a changeset stored twice a node would name two revisions, and of one with a second parent but no first the code takes
the difference from nothing (`decode.rs:164`) while `parent_atoms` makes the second parent the atom's first one.
`SvnTreesAreExact` and `SvnRefsAreTheirRoots` (any dump, any limits) are `SvnTreesExact` and `SvnRefsShowRoots`. Neither is inductive: both speak of finished revisions, and what
makes them true happens between, node by node. The invariant `SvnInv` has, while a revision is applied (`NodeTurns`), what the nodes so far have made of the tree the last
revision left: nothing changed that no node was about (`LeavesAlone`), and each text stated shows unless a later node was about its place (`ShowsTexts`); `NodeTouches`, the core,
is that one node, with whatever deletion, delta, flags or copied directory it brings, changes nothing but what lies at or beneath its path. Of the revisions behind it, it has that each atom `FitsTree`, that
the trees kept are those of the last atom of their number (`IsKept`: a number given twice names the later), and that each root's head is the last atom that touched it (`IsHeads`).
The operations of an atom lead from tree to tree by `RevisionOpsLead` and the replay of them by `ReplayGives`, which git and Mercurial use too. For the refs, `HeadShows` is an induction
over the revisions behind a root's head: none of them touches the root (`PartStays`), except from above, which the statement excludes. `SourceDumps` (`IsDump`) is all that is assumed of a dump: that it
is a list of records and that paths are lists of names; records, numbers and orders may be any. The proof corrected the statements and the samples: a `replace` without a kind is a deletion and
nothing replaces it, revision numbers may repeat, two prefixes may give one ref name (the import is then refused: `RootsCollide`), and the root of the repository is a path of its own.

*RefusalProofs*: `SourcesAreRefusedExactly` (any git repository, any Mercurial store, any limits) is `RefusesExactly`: what is refused had to be, and what had to be is refused.
Git's half, `GitRefusesWhatItMust`, has the invariant `RefusalInv`: at each phase, what was read so far fits, what was counted is within its limit, each imported commit is
good (its message, its trees and the blobs behind them), and an import that failed did so at something a sound repository does not have. It needs that a ref is
scanned once, that blobs have a size and that a tree may have some depth. Mercurial's half, `HgRefusesWhatItMust` (`HgRefusalInv`): the gate of requirements is passed, the view has
been read, every served changeset the loop is past is sound. The hard direction is the files that are *not* read because the first parent's manifest has the same entry:
they are sound because the first parent is served too (`ViewIsClosed`) and was read before it, or was itself equal to its first parent.
`CopiesAreTrue` (any store, any limits) is `HgCopiesAreTrue`. The invariant `HgCopiesInv`, beside `HgExactInv`, says that the copies of each atom are those
`decide_copy_source` gives at its changeset, which no later step changes (`CopiesStay`). What it gives is then a question about the view: a parent is the first step,
the line of first parents that `first_parent_line` walks is made of ancestors (`FirstLineIs`, `LineGoesOn`; `AncestorsAre` is the walk of all of them), and a linkrev is taken only when it is an ancestor
(`SourcesAre`). Whatever the links say, a copy is therefore stated by its changeset and from a proper ancestor. That the ancestor *holds the stated file revision*, and that none is left out that the first line holds, needs true links
(`LinksAreTrue`), since no hash covers a linkrev: the attempt to prove it without them showed that the property was true only of the samples' truthful stores. The property says so now, and the samples have untrue links.
`ReplaysAreExact` (any artifact the reader accepts, any question asked) is `ReplayIsExact`: `replay_ir` drops each tree when it believes nobody will ask for it again,
and still answers as if it kept all of them. `ReplayInv`: of each tree, the uses left are the uses to come *plus* the copies of an atom from its own first parent, which are counted
and never taken off, so that a tree is never dropped early (it may be kept late); the trees held are those the definition gives (`PlainTreesAre`, by rank of the atom). The proof takes the copies
of an atom to be finitely many, which `Decoded` now says.

*ArtifactFileProofs*: `StoreIsABlobStore` is the refinement `StoresBlobs`, for any blobs and sizes, any IRs, any number of threads, any frame cap, window and
cache, any number of failures and changes. `FileInvariant` is the inductive invariant `FileInv`:

* `Building`: every entry of the index names cells of the spill file that are the blob's, whatever a failed append left between them.
* `Writing`: frames written, queued and gathered are the plan's first ones, in order, and what was hashed is exactly the bytes before the next blob; each slot of
  the threads holds nothing or what `compress_frame` makes of its frame. The order the threads run in is thereby forgotten.
* `InFile`: a file nothing happened to is the artifact of this IR; after *any* change its digest and metadata are still what was written (the model's
  changes leave them alone: a file with another digest that fits is another artifact). So if the readers accept it, table and order are this IR's, and every blob hashed right.
* `Opened`: the index is the IR's blobs; in memory they are the blobs themselves, in a file that did not change every place gives them, and so does
  every frame in the cache.

Its first half is about data: `PlanIsRuns` (the plan's frames are runs of the blobs, one behind the other, and cover them all), `StoreOrderSorts` (`store_order`
lists each blob once), `FlattenCuts` and `PieceOfFrame` (a blob cut out of its frame at the noted place is itself), `ChunksGive` (metadata in chunks is itself
again), `SoundReads3` and `SoundReads2` (what was written is read). A step of the store is a step of `BlobStore` or a stutter, action by action (`StepHolds`).

Model-checked only:

* Liveness (`InvocationsEnd`, `CaptureEnds`): out of the prover's reach.
* `FinishExact`. For every input it would need more than the checked statement says: that sources are unique (`check` refuses what the reader accepts), that
  no atom has two copies to one destination, and that copies come from ancestors: the order of `finish` follows parents only, and dropping an atom can put a
  copy before the atom it comes from. The checked inputs are of this kind. What `finish` returns *when* it succeeds is proved.
* `LossAccounts`, a sum over all items of a history of how many each report counts.
* `CvsLinesExact`, whose invariant of the CVS loops nobody has worked out yet; with it `VerdictIsFair`, whose first part is about every decoder's artifact;
  and `TypeOK` of `Import`, whose part for Subversion counts the characters of texts (`spent`), and of a string's length the provers know nothing.

## 5. Where code and documentation disagree

Six runs end in a violation, each of one statement of the documentation. The quotations are in `PROJECT.json`.

1. `MetadataEditsFinish`: `finish` does not map a copy's `from_atom` to the new id (`edit.rs:523`), so setting the author
   of a commit that a copy comes from, or of its ancestor, makes `finish` fail.
2. `NoOpFinishes`: `check` compares the step of *every* mark with the new step (`transform.rs:402`, `548`, `652`), so a
   second transform that leaves a marked record alone is refused; the guide says a no-op is accepted.
3. `DropsNameWhatWasRemoved`: `remove_op` records the current path (`edit.rs:137`), so after moves the drop names another op.
4. `RetargetsAreMarked`: a renamed ref's target is never compared (`transform.rs:606-624`). The same is true of its annotation, and of an op at a new path: any kind, blob and
   mode pass if the mark names `path` (`transform.rs:439-464`), though the guide says that a transform may not invent an op (28-29) and that
   `check` verifies every change marked and nothing invented (174-175). Nor is the status under such a mark compared with anything (`445`, `612`): an earlier step's mark on a moved op or a renamed ref can be lost.
5. `OutputIsWhole`: `transform` renames without `sync_all` (`commands.rs:2383`), unlike `decode`.
6. `BranchIsCheckout`: when two symbols of a CVS file name one branch number, the map from branch numbers to names keeps the later
   one (`decode.rs:104`), so the branch of the other name gets none of the file's revisions; the guide says a branch's content is exact.

Noticed while modelling, too small for a run, or outside a model's scope: `rename_ref` twice to one name is refused only by
the builder, at `finish`; `set_op_blob` with content no store holds panics when `finish` serializes; `encode`'s plugin
may read an artifact that replaced the one verified; a plugin's exit code is passed through, so 10, 30 or 50 of a plugin
cannot be told from brygge's own; `cli.rs` says any failure of `transform` exits 50, but a failed plugin or a failed rename does not.
Which op a drop names is not tied to
what was moved: of two ops the first moved away, the second moved into its place and then removed, the output reads as if the first had been removed and the second moved (finding 3), and its content does not
contradict that, because no content of a moved op is compared. A drop that names an op, a copy or a ref that is still there, or never was, is accepted; only those of atoms are
checked. An atom that has only lost an op must not bear a mark for `ops` (`transform.rs:380-386` does not set `ops_differ`).
The proof of `CheckIsSound` met two more. The reader accepts several copies to one destination, and `check` keeps copies in a map by `to` that sees
the last of each: a second copy to the same destination that a plugin adds or loses goes unnoticed. And a parent named twice
is silently named once by the mapping of parents.

The same of the decoders, `verify` and the codec:

* Subversion: the copies of an atom may name a file that a later node of the same revision deletes, which `model.rs:178` does not exclude; a copy of
  the repository's root expands to nothing; a root that appears only because a copy of a directory above it brings it gets no ref;
  `parse_svn_date` takes hours and days that do not exist.
* CVS: without `--reconstruct-refs` tags and branch symbols are neither imported nor counted (their revisions are), and the reasons for that case in
  `decode.rs:366-367` and `385-386` cannot be reached; `empty_branches` is never reported.
* Mercurial: a changeset with no first but a second parent is compared with the empty tree while its atom's first parent is the second
  (`decode.rs:160-176`, `parent_atoms`); Mercurial writes none, and the samples have none. A bookmark of an empty repository is dropped and not counted.
  The third step of `decide_copy_source` trusts the filelog's linkrev, which no hash covers; so is the order of parents. With an untrue one a copy may name an ancestor that does not hold its source
  (`HgCopiesAreTrue` says what holds then and what does not).
* `replay_ir` keeps a tree longer than its comment (945-952) says when an atom copies from its own first parent. An atom's own `source.kind` is read by
  no check.
* A reader of contract 0.3.0 refuses a wrong packing before it compares the digest, though `ir-artifact-format.md:115-121` gives `DigestMismatch`
  precedence. What `get` reads from the spill file is not hashed again, unlike what it reads from an artifact.

## 6. What is not modelled

See `components` in `PROJECT.json`. Conversions of bytes without state: the index entries of a revlog, the name of a file in a Mercurial store,
escapes, the headers of a dump, the tokens of RCS text, the canonical encoding of a record. What they refuse is a mark on the item they would read; what
they deliver is the item. git's object access is the `gix` crate. `inspect` and the honesty report only count and print. The search for a free name of
a spill file, the size ceiling of a single compressed chunk, and the limit of 64 transforms in a chain, are left out.
That parents come first in a Mercurial changelog (`IsStore`) is documented (`brygge-decode-hg/src/decode.rs:5`, `published.rs:125`) and not checked by `revlog.rs`:
`HgPublished` does without it, what is proved of the whole import assumes it.

Sources do not change while they are read: a Mercurial store is read without a lock, a commit or a phase change between two reads of its files is not
modelled; of CVS there is the file that is swapped while it is read, which the code detects.

## 7. The plan

Done: the transform step (`IrModel`, `TransformCheck`, `HonestStep`, `TransformEdit`, `TransformHonesty`), the commands (`Commands`, `AtomicOutput`), the
published view (`HgPublished`), the four decoders and `verify` (`Decoding` to `Import`), the store of blobs and the artifact (`Frames` to `BlobStore`);
proofs of the transform step (`Check` against the promise, any plugin, any editing session, the reach of an edit's marks), of the published view and its exactness, of the commands'
safety, of captures, git's snapshot cache, what the git and the Mercurial imports make and refuse, where Mercurial's copies come from, the trees and refs of a Subversion import, of `verify`'s replay, and of the blob store's refinement.

Left, in the order of what each would say about the system:

1. `CvsDecode`: `CvsLinesExact`.
2. `VerdictIsFair`, which then follows from it, `HistoriesAreExact`, `SvnTreesAreExact` and `ReplaysAreExact`.
3. `FinishExact` with the three conditions of section 4.
