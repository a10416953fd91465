------------------------------ MODULE Commands ------------------------------
(***************************************************************************)
(* The commands that run together in one directory: `decode --out`,        *)
(* `transform --out` with its external plugin, and `encode`.  Each         *)
(* invocation is a process of its own; nothing is locked.  What they share *)
(* is the files they read and replace, and the names of their temporary    *)
(* files, made of a process id, a clock and an attempt.                    *)
(*                                                                         *)
(* An invocation may be killed at any step, and the machine may lose power.*)
(***************************************************************************)
EXTENDS Naturals

CONSTANTS
    Jobs,           \* the invocations
    CommandLines,   \* what they may be started with: a cmd, artifact and out for each
    Files,          \* the artifacts' file names
    Stamps,         \* process id and clock reading: not unique across hosts
    MaxAttempts,    \* names create_transform_temp tries (64)
    PluginCodes,    \* non-zero exit codes of a plugin
    Library,        \* the invocations whose plugin is built on the Edit library
    Artifacts,      \* what a readable artifact file can hold
    Decoded,        \* what the sources decode to
    Sound,          \* the artifacts every internal check passes
    Twins,          \* the artifacts with two atoms of one source identity
    Accepts,        \* <<in, out>>: transform::check accepts out as made from in
    LossClass,      \* LossClass[a]: the fidelity exit class of a
    FirstFiles,     \* what each file holds at first
    MaxPowerLoss,   \* bound: how often the power fails
    Nothing,        \* there is no such file
    Partial         \* a file written in part, or not an artifact at all

CLEAN == 0
FAILURE == 1
USAGE == 2
RECORDED_LOSS == 10
FLOOR_REFUSAL == 20
CONVENTION_VIOLATION == 30
VERIFY_FAILED == 50

(* An output names the digest of the one input it was made from.           *)
ASSUME CommandAssumptions ==
    /\ CommandLines \subseteq
          [Jobs -> [cmd : {"decode", "transform", "encode"}, artifact : Files, out : Files]]
    /\ MaxAttempts \in Nat \ {0} /\ MaxPowerLoss \in Nat
    /\ PluginCodes \subseteq Nat \ {0}
    /\ Decoded \subseteq Artifacts /\ Sound \subseteq Artifacts /\ Twins \subseteq Artifacts
    /\ Accepts \subseteq Artifacts \X Artifacts
    /\ \A x, y, z \in Artifacts : (<<x, z>> \in Accepts /\ <<y, z>> \in Accepts) => x = y
    /\ LossClass \in [Artifacts -> {CLEAN, RECORDED_LOSS, CONVENTION_VIOLATION}]
    /\ FirstFiles \in [Files -> Artifacts \cup {Nothing}]
    /\ Nothing \notin Artifacts /\ Partial \notin Artifacts /\ Nothing # Partial

VARIABLES
    job,        \* job[p]: the command line of p, never written
    file,       \* file[f]: what f holds, and whether its content reached the disk
    disk,       \* disk[f]: the entry of f that is known to be on the disk
    temp,       \* temp[t]: the same of a temporary file
    pc,         \* where each invocation is
    stamp,      \* its process id and clock
    attempt,    \* the attempt in its next temporary name
    mine,       \* the temporary file it created: none or one
    input,      \* what it read as its input, or decoded
    seen,       \* what its plugin read (history)
    landed,     \* what it put at its output (history)
    exit,       \* its exit code
    losses      \* power losses so far

vars == <<job, file, disk, temp, pc, stamp, attempt, mine, input, seen, landed, exit, losses>>

files == <<file, disk, temp>>

-----------------------------------------------------------------------------
Contents == Artifacts \cup {Nothing, Partial}

FileState == [data : Contents, synced : BOOLEAN]

Missing == [data |-> Nothing, synced |-> TRUE]

TempNames ==
    [base : {{}} \cup {{f} : f \in Files}, stamp : Stamps, attempt : 0..(MaxAttempts - 1)]

Cmd(p) == job[p].cmd

(* .<out>.brygge-tmp-<pid>, or .brygge-transform-<pid>-<nanos>-<attempt>   *)
(* in the output's directory: here all files are in one.                   *)
TempName(p) ==
    [base |-> IF Cmd(p) = "decode" THEN {job[p].out} ELSE {},
     stamp |-> stamp[p], attempt |-> attempt[p]]

Ended == {"done", "crashed", "orphaned"}

Init ==
    /\ job \in CommandLines
    /\ file = [f \in Files |-> [data |-> FirstFiles[f], synced |-> TRUE]]
    /\ disk = file
    /\ temp = [t \in TempNames |-> Missing]
    /\ pc = [p \in Jobs |-> "start"]
    /\ stamp \in [Jobs -> Stamps]
    /\ attempt = [p \in Jobs |-> 0]
    /\ mine = [p \in Jobs |-> {}]
    /\ input = [p \in Jobs |-> Nothing]
    /\ seen = [p \in Jobs |-> {}]
    /\ landed = [p \in Jobs |-> {}]
    /\ exit = [p \in Jobs |-> {}]
    /\ losses = 0

Goto(p, step) == pc' = [pc EXCEPT ![p] = step]

(* The invocation returns with this exit code.                             *)
Return(p, code) ==
    /\ Goto(p, "done")
    /\ exit' = [exit EXCEPT ![p] = {code}]

(* It returns, and touches nothing else.                                   *)
ReturnOnly(p, code) ==
    /\ Return(p, code)
    /\ UNCHANGED <<files, stamp, attempt, mine, input, seen, landed, losses>>

(* It removes its temporary file and returns; the output is untouched.     *)
Abandon(p, code) ==
    /\ Return(p, code)
    /\ temp' = [t \in TempNames |-> IF t \in mine[p] THEN Missing ELSE temp[t]]
    /\ mine' = [mine EXCEPT ![p] = {}]
    /\ UNCHANGED <<file, disk, stamp, attempt, input, seen, landed, losses>>

(* It creates its temporary file, empty, which only succeeds when no file  *)
(* has the name (create_new).                                              *)
Create(p, step) ==
    /\ temp' = [temp EXCEPT ![TempName(p)] = [data |-> Partial, synced |-> FALSE]]
    /\ mine' = [mine EXCEPT ![p] = {TempName(p)}]
    /\ Goto(p, step)
    /\ UNCHANGED <<file, disk, stamp, attempt, input, seen, landed, exit, losses>>

(* Seeded mistake: an existing file is opened as one's own.                *)
NeverTaken(p) == FALSE

Taken(p) == temp[TempName(p)] # Missing

(* What its temporary file holds, and giving it other content.             *)
Held(p) == CHOOSE s \in {temp[t] : t \in mine[p]} : TRUE

Write(p, data) ==
    temp' = [t \in TempNames |-> IF t \in mine[p] THEN [data |-> data, synced |-> FALSE] ELSE temp[t]]

(* rename: the temporary file becomes the output, content and all.         *)
Land(p) ==
    /\ file' = [file EXCEPT ![job[p].out] = Held(p)]
    /\ temp' = [t \in TempNames |-> IF t \in mine[p] THEN Missing ELSE temp[t]]
    /\ mine' = [mine EXCEPT ![p] = {}]
    /\ landed' = [landed EXCEPT ![p] = {Held(p).data}]

-----------------------------------------------------------------------------
(* run_decode and atomic_write.                                            *)

(* The source is decoded, or refused: a ceiling or the floor, an unreadable *)
(* source, a spill directory that is not one.                              *)
Decode(p) ==
    /\ pc[p] = "start" /\ Cmd(p) = "decode"
    /\ \/ \E a \in Decoded : /\ input' = [input EXCEPT ![p] = a]
                             /\ Goto(p, "create")
                             /\ UNCHANGED <<files, stamp, attempt, mine, seen, landed, exit, losses>>
       \/ \E code \in {FAILURE, USAGE, FLOOR_REFUSAL} : ReturnOnly(p, code)

(* One attempt: an existing file of that name fails the write, and is left *)
(* alone, since it is not this run's.                                      *)
CreateDecodeTemp(p) ==
    /\ pc[p] = "create" /\ Cmd(p) = "decode"
    /\ \/ ~Taken(p) /\ Create(p, "write")
       \/ ReturnOnly(p, FAILURE)

WriteBody(p) ==
    /\ pc[p] = "write"
    /\ \/ /\ Write(p, input[p])
          /\ Goto(p, "sync")
          /\ UNCHANGED <<file, disk, stamp, attempt, mine, input, seen, landed, exit, losses>>
       \/ Abandon(p, FAILURE)

(* Seeded mistake: the body is flushed, not synced.                        *)
FlushOnly(p) == UNCHANGED temp

SyncAll(p) ==
    temp' = [t \in TempNames |-> IF t \in mine[p] THEN [temp[t] EXCEPT !.synced = TRUE] ELSE temp[t]]

SyncBody(p) ==
    /\ pc[p] = "sync"
    /\ \/ /\ SyncAll(p)
          /\ Goto(p, "rename")
          /\ UNCHANGED <<file, disk, stamp, attempt, mine, input, seen, landed, exit, losses>>
       \/ Abandon(p, FAILURE)

RenameDecode(p) ==
    /\ pc[p] = "rename" /\ Cmd(p) = "decode"
    /\ \/ /\ Land(p)
          /\ Goto(p, "settle")
          /\ UNCHANGED <<disk, stamp, attempt, input, seen, exit, losses>>
       \/ Abandon(p, FAILURE)

(* The directory is synced as well as the platform allows.                 *)
SyncDirectory(p) ==
    /\ pc[p] = "settle"
    /\ disk' \in {disk, file}
    /\ Goto(p, "report")
    /\ UNCHANGED <<file, temp, stamp, attempt, mine, input, seen, landed, exit, losses>>

(* The report goes to stdout; losing it fails the run, the artifact stays. *)
Report(p) ==
    /\ pc[p] = "report"
    /\ \E code \in {LossClass[input[p]], FAILURE} : ReturnOnly(p, code)

-----------------------------------------------------------------------------
(* run_transform and run_encode.                                           *)

(* An output that is the input, or a plugin that is not on PATH.           *)
StartPlugin(p) ==
    /\ pc[p] = "start" /\ Cmd(p) # "decode"
    /\ \/ /\ ~(Cmd(p) = "transform" /\ job[p].out = job[p].artifact)
          /\ Goto(p, "verify")
          /\ UNCHANGED <<files, stamp, attempt, mine, input, seen, landed, exit, losses>>
       \/ ReturnOnly(p, USAGE)

(* The first read of the artifact: the internal checks.                    *)
Verify(p) ==
    /\ pc[p] = "verify"
    /\ LET data == file[job[p].artifact].data
       IN  \/ data = Nothing /\ ReturnOnly(p, FAILURE)
           \/ data \in Contents \ (Sound \cup {Nothing}) /\ ReturnOnly(p, VERIFY_FAILED)
           \/ /\ data \in Sound
              /\ Goto(p, IF Cmd(p) = "transform" THEN "read" ELSE "spawn")
              /\ UNCHANGED <<files, stamp, attempt, mine, input, seen, landed, exit, losses>>

(* The second read: whatever is there by now is the input.                 *)
ReadInput(p) ==
    /\ pc[p] = "read"
    /\ LET data == file[job[p].artifact].data
       IN  \/ data \notin Artifacts /\ ReturnOnly(p, FAILURE)
           \/ data \in Twins /\ ReturnOnly(p, VERIFY_FAILED)
           \/ /\ data \in Artifacts \ Twins
              /\ input' = [input EXCEPT ![p] = data]
              /\ Goto(p, "create")
              /\ UNCHANGED <<files, stamp, attempt, mine, seen, landed, exit, losses>>

(* Seeded mistake: every attempt tries the same name.                      *)
SameAttempt(p) == UNCHANGED attempt

NextAttempt(p) == attempt' = [attempt EXCEPT ![p] = @ + 1]

(* Seeded mistake: one attempt too many.                                   *)
AttemptsLeftAtMost(p) == attempt[p] < MaxAttempts

AttemptsLeft(p) == attempt[p] + 1 < MaxAttempts

(* create_transform_temp: a name that is taken gives way to the next one.  *)
CreateTransformTemp(p) ==
    /\ pc[p] = "create" /\ Cmd(p) = "transform"
    /\ \/ ~Taken(p) /\ Create(p, "spawn")
       \/ /\ Taken(p)
          /\ AttemptsLeft(p)
          /\ NextAttempt(p)
          /\ UNCHANGED <<files, pc, stamp, mine, input, seen, landed, exit, losses>>
       \/ Taken(p) /\ ~AttemptsLeft(p) /\ ReturnOnly(p, FAILURE)
       \/ ~Taken(p) /\ ReturnOnly(p, FAILURE)

Spawn(p) ==
    /\ pc[p] = "spawn"
    /\ \/ /\ Goto(p, "plugin")
          /\ UNCHANGED <<files, stamp, attempt, mine, input, seen, landed, exit, losses>>
       \/ Abandon(p, FAILURE)

(* The plugin opens the artifact by its path: the third read.  It may      *)
(* outlive a brygge that was killed.                                       *)
PluginReads(p) ==
    /\ pc[p] \in {"plugin", "orphaned"}
    /\ seen[p] = {}
    /\ seen' = [seen EXCEPT ![p] = {file[job[p].artifact].data}]
    /\ UNCHANGED <<files, pc, stamp, attempt, mine, input, landed, exit, losses>>

(* It writes its output, in part or whole.  One built on the Edit library  *)
(* writes what follows from what it read; another may write anything.      *)
PluginWrites(p) ==
    /\ pc[p] \in {"plugin", "orphaned"} /\ Cmd(p) = "transform"
    /\ \E data \in Artifacts \cup {Partial} :
          /\ (p \in Library /\ data # Partial) => \E x \in seen[p] : <<x, data>> \in Accepts
          /\ Write(p, data)
    /\ UNCHANGED <<file, disk, pc, stamp, attempt, mine, input, seen, landed, exit, losses>>

(* It ends.  Only a transform's exit 0 goes on; every other exit code is   *)
(* passed through, and a signal is a failure.                              *)
PluginEnds(p) ==
    /\ pc[p] = "plugin"
    /\ \/ /\ Cmd(p) = "transform"
          /\ Goto(p, "judge")
          /\ UNCHANGED <<files, stamp, attempt, mine, input, seen, landed, exit, losses>>
       \/ Cmd(p) = "encode" /\ ReturnOnly(p, CLEAN)
       \/ \E code \in PluginCodes \cup {FAILURE} : Abandon(p, code)

(* Seeded mistake: the digest the output says it consumed is not compared. *)
SomeInputAccepted(in, out) == \E x \in Artifacts : <<x, out>> \in Accepts

CheckAccepts(in, out) == <<in, out>> \in Accepts

(* Seeded mistake: a refused output stays in its temporary file.           *)
RefuseOnly(p) == ReturnOnly(p, VERIFY_FAILED)

Refuse(p) == Abandon(p, VERIFY_FAILED)

(* The output is read back: the internal checks, then transform::check.    *)
Judge(p) ==
    /\ pc[p] = "judge"
    /\ LET data == Held(p).data
       IN  \/ /\ data \in Sound
              /\ CheckAccepts(input[p], data)
              /\ Goto(p, "rename")
              /\ UNCHANGED <<files, stamp, attempt, mine, input, seen, landed, exit, losses>>
           \/ /\ ~(data \in Sound /\ CheckAccepts(input[p], data))
              /\ Refuse(p)

(* Seeded mistake: the result of the rename is not looked at.              *)
IgnoreRename(p) == Abandon(p, LossClass[input[p]])

RenameFailed(p) == Abandon(p, FAILURE)

(* Renamed over the output, which is not synced, or given up.              *)
RenameTransform(p) ==
    /\ pc[p] = "rename" /\ Cmd(p) = "transform"
    /\ \/ /\ Land(p)
          /\ Return(p, LossClass[Held(p).data])
          /\ UNCHANGED <<disk, stamp, attempt, input, seen, losses>>
       \/ RenameFailed(p)

-----------------------------------------------------------------------------
(* The invocation is killed where it stands; its plugin goes on alone.     *)
Crash(p) ==
    /\ pc[p] \notin Ended
    /\ Goto(p, IF pc[p] = "plugin" THEN "orphaned" ELSE "crashed")
    /\ UNCHANGED <<files, stamp, attempt, mine, input, seen, landed, exit, losses>>

(* What is found of a file after a power loss: content that was not synced *)
(* may be there in part.                                                   *)
Recovered(s) ==
    {[data |-> d, synced |-> TRUE] : d \in {s.data} \cup (IF s.synced THEN {} ELSE {Partial})}

PowerLoss ==
    /\ losses < MaxPowerLoss
    /\ losses' = losses + 1
    /\ file' \in [Files -> UNION {Recovered(file[f]) \cup Recovered(disk[f]) : f \in Files}]
    /\ \A f \in Files : file'[f] \in Recovered(file[f]) \cup Recovered(disk[f])
    /\ disk' = file'
    /\ temp' = [t \in TempNames |-> [temp[t] EXCEPT !.synced = TRUE]]
    /\ pc' = [p \in Jobs |-> IF pc[p] = "done" THEN "done" ELSE "crashed"]
    /\ UNCHANGED <<stamp, attempt, mine, input, seen, landed, exit>>

DecodeStep(p) ==
    Decode(p) \/ CreateDecodeTemp(p) \/ WriteBody(p) \/ SyncBody(p) \/ RenameDecode(p)
        \/ SyncDirectory(p) \/ Report(p)

PluginCommandStep(p) ==
    StartPlugin(p) \/ Verify(p) \/ ReadInput(p) \/ CreateTransformTemp(p) \/ Spawn(p)
        \/ Judge(p) \/ RenameTransform(p)

PluginStep(p) == PluginReads(p) \/ PluginWrites(p) \/ PluginEnds(p)

Step(p) == (DecodeStep(p) \/ PluginCommandStep(p)) /\ UNCHANGED job

Next ==
    \/ \E p \in Jobs : Step(p) \/ (PluginStep(p) /\ UNCHANGED job) \/ (Crash(p) /\ UNCHANGED job)
    \/ PowerLoss /\ UNCHANGED job

(* A running invocation goes on; a plugin need not, and brygge has no      *)
(* timeout for it.                                                         *)
Fairness == \A p \in Jobs : WF_vars(Step(p))

Spec == Init /\ [][Next]_vars /\ Fairness

-----------------------------------------------------------------------------
ExitCodes ==
    {CLEAN, FAILURE, USAGE, RECORDED_LOSS, FLOOR_REFUSAL, CONVENTION_VIOLATION, VERIFY_FAILED}
        \cup PluginCodes

Transforms == {p \in Jobs : Cmd(p) = "transform"}

(* Every file's state is one, and an invocation owns at most one temporary *)
(* file, which exists as long as it does (atomic_write, run_transform).    *)
TypeOK ==
    /\ job \in CommandLines
    /\ file \in [Files -> FileState] /\ disk \in [Files -> FileState]
    /\ temp \in [TempNames -> FileState]
    /\ pc \in [Jobs -> Ended \cup {"start", "create", "write", "sync", "rename", "settle", "report",
                                   "verify", "read", "spawn", "plugin", "judge"}]
    /\ stamp \in [Jobs -> Stamps]
    /\ attempt \in [Jobs -> 0..(MaxAttempts - 1)]
    /\ mine \in [Jobs -> {{}} \cup {{t} : t \in TempNames}]
    /\ input \in [Jobs -> Artifacts \cup {Nothing}]
    /\ seen \in [Jobs -> {{}} \cup {{d} : d \in Contents}]
    /\ landed \in [Jobs -> {{}} \cup {{d} : d \in Contents}]
    /\ exit \in [Jobs -> {{}} \cup {{c} : c \in ExitCodes}]
    /\ losses \in 0..MaxPowerLoss

(* What a transform puts at its output passed every internal check, and    *)
(* was accepted as made from the very artifact brygge read; and a plugin   *)
(* built on the library read that same artifact, although the file may     *)
(* have been replaced between the two reads (run_transform).               *)
AcceptedFromWhatWasRead ==
    \A p \in Transforms : \A data \in landed[p] :
        /\ data \in Sound
        /\ <<input[p], data>> \in Accepts
        /\ input[p] \notin Twins
        /\ (p \in Library /\ seen[p] # {}) => seen[p] = {input[p]}

(* No invocation ever writes, renames or removes a temporary file another  *)
(* one created, even after that one was killed (create_new).               *)
TempsAreApart ==
    \A p, q \in Jobs : p # q => mine[p] \cap mine[q] = {}

(* A temporary file outlives its invocation only if that was killed: every *)
(* refusal and every failure removes it.                                   *)
OnlyCrashesLeaveTemps ==
    \A t \in TempNames :
        temp[t] # Missing => \E p \in Jobs : t \in mine[p] /\ pc[p] # "done"

(* An exit code that reports a fidelity class reports the class of the     *)
(* artifact at the output; brygge's own failures never replace it, except  *)
(* a decode whose report could not be written.                             *)
ExitTellsWhatLanded ==
    \A p \in Jobs : (Cmd(p) # "encode" /\ pc[p] = "done") =>
        \A code \in exit[p] :
            IF landed[p] # {}
            THEN \A a \in landed[p] : \/ code = LossClass[a]
                                      \/ Cmd(p) = "decode" /\ code = FAILURE
            ELSE code \in {FAILURE, USAGE, FLOOR_REFUSAL, VERIFY_FAILED} \cup PluginCodes

(* Every invocation ends, or waits for its plugin.                         *)
InvocationsEnd ==
    \A p \in Jobs : <>[](pc[p] \in Ended \cup {"plugin"})

(* AtomicOutput in terms of the files: what may land, and where.           *)
Out == [f \in Files |-> file[f].data]

Safe == [f \in Files |-> disk[f].data]

OutsOf(cmd) ==
    {f \in Files : \E line \in CommandLines : \E p \in Jobs : line[p].cmd = cmd /\ line[p].out = f}

MayLand ==
    [f \in Files |->
        {a \in Artifacts : \/ f \in OutsOf("decode") /\ a \in Decoded
                          \/ /\ f \in OutsOf("transform")
                             /\ a \in Sound /\ \E x \in Artifacts : <<x, a>> \in Accepts}]

Promise ==
    INSTANCE AtomicOutput WITH Allowed <- MayLand, Unsynced <- OutsOf("transform"),
                               out <- Out, safe <- Safe

(* Every output is replaced whole and survives a power loss as AtomicOutput *)
(* says: only what a transform wrote may be torn (atomic_write).           *)
OutputIsAtomic == Promise!Spec

(* What the threat model says of an interrupted run (C-8): brygge does not *)
(* write partial artifacts.                                                *)
OutputIsWhole == \A f \in Files : file[f].data # Partial
=============================================================================
