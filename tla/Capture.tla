------------------------------ MODULE Capture ------------------------------
(***************************************************************************)
(* run_and_capture (crates/brygge-decode-svn/src/source.rs): a child       *)
(* process that writes to two pipes, a thread that drains its error        *)
(* output, and the decoder that reads its output up to a ceiling, kills it *)
(* if there is more, waits for it, and only then joins the thread.         *)
(*                                                                         *)
(* A pipe holds PipeSize items; a writer waits for room, and is killed if  *)
(* nobody holds the reading end.  What is written is a sequence of items   *)
(* (a dump's records); an item is one unit of the ceilings.                *)
(***************************************************************************)
EXTENDS Naturals, Sequences

CONSTANTS
    PipeSize,       \* what the system keeps of a pipe that is not read
    MaxDump,        \* Limits.max_dump_bytes
    MaxStderr       \* Limits.max_stderr_bytes

ASSUME CaptureLimits == PipeSize \in Nat \ {0} /\ MaxDump \in Nat /\ MaxStderr \in Nat

VARIABLES
    program,    \* what the child does: the items it writes, in order, and its exit
    process,    \* the child: how many items it has written, and whether it runs, exited or was killed
    pipe,       \* what is in the pipe of "out" and of "err"
    reader,     \* what the decoder is doing
    stdout,     \* what it has read
    drainer,    \* whether the thread runs or has ended
    stderr      \* what the thread kept

captureVars == <<program, process, pipe, reader, stdout, drainer, stderr>>

Streams == {"out", "err"}

IsProgram(p) ==
    /\ Len(p.writes) \in Nat
    /\ \A n \in 1..Len(p.writes) : p.writes[n].to \in Streams

NoProgram == [writes |-> <<>>, code |-> 0, starts |-> TRUE]

CaptureInit(p) ==
    /\ program = p
    /\ process = [written |-> 0, state |-> "not started"]
    /\ pipe = [s \in Streams |-> <<>>]
    /\ reader = "spawn" /\ stdout = <<>>
    /\ drainer = "not started" /\ stderr = <<>>

(* The reading end of "out" is dropped when the reading is over.           *)
HeldOpen(stream) == stream = "err" \/ reader = "read"

Running == process.state = "running"

\* A pipe is at its end when it is empty and the child is gone.
AtEnd(stream) == pipe[stream] = <<>> /\ ~Running

(* The process.                                                              *)
Write ==
    /\ Running /\ process.written < Len(program.writes)
    /\ LET next == program.writes[process.written + 1] IN
       \/ /\ HeldOpen(next.to) /\ Len(pipe[next.to]) < PipeSize
          /\ pipe' = [pipe EXCEPT ![next.to] = Append(@, next.item)]
          /\ process' = [process EXCEPT !.written = @ + 1]
       \/ /\ ~HeldOpen(next.to)
          /\ process' = [process EXCEPT !.state = "killed"]
          /\ UNCHANGED pipe
    /\ UNCHANGED <<program, reader, stdout, drainer, stderr>>

Exit ==
    /\ Running /\ process.written = Len(program.writes)
    /\ process' = [process EXCEPT !.state = "exited"]
    /\ UNCHANGED <<program, pipe, reader, stdout, drainer, stderr>>

(* Seeded mistake: the thread stops at its ceiling.                        *)
StopAtCeiling == Len(stderr) < MaxStderr

\* Past its ceiling the thread goes on reading, and keeps nothing.
GoesOnDraining == TRUE

(* The thread.                                                             *)
Drain ==
    /\ drainer = "running" /\ pipe["err"] # <<>> /\ GoesOnDraining
    /\ pipe' = [pipe EXCEPT !["err"] = Tail(@)]
    /\ stderr' = IF Len(stderr) < MaxStderr THEN Append(stderr, Head(pipe["err"])) ELSE stderr
    /\ UNCHANGED <<program, process, reader, stdout, drainer>>

DrainerEnds ==
    /\ drainer = "running" /\ AtEnd("err")
    /\ drainer' = "ended"
    /\ UNCHANGED <<program, process, pipe, reader, stdout, stderr>>

(* The decoder.                                                            *)
Spawn ==
    /\ reader = "spawn"
    /\ \/ /\ program.starts
          /\ process' = [process EXCEPT !.state = "running"] /\ drainer' = "running"
          /\ reader' = "read"
       \/ /\ ~program.starts
          /\ reader' = "not run" /\ UNCHANGED <<process, drainer>>
    /\ UNCHANGED <<program, pipe, stdout, stderr>>

Overflowed == Len(stdout) > MaxDump

ReadOutput ==
    /\ reader = "read" /\ ~Overflowed
    /\ \/ /\ pipe["out"] # <<>>
          /\ stdout' = Append(stdout, Head(pipe["out"]))
          /\ pipe' = [pipe EXCEPT !["out"] = Tail(@)]
          /\ UNCHANGED reader
       \/ /\ AtEnd("out")
          /\ reader' = "wait" /\ UNCHANGED <<stdout, pipe>>
    /\ UNCHANGED <<program, process, drainer, stderr>>

\* The reading end is dropped at the ceiling, and then the child is killed.
Kill ==
    /\ reader = "read" /\ Overflowed
    /\ reader' = "wait"
    /\ process' = IF Running THEN [process EXCEPT !.state = "killed"] ELSE process
    /\ UNCHANGED <<program, pipe, stdout, drainer, stderr>>

Wait ==
    /\ reader = "wait" /\ ~Running
    /\ reader' = "join"
    /\ UNCHANGED <<program, process, pipe, stdout, drainer, stderr>>

(* Seeded mistake: what was read before a failure is taken for the dump.   *)
AnyEnd == ~Overflowed

Succeeded == ~Overflowed /\ process.state = "exited" /\ program.code = 0

\* An overflow is reported before the exit status, which a kill has spoiled.
Join ==
    /\ reader = "join" /\ drainer = "ended"
    /\ reader' = IF Overflowed THEN "over limit" ELSE IF Succeeded THEN "captured" ELSE "failed"
    /\ UNCHANGED <<program, process, pipe, stdout, drainer, stderr>>

ChildStep == Write \/ Exit
DrainerStep == Drain \/ DrainerEnds
ReaderStep == Spawn \/ ReadOutput \/ Kill \/ Wait \/ Join

CaptureEnded == reader \in {"not run", "captured", "over limit", "failed"}

-----------------------------------------------------------------------------
(* What the child has written to a stream after its first n writes, and    *)
(* to its output in all.                                                   *)
WrittenTo(p, stream) ==
    LET sent[n \in 0..Len(p.writes)] ==
          IF n = 0 THEN <<>>
          ELSE IF p.writes[n].to = stream THEN Append(sent[n - 1], p.writes[n].item)
          ELSE sent[n - 1]
    IN  sent

Output == WrittenTo(program, "out")[Len(program.writes)]

(* A capture succeeds with everything the child wrote, in order, and only  *)
(* when the child ended well; what is kept of either stream is bounded     *)
(* whatever the child writes.                                              *)
CaptureIsWhole ==
    /\ reader = "captured" =>
          /\ program.code = 0
          /\ stdout = Output
    /\ Len(stdout) <= MaxDump + 1 /\ Len(stderr) <= MaxStderr
=============================================================================
