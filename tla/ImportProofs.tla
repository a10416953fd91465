---------------------------- MODULE ImportProofs ----------------------------
(***************************************************************************)
(* Of the decoders, for every source.  A capture that succeeds has all     *)
(* that the child wrote, in order, whatever the sizes of the pipes.  While *)
(* a git history is imported, the snapshot cache holds exactly the trees   *)
(* that were asked for and will be again.  And an import that is done has  *)
(* made exactly the history that git's carried refs lead to, or that       *)
(* Mercurial publishes, or the trees that Subversion's dump describes, with *)
(* a ref for each root.                                                    *)
(***************************************************************************)
EXTENDS Import, DataInduction

Items(p) == {p.writes[n].item : n \in 1..Len(p.writes)}

LEMMA WrittenToGrows ==
    ASSUME NEW p, IsProgram(p), NEW stream
    PROVE  /\ \A n \in 0..Len(p.writes) : WrittenTo(p, stream)[n] \in Seq(Items(p))
           /\ WrittenTo(p, stream)[0] = <<>>
           /\ \A n \in 0..(Len(p.writes) - 1) :
                 WrittenTo(p, stream)[n + 1] =
                    IF p.writes[n + 1].to = stream
                    THEN Append(WrittenTo(p, stream)[n], p.writes[n + 1].item)
                    ELSE WrittenTo(p, stream)[n]
PROOF
<1> DEFINE N == Len(p.writes)
           T == Seq(Items(p))
           Of(n, f) == IF n = 0 THEN <<>>
                       ELSE IF p.writes[n].to = stream THEN Append(f[n - 1], p.writes[n].item)
                       ELSE f[n - 1]
           Eq(f) == f = [n \in 0..N |-> Of(n, f)]
           Next1(n, t) == IF p.writes[n + 1].to = stream THEN Append(t, p.writes[n + 1].item) ELSE t
           D == [q \in Nat \X T |-> IF q[1] < N THEN Next1(q[1], q[2]) ELSE q[2]]
<1>1. N \in Nat /\ \A n \in 0..(N - 1) : p.writes[n + 1].item \in Items(p)
  BY DEF IsProgram, Items
<1> HIDE DEF N
<1>2. D \in [Nat \X T -> T]
  <2>1. \A n \in Nat, t \in T : n < N => Next1(n, t) \in T
    BY <1>1
  <2> HIDE DEF Next1, T
  <2> QED
    BY <2>1
<1>3. <<>> \in T
  OBVIOUS
<1>4. PICK f : IsRun(f, N, T, <<>>, D)
  <2> HIDE DEF T, D
  <2> QED
    BY <1>1, <1>2, <1>3, LoopHasRun
<1>5. f \in [0..N -> T] /\ f[0] = <<>> /\ \A n \in 0..(N - 1) : f[n + 1] = Next1(n, f[n])
  <2>1. f \in [0..N -> T] /\ f[0] = <<>> /\ \A n \in 0..(N - 1) : f[n + 1] = D[<<n, f[n]>>]
    BY <1>4 DEF IsRun
  <2>2. \A n \in 0..(N - 1) : n \in Nat /\ n < N /\ f[n] \in T
    <3> HIDE DEF T
    <3> QED
      BY <1>1, <2>1
  <2>3. ASSUME NEW n \in 0..(N - 1) PROVE f[n + 1] = Next1(n, f[n])
    <3>1. n \in Nat /\ n < N /\ f[n] \in T
      BY <2>2
    <3>2. \A m \in Nat, t \in T : m < N => D[<<m, t>>] = Next1(m, t)
      <4> HIDE DEF T, Next1
      <4> QED
        BY DEF D
    <3> HIDE DEF T, D, Next1
    <3> QED
      BY <2>1, <3>1, <3>2
  <2> QED
    BY <2>1, <2>3
<1>6. Eq(f)
  <2>1. ASSUME NEW n \in 0..N PROVE f[n] = Of(n, f)
    <3>1. CASE n = 0
      BY <1>5, <3>1
    <3>2. CASE n # 0
      <4>1. n - 1 \in 0..(N - 1) /\ (n - 1) + 1 = n
        BY <1>1, <3>2
      <4>2. f[(n - 1) + 1] = Next1(n - 1, f[n - 1])
        BY <1>5, <4>1
      <4> QED
        BY <3>2, <4>1, <4>2
    <3> QED
      BY <3>1, <3>2
  <2> HIDE DEF Of, T
  <2> QED
    BY <1>5, <2>1
<1> DEFINE g == CHOOSE h : Eq(h)
<1>7. Eq(g)
  <2> HIDE DEF Eq
  <2> QED
    BY <1>6
<1>8. WrittenTo(p, stream) = g
  BY DEF WrittenTo, N
<1> HIDE DEF g
<1>9. g[0] = <<>> /\ \A n \in 0..(N - 1) : g[n + 1] = Next1(n, g[n])
  <2>1. 0 \in 0..N /\ \A n \in 0..(N - 1) : n + 1 \in 0..N /\ n + 1 # 0 /\ (n + 1) - 1 = n
    BY <1>1
  <2>2. \A n \in 0..N : g[n] = Of(n, g)
    <3> HIDE DEF Of
    <3> QED
      BY <1>7
  <2> QED
    BY <2>1, <2>2
<1> DEFINE U == {n \in 0..N : g[n] \in T}
<1>10. 0..N \subseteq U
  <2>1. 0 \in U
    <3> HIDE DEF T
    <3> QED
      BY <1>1, <1>3, <1>9
  <2>2. ASSUME NEW n \in 0..(N - 1), n \in U PROVE n + 1 \in U
    <3>1. g[n] \in T /\ p.writes[n + 1].item \in Items(p) /\ n + 1 \in 0..N
      BY <1>1, <2>2
    <3> DEFINE t == g[n]
               c == p.writes[n + 1].item
    <3>2. Append(t, c) \in T
      <4>1. t \in Seq(Items(p)) /\ c \in Items(p)
        BY <3>1
      <4> HIDE DEF t, c
      <4> QED
        BY <4>1
    <3>3. g[n + 1] \in {t, Append(t, c)}
      BY <1>9
    <3> HIDE DEF T, t, c
    <3>4. t \in T
      BY <3>1 DEF t
    <3> QED
      BY <3>1, <3>2, <3>3, <3>4
  <2> HIDE DEF U
  <2> QED
    BY <1>1, <2>1, <2>2, BoundedInduction
<1> QED
  BY <1>8, <1>9, <1>10 DEF N

-----------------------------------------------------------------------------
(* What the decoder read and what is still in the pipe is what the child   *)
(* wrote so far; the child has exited only behind its last write; and the  *)
(* decoder leaves off below the ceiling only when the pipe is at its end.  *)

Sane ==
    /\ IsProgram(program)
    /\ process = [written |-> process.written, state |-> process.state]
    /\ process.written \in 0..Len(program.writes)
    /\ pipe \in [Streams -> Seq(Items(program))]
    /\ stdout \in Seq(Items(program)) /\ stderr \in Seq(Items(program))
    /\ Len(stdout) <= MaxDump + 1 /\ Len(stderr) <= MaxStderr

ReadInOrder == stdout \o pipe["out"] = WrittenTo(program, "out")[process.written]

EndsInOrder ==
    /\ process.state = "exited" => process.written = Len(program.writes)
    /\ reader \in {"wait", "join", "captured"} /\ ~Overflowed => AtEnd("out")
    /\ reader = "captured" => Succeeded

CaptureInv == Sane /\ ReadInOrder /\ EndsInOrder

LEMMA CaptureInvIsEnough == CaptureInv => CaptureIsWhole
PROOF
<1> SUFFICES ASSUME CaptureInv PROVE CaptureIsWhole
  OBVIOUS
<1>1. ASSUME reader = "captured" PROVE program.code = 0 /\ stdout = Output
  <2>1. pipe["out"] = <<>> /\ process.written = Len(program.writes) /\ program.code = 0
    BY <1>1 DEF CaptureInv, EndsInOrder, Succeeded, AtEnd
  <2>2. stdout \o <<>> = stdout
    BY DEF CaptureInv, Sane
  <2> QED
    BY <2>1, <2>2 DEF CaptureInv, ReadInOrder, Output
<1> QED
  BY <1>1 DEF CaptureInv, Sane, CaptureIsWhole

LEMMA CaptureStarts ==
    ASSUME NEW p, IsProgram(p), CaptureInit(p)
    PROVE  CaptureInv
PROOF
<1>1. Len(p.writes) \in Nat
  BY DEF IsProgram
<1>2. Sane
  <2> DEFINE S == Items(p)
  <2>1. <<>> \in Seq(S) /\ Len(<<>>) = 0
    OBVIOUS
  <2> HIDE DEF S
  <2>2. pipe \in [Streams -> Seq(S)]
    BY <2>1 DEF CaptureInit
  <2>3. MaxDump + 1 >= 0 /\ MaxStderr >= 0 /\ 0 \in 0..Len(p.writes)
    BY <1>1, CaptureLimits
  <2>4. process = [written |-> process.written, state |-> process.state] /\ process.written = 0
    BY DEF CaptureInit
  <2> QED
    BY <2>1, <2>2, <2>3, <2>4 DEF CaptureInit, Sane, S
<1>3. <<>> \o <<>> = <<>>
  OBVIOUS
<1>4. ReadInOrder
  BY <1>3, WrittenToGrows DEF CaptureInit, ReadInOrder, Streams
<1>5. EndsInOrder
  BY DEF CaptureInit, EndsInOrder
<1> QED
  BY <1>2, <1>4, <1>5 DEF CaptureInv

LEMMA WriteKeepsCapture == CaptureInv /\ Write => CaptureInv'
PROOF
<1> SUFFICES ASSUME CaptureInv, Write PROVE CaptureInv'
  OBVIOUS
<1> DEFINE next == program.writes[process.written + 1]
           w == process.written
           N == Len(program.writes)
<1>1. /\ program' = program /\ reader' = reader /\ stdout' = stdout /\ stderr' = stderr
      /\ Running /\ w \in 0..(N - 1) /\ w + 1 \in 1..N /\ N \in Nat
      /\ next.item \in Items(program) /\ next.to \in Streams
  <2>1. w \in 0..N /\ w < N /\ N \in Nat /\ IsProgram(program)
    BY DEF Write, CaptureInv, Sane, IsProgram
  <2>2. w \in 0..(N - 1) /\ w + 1 \in 1..N
    <3> HIDE DEF w, N
    <3> QED
      BY <2>1
  <2>3. next.item \in Items(program) /\ next.to \in Streams
    BY <2>1, <2>2 DEF IsProgram, Items
  <2> QED
    BY <2>1, <2>2, <2>3 DEF Write
<1>2. CASE HeldOpen(next.to) /\ pipe' = [pipe EXCEPT ![next.to] = Append(@, next.item)]
           /\ process' = [process EXCEPT !.written = @ + 1]
  <2>1. process' = [written |-> w + 1, state |-> process.state] /\ process.state = "running"
    BY <1>1, <1>2 DEF CaptureInv, Sane, Running
  <2>2. Append(pipe[next.to], next.item) \in Seq(Items(program))
    BY <1>1 DEF CaptureInv, Sane
  <2> HIDE DEF next, w
  <2>3. Sane'
    <3> DEFINE S == Seq(Items(program))
               added == Append(pipe[next.to], next.item)
    <3>1. pipe \in [Streams -> S] /\ pipe' = [pipe EXCEPT ![next.to] = added] /\ added \in S
      BY <1>2, <2>2 DEF CaptureInv, Sane
    <3>2. pipe' \in [Streams -> S]
      <4> HIDE DEF S, added
      <4> QED
        BY <1>1, <3>1
    <3>3. w + 1 \in 0..N
      BY <1>1
    <3>4. process' = [written |-> process'.written, state |-> process'.state] /\ process'.written = w + 1
      BY <2>1
    <3> HIDE DEF added
    <3> QED
      BY <1>1, <3>2, <3>3, <3>4 DEF CaptureInv, Sane
  <2>4. ReadInOrder'
    <3> DEFINE q == pipe["out"]
               S == Seq(Items(program))
    <3>1. WrittenTo(program, "out")[w + 1] =
             IF next.to = "out" THEN Append(WrittenTo(program, "out")[w], next.item)
             ELSE WrittenTo(program, "out")[w]
      BY <1>1, WrittenToGrows DEF CaptureInv, Sane, next, w
    <3>2. stdout \in S /\ q \in S /\ stdout \o q = WrittenTo(program, "out")[w]
      BY DEF CaptureInv, Sane, ReadInOrder, Streams, w
    <3>3. pipe'["out"] = IF next.to = "out" THEN Append(q, next.item) ELSE q
      BY <1>1, <1>2 DEF CaptureInv, Sane, Streams
    <3> HIDE DEF q
    <3>4. stdout \o Append(q, next.item) = Append(stdout \o q, next.item)
      <4> DEFINE c == next.item
                 I == Items(program)
      <4>1. c \in I /\ stdout \in Seq(I) /\ q \in Seq(I)
        BY <1>1, <3>2
      <4> HIDE DEF c, I
      <4> QED
        BY <4>1, OneMore
    <3>5. process'.written = w + 1
      BY <2>1
    <3> HIDE DEF S
    <3> QED
      BY <1>1, <3>1, <3>2, <3>3, <3>4, <3>5 DEF ReadInOrder
  <2>5. EndsInOrder'
    <3>1. Running' /\ process'.state = "running"
      BY <2>1 DEF Running
    <3>2. ~(reader \in {"wait", "join", "captured"} /\ ~Overflowed)
      BY <1>1 DEF CaptureInv, EndsInOrder, AtEnd
    <3>3. reader # "captured"
      BY <1>1 DEF CaptureInv, EndsInOrder, Succeeded, Running
    <3> QED
      BY <1>1, <3>1, <3>2, <3>3 DEF EndsInOrder, Overflowed
  <2> QED
    BY <2>3, <2>4, <2>5 DEF CaptureInv
<1>3. CASE process' = [process EXCEPT !.state = "killed"] /\ pipe' = pipe
  <2>1. process' = [written |-> w, state |-> "killed"]
    BY <1>3 DEF CaptureInv, Sane
  <2>2. Sane' /\ ReadInOrder'
    BY <1>1, <1>3, <2>1 DEF CaptureInv, Sane, ReadInOrder
  <2>3. ~(reader \in {"wait", "join", "captured"} /\ ~Overflowed) /\ reader # "captured"
    BY <1>1 DEF CaptureInv, EndsInOrder, AtEnd, Succeeded, Running
  <2> QED
    BY <1>1, <2>1, <2>2, <2>3 DEF CaptureInv, EndsInOrder, Overflowed
<1> QED
  BY <1>2, <1>3 DEF Write

LEMMA ExitKeepsCapture == CaptureInv /\ Exit => CaptureInv'
PROOF
<1> SUFFICES ASSUME CaptureInv, Exit PROVE CaptureInv'
  OBVIOUS
<1>1. process' = [written |-> process.written, state |-> "exited"] /\ process.state = "running"
  BY DEF Exit, CaptureInv, Sane, Running
<1>2. Sane' /\ ReadInOrder'
  BY <1>1 DEF Exit, CaptureInv, Sane, ReadInOrder
<1>3. ~(reader \in {"wait", "join", "captured"} /\ ~Overflowed) /\ reader # "captured"
  BY <1>1 DEF CaptureInv, EndsInOrder, AtEnd, Succeeded, Running
<1> QED
  BY <1>1, <1>2, <1>3 DEF Exit, CaptureInv, EndsInOrder, Overflowed

LEMMA DrainerKeepsCapture == CaptureInv /\ DrainerStep => CaptureInv'
PROOF
<1> SUFFICES ASSUME CaptureInv, DrainerStep PROVE CaptureInv'
  OBVIOUS
<1>1. /\ program' = program /\ process' = process /\ reader' = reader /\ stdout' = stdout
      /\ pipe'["out"] = pipe["out"]
  BY DEF DrainerStep, Drain, DrainerEnds, CaptureInv, Sane, Streams
<1>2. Sane'
  <2>1. CASE Drain
    <3> DEFINE q == pipe["err"]
               S == Seq(Items(program))
    <3>1. q \in S /\ q # <<>> /\ stderr \in S /\ MaxStderr \in Nat /\ Len(stderr) <= MaxStderr
      BY <2>1, CaptureLimits DEF Drain, CaptureInv, Sane, Streams
    <3>2. stderr' = IF Len(stderr) < MaxStderr THEN Append(stderr, Head(q)) ELSE stderr
      BY <2>1 DEF Drain
    <3>3. pipe' = [pipe EXCEPT !["err"] = Tail(q)]
      BY <2>1 DEF Drain
    <3> HIDE DEF q
    <3>4. Tail(q) \in S /\ stderr' \in S /\ Len(stderr') <= MaxStderr
      BY <3>1, <3>2
    <3> QED
      BY <1>1, <3>3, <3>4 DEF CaptureInv, Sane
  <2>2. CASE DrainerEnds
    BY <2>2 DEF DrainerEnds, CaptureInv, Sane
  <2> QED
    BY <2>1, <2>2 DEF DrainerStep
<1>3. ReadInOrder'
  BY <1>1 DEF CaptureInv, ReadInOrder
<1>4. EndsInOrder'
  BY <1>1 DEF CaptureInv, EndsInOrder, AtEnd, Running, Overflowed, Succeeded
<1> QED
  BY <1>2, <1>3, <1>4 DEF CaptureInv

LEMMA ReaderKeepsCapture == CaptureInv /\ ReaderStep => CaptureInv'
PROOF
<1> SUFFICES ASSUME CaptureInv, ReaderStep PROVE CaptureInv'
  OBVIOUS
<1>1. CASE Spawn
  <2>1. process' = [written |-> process.written, state |-> process'.state]
        /\ (process'.state = "exited" => process.state = "exited")
    BY <1>1 DEF Spawn, CaptureInv, Sane
  <2>2. Sane' /\ ReadInOrder'
    BY <1>1, <2>1 DEF Spawn, CaptureInv, Sane, ReadInOrder
  <2>3. reader' \in {"read", "not run"}
    BY <1>1 DEF Spawn
  <2> QED
    BY <1>1, <2>1, <2>2, <2>3 DEF Spawn, CaptureInv, EndsInOrder
<1>2. CASE ReadOutput
  <2> DEFINE q == pipe["out"]
             S == Seq(Items(program))
  <2>1. program' = program /\ process' = process /\ stderr' = stderr
    BY <1>2 DEF ReadOutput
  <2>2. CASE q # <<>> /\ stdout' = Append(stdout, Head(q)) /\ pipe' = [pipe EXCEPT !["out"] = Tail(q)]
             /\ reader' = reader
    <3>1. q \in S /\ stdout \in S /\ MaxDump \in Nat /\ Len(stdout) <= MaxDump /\ "out" \in Streams
      BY <1>2, CaptureLimits DEF ReadOutput, Overflowed, CaptureInv, Sane, Streams
    <3>2. reader = "read"
      BY <1>2 DEF ReadOutput
    <3>3. pipe'["out"] = Tail(q)
      BY <2>2 DEF CaptureInv, Sane, Streams
    <3> HIDE DEF q
    <3>4. /\ Tail(q) \in S /\ Append(stdout, Head(q)) \in S
          /\ Len(Append(stdout, Head(q))) <= MaxDump + 1
          /\ Append(stdout, Head(q)) \o Tail(q) = stdout \o q
      BY <2>2, <3>1
    <3>5. Sane'
      BY <2>1, <2>2, <3>1, <3>4 DEF CaptureInv, Sane
    <3>6. ReadInOrder'
      BY <2>1, <2>2, <3>3, <3>4 DEF CaptureInv, ReadInOrder, q
    <3>7. EndsInOrder'
      BY <2>1, <2>2, <3>2 DEF CaptureInv, EndsInOrder
    <3> QED
      BY <3>5, <3>6, <3>7 DEF CaptureInv
  <2>3. CASE AtEnd("out") /\ reader' = "wait" /\ stdout' = stdout /\ pipe' = pipe
    BY <2>1, <2>3 DEF CaptureInv, Sane, ReadInOrder, EndsInOrder, AtEnd, Running
  <2> QED
    BY <1>2, <2>2, <2>3 DEF ReadOutput
<1>3. CASE Kill
  <2>1. /\ process' = [written |-> process.written, state |-> process'.state]
        /\ process'.state \in {process.state, "killed"}
    BY <1>3 DEF Kill, CaptureInv, Sane
  <2>2. Sane' /\ ReadInOrder'
    BY <1>3, <2>1 DEF Kill, CaptureInv, Sane, ReadInOrder
  <2>3. reader' = "wait" /\ Overflowed'
    BY <1>3 DEF Kill, Overflowed
  <2>4. process'.state = "exited" => process'.written = Len(program'.writes)
    BY <1>3, <2>1 DEF Kill, CaptureInv, EndsInOrder
  <2> QED
    BY <2>2, <2>3, <2>4 DEF CaptureInv, EndsInOrder
<1>4. CASE Wait
  <2>1. Sane' /\ ReadInOrder'
    BY <1>4 DEF Wait, CaptureInv, Sane, ReadInOrder
  <2> QED
    BY <1>4, <2>1 DEF Wait, CaptureInv, EndsInOrder, AtEnd, Running, Overflowed
<1>5. CASE Join
  <2>1. Sane' /\ ReadInOrder'
    BY <1>5 DEF Join, CaptureInv, Sane, ReadInOrder
  <2>2. reader' = "captured" => Succeeded
    BY <1>5 DEF Join
  <2>3. ~Overflowed => AtEnd("out")
    BY <1>5 DEF Join, CaptureInv, EndsInOrder
  <2> QED
    BY <1>5, <2>1, <2>2, <2>3 DEF Join, CaptureInv, EndsInOrder, AtEnd, Running, Overflowed, Succeeded
<1> QED
  BY <1>1, <1>2, <1>3, <1>4, <1>5 DEF ReaderStep

LEMMA CaptureInvHolds == Spec => []CaptureInv
PROOF
<1>1. Init => CaptureInv
  <2> SUFFICES ASSUME Init PROVE CaptureInv
    OBVIOUS
  <2>1. PICK source \in Sources : CaptureInit(IF source.kind = "svn" THEN source.program ELSE NoProgram)
    BY DEF Init
  <2>2. IsProgram(NoProgram)
    BY DEF IsProgram, NoProgram
  <2> QED
    BY <2>1, <2>2, SourcePrograms, CaptureStarts
<1>2. CaptureInv /\ UNCHANGED captureVars => CaptureInv'
  BY DEF captureVars, CaptureInv, Sane, ReadInOrder, EndsInOrder, AtEnd, Running, Overflowed, Succeeded
<1>3. CaptureInv /\ [Next]_vars => CaptureInv'
  <2> SUFFICES ASSUME CaptureInv, [Next]_vars PROVE CaptureInv'
    OBVIOUS
  <2>1. CASE Reader
    BY <2>1, ReaderKeepsCapture DEF Reader, DecoderReads, During
  <2>2. CASE Thread
    BY <2>2, DrainerKeepsCapture DEF Thread, ThreadRuns, During
  <2>3. CASE Child
    BY <2>3, WriteKeepsCapture, ExitKeepsCapture DEF Child, ChildRuns, During, ChildStep
  <2>4. CASE Decoder \/ Verifier \/ UNCHANGED vars
    <3>1. UNCHANGED captureVars
      BY <2>4 DEF Decoder, Verifier, SvnStep, vars
    <3> QED
      BY <3>1, <1>2
  <2> QED
    BY <2>1, <2>2, <2>3, <2>4 DEF Next
<1> QED
  BY <1>1, <1>3, PTL DEF Spec

\* However much svnadmin writes to either pipe, in whatever turns it, the thread
\* and the decoder run, and whatever the pipes hold: a capture that succeeds has
\* the whole output of a child that ended well.
THEOREM CapturesAreWhole == Spec => []CaptureIsWhole
PROOF BY CaptureInvIsEnough, CaptureInvHolds, PTL

-----------------------------------------------------------------------------
(* Each decoder moves between stages of its own until it ends, and the     *)
(* verification of an artifact begins where a decode was done.             *)
GitStages == {"git open", "git scan", "git import"}
HgStages == {"hg open", "hg view", "hg import"}
SvnStages == {"svn load", "svn capture", "svn parse", "svn apply"}
CvsStages == {"cvs open", "cvs scan", "cvs gather", "cvs build"}
VerifyStages == {"verify read", "verify begin", "verify replay", "verify checks",
                 "verify source", "verified"}
Ends == {"done", "failed"}

Stays(from, to) == stage \in from /\ stage' \in to /\ input' = input

LEMMA Moves ==
    /\ \A why : Fail(why) => stage' = "failed" /\ input' = input
    /\ \A next : Goto(next) => stage' = next /\ input' = input
    /\ \A refs, drops, flags : Finish(refs, drops, flags) => stage' \in Ends /\ input' = input
PROOF
<1>1. \A why : Fail(why) => stage' = "failed" /\ input' = input
  BY DEF Fail
<1>2. \A next : Goto(next) => stage' = next /\ input' = input
  BY DEF Goto
<1>3. \A refs, drops, flags : Finish(refs, drops, flags) => stage' \in Ends /\ input' = input
  BY <1>1, <1>2 DEF Finish, Ends
<1> QED
  BY <1>1, <1>2, <1>3

LEMMA HgStays == HgNext => Stays(HgStages, HgStages \cup Ends)
PROOF
<1>1. OpenHg => Stays(HgStages, HgStages \cup Ends)
  BY Moves DEF OpenHg, Stays, HgStages, Ends
<1>2. ComputeView => Stays(HgStages, HgStages \cup Ends)
  BY Moves DEF ComputeView, Stays, HgStages, Ends
<1>3. SkipChangeset => Stays(HgStages, HgStages \cup Ends)
  BY Moves DEF SkipChangeset, Stays, HgStages, Ends
<1>4. ImportChangeset => Stays(HgStages, HgStages \cup Ends)
  BY Moves DEF ImportChangeset, ImportOver, Stays, HgStages, Ends
<1>5. FinishHg => Stays(HgStages, HgStages \cup Ends)
  BY Moves DEF FinishHg, Stays, HgStages, Ends
<1> QED
  BY <1>1, <1>2, <1>3, <1>4, <1>5 DEF HgNext

LEMMA GitStays == GitNext => Stays(GitStages, GitStages \cup Ends)
PROOF
<1>1. OpenRepository => Stays(GitStages, GitStages \cup Ends)
  BY Moves DEF OpenRepository, Stays, GitStages, Ends
<1>2. ScanRef => Stays(GitStages, GitStages \cup Ends)
  BY Moves DEF ScanRef, Stays, GitStages, Ends
<1>3. WalkHistory => Stays(GitStages, GitStages \cup Ends)
  BY Moves DEF WalkHistory, Stays, GitStages, Ends
<1>4. ImportCommit => Stays(GitStages, GitStages \cup Ends)
  BY Moves DEF ImportCommit, Stays, GitStages, Ends
<1>5. FinishGit => Stays(GitStages, GitStages \cup Ends)
  BY Moves DEF FinishGit, Stays, GitStages, Ends
<1> QED
  BY <1>1, <1>2, <1>3, <1>4, <1>5 DEF GitNext

LEMMA SvnStays == SvnStep => Stays(SvnStages, SvnStages \cup Ends)
PROOF
<1>1. LoadDump => Stays(SvnStages, SvnStages \cup Ends)
  BY Moves DEF LoadDump, Stays, SvnStages, Ends
<1>2. Captured => Stays(SvnStages, SvnStages \cup Ends)
  BY Moves DEF Captured, Stays, SvnStages, Ends
<1>3. ParseRecord => Stays(SvnStages, SvnStages \cup Ends)
  BY Moves DEF ParseRecord, Stays, SvnStages, Ends
<1>4. DumpParsed => Stays(SvnStages, SvnStages \cup Ends)
  BY Moves DEF DumpParsed, Stays, SvnStages, Ends
<1>5. ApplyNode => Stays(SvnStages, SvnStages \cup Ends)
  BY Moves DEF ApplyNode, Applying, Stays, SvnStages, Ends
<1>6. EndRevision => Stays(SvnStages, SvnStages \cup Ends)
  BY Moves DEF EndRevision, Stays, SvnStages, Ends
<1>7. FinishSvn => Stays(SvnStages, SvnStages \cup Ends)
  BY Moves DEF FinishSvn, Stays, SvnStages, Ends
<1> QED
  BY <1>1, <1>2, <1>3, <1>4, <1>5, <1>6, <1>7 DEF SvnStep

LEMMA CvsStays == CvsNext => Stays(CvsStages, CvsStages \cup Ends)
PROOF
<1>1. ResolveCvs => Stays(CvsStages, CvsStages \cup Ends)
  BY Moves DEF ResolveCvs, Stays, CvsStages, Ends
<1>2. ScanEntry => Stays(CvsStages, CvsStages \cup Ends)
  BY Moves DEF ScanEntry, Stays, CvsStages, Ends
<1>3. EndScan => Stays(CvsStages, CvsStages \cup Ends)
  BY Moves DEF EndScan, Stays, CvsStages, Ends
<1>4. GatherFile => Stays(CvsStages, CvsStages \cup Ends)
  BY Moves DEF GatherFile, GatherRead, Stays, CvsStages, Ends
<1>5. PlanLines => Stays(CvsStages, CvsStages \cup Ends)
  BY Moves DEF PlanLines, Stays, CvsStages, Ends
<1>6. BuildChangeset => Stays(CvsStages, CvsStages \cup Ends)
  BY Moves DEF BuildChangeset, Stays, CvsStages, Ends
<1>7. CutBranch => Stays(CvsStages, CvsStages \cup Ends)
  BY Moves DEF CutBranch, Stays, CvsStages, Ends
<1>8. FinishCvs => Stays(CvsStages, CvsStages \cup Ends)
  BY Moves DEF FinishCvs, Stays, CvsStages, Ends
<1> QED
  BY <1>1, <1>2, <1>3, <1>4, <1>5, <1>6, <1>7, <1>8 DEF CvsNext

LEMMA VerifyStays == VerifyNext => Stays(VerifyStages \cup {"done"}, VerifyStages)
PROOF
<1>1. VerifyArtifact => Stays(VerifyStages \cup {"done"}, VerifyStages)
  BY Moves DEF VerifyArtifact, Stays, VerifyStages
<1>2. ReplayBegins => Stays(VerifyStages \cup {"done"}, VerifyStages)
  BY Moves DEF ReplayBegins, Stays, VerifyStages
<1>3. ReplayAtom => Stays(VerifyStages \cup {"done"}, VerifyStages)
  BY Moves DEF ReplayAtom, Stays, VerifyStages
<1>4. ReplayEnds => Stays(VerifyStages \cup {"done"}, VerifyStages)
  BY Moves DEF ReplayEnds, Stays, VerifyStages
<1>5. RunChecks => Stays(VerifyStages \cup {"done"}, VerifyStages)
  BY Moves DEF RunChecks, Stays, VerifyStages
<1>6. CompareWithSource => Stays(VerifyStages \cup {"done"}, VerifyStages)
  BY Moves DEF CompareWithSource, Stays, VerifyStages
<1> QED
  BY <1>1, <1>2, <1>3, <1>4, <1>5, <1>6 DEF VerifyNext

-----------------------------------------------------------------------------
(* The walk takes in everything its commits name: once a round adds no     *)
(* commit, the next adds nothing, and there are as many rounds as commits. *)
LEMMA ReachIsClosed ==
    ASSUME IsFiniteSet(DOMAIN input.objects), NEW tips
    PROVE  /\ tips \subseteq Reach(tips)
           /\ \A c \in Commits(Reach(tips)) : ToSet(Obj(c).parents) \subseteq Reach(tips)
PROOF
<1> DEFINE all == Commits(DOMAIN input.objects)
           N == Cardinality(all)
           Grow(near) == near \cup UNION {ToSet(Obj(c).parents) : c \in Commits(near)}
           U == tips \cup UNION {ToSet(Obj(c).parents) : c \in all}
           T == SUBSET U
           D == [q \in Nat \X T |-> Grow(q[2])]
           Eq(f) == f = [n \in 0..N |-> IF n = 0 THEN tips ELSE Grow(f[n - 1])]
           g == CHOOSE f : Eq(f)
<1>1. IsFiniteSet(all) /\ N \in Nat
  <2>1. all \subseteq DOMAIN input.objects
    BY DEF Commits
  <2> QED
    BY <2>1, FS_Subset, FS_CardinalityType
<1>2. \A near : Commits(near) \subseteq all /\ Commits(near) \subseteq near
  BY DEF Commits, HasKind, Exists
<1>3. Reach(tips) = g[N]
  BY DEF Reach
<1>4. \A near \in T : Grow(near) \in T
  BY <1>2
<1>5. D \in [Nat \X T -> T] /\ tips \in T
  <2> HIDE DEF Grow
  <2>1. tips \in T
    OBVIOUS
  <2> HIDE DEF T
  <2> QED
    BY <1>4, <2>1
<1>6. \A n \in Nat, near \in T : D[<<n, near>>] = Grow(near)
  <2> HIDE DEF Grow, T
  <2> QED
    OBVIOUS
<1> HIDE DEF all, N, Grow, U, T, D
<1>7. PICK f : IsRun(f, N, T, tips, D)
  BY <1>1, <1>5, LoopHasRun
<1>8. Eq(f)
  <2>1. f \in [0..N -> T] /\ f[0] = tips /\ \A n \in 0..(N - 1) : f[n + 1] = D[<<n, f[n]>>]
    BY <1>7 DEF IsRun
  <2>2. ASSUME NEW n \in 0..N PROVE f[n] = IF n = 0 THEN tips ELSE Grow(f[n - 1])
    <3>1. CASE n = 0
      BY <2>1, <3>1
    <3>2. CASE n # 0
      <4>1. n - 1 \in 0..(N - 1) /\ n - 1 \in 0..N /\ n - 1 \in Nat /\ (n - 1) + 1 = n
        BY <1>1, <3>2
      <4>2. f[(n - 1) + 1] = D[<<n - 1, f[n - 1]>>] /\ f[n - 1] \in T
        BY <2>1, <4>1
      <4> QED
        BY <1>6, <3>2, <4>1, <4>2
    <3> QED
      BY <3>1, <3>2
  <2> QED
    BY <2>1, <2>2
<1>9. Eq(g)
  <2> HIDE DEF Eq
  <2> QED
    BY <1>8
<1> HIDE DEF g
<1>10. g[0] = tips /\ \A n \in 0..(N - 1) : g[n + 1] = Grow(g[n])
  <2>1. 0 \in 0..N /\ \A n \in 0..(N - 1) : n + 1 \in 0..N /\ n + 1 # 0 /\ (n + 1) - 1 = n
    BY <1>1
  <2> QED
    BY <1>9, <2>1
<1>11. \A near : near \subseteq Grow(near)
  BY DEF Grow
<1>12. tips \subseteq g[N]
  <2> DEFINE V == {n \in 0..N : tips \subseteq g[n]}
  <2>1. 0 \in V
    BY <1>1, <1>10
  <2>2. ASSUME NEW n \in 0..(N - 1), n \in V PROVE n + 1 \in V
    <3>1. n + 1 \in 0..N /\ g[n] \subseteq g[n + 1]
      BY <1>1, <1>10, <1>11
    <3> QED
      BY <2>2, <3>1
  <2> HIDE DEF V
  <2>3. N \in V
    BY <1>1, <2>1, <2>2, BoundedInduction
  <2> QED
    BY <2>3 DEF V
<1>13. Grow(g[N]) = g[N]
  <2> SUFFICES ASSUME Grow(g[N]) # g[N] PROVE FALSE
    OBVIOUS
  <2> DEFINE V == {n \in 0..N : Grow(g[n]) # g[n]}
             W == {n \in 0..N : Cardinality(Commits(g[n])) >= n + 1}
  <2>1. 0..N \subseteq V
    <3>1. N \in V
      BY <1>1
    <3>2. ASSUME NEW n \in 1..N, n \in V PROVE n - 1 \in V
      <4>1. n - 1 \in 0..(N - 1) /\ (n - 1) + 1 = n /\ n - 1 \in 0..N
        BY <1>1
      <4>2. g[n] = Grow(g[n - 1]) /\ Grow(g[n]) # g[n]
        BY <1>10, <3>2, <4>1
      <4> QED
        BY <4>1, <4>2
    <3> HIDE DEF V
    <3> QED
      BY <1>1, <3>1, <3>2, DownwardInduction
  <2>2. \A near : IsFiniteSet(Commits(near)) /\ Cardinality(Commits(near)) \in Nat
    BY <1>1, <1>2, FS_Subset, FS_CardinalityType
  <2>3. 0 \in W
    <3>1. Grow(tips) # tips
      BY <1>1, <1>10, <2>1
    <3>2. Commits(tips) # {}
      BY <3>1 DEF Grow
    <3>3. Cardinality(Commits(tips)) # 0
      BY <2>2, <3>2, FS_EmptySet
    <3>4. Cardinality(Commits(g[0])) >= 0 + 1
      BY <1>10, <2>2, <3>3
    <3> QED
      BY <1>1, <3>4
  <2>4. ASSUME NEW n \in 0..(N - 1), n \in W PROVE n + 1 \in W
    <3>1. n + 1 \in 0..N /\ Grow(g[n + 1]) # g[n + 1] /\ g[n + 1] = Grow(g[n])
      BY <1>1, <1>10, <2>1
    <3>2. Commits(g[n]) \subseteq Commits(g[n + 1])
      BY <1>11, <3>1 DEF Commits
    <3>3. Commits(g[n]) # Commits(g[n + 1])
      BY <3>1 DEF Grow
    <3>4. Cardinality(Commits(g[n])) < Cardinality(Commits(g[n + 1]))
      BY <2>2, <3>2, <3>3, FS_Subset
    <3>5. Cardinality(Commits(g[n])) >= n + 1
      BY <2>4
    <3> QED
      BY <2>2, <3>1, <3>4, <3>5
  <2>5. N \in W
    <3> HIDE DEF W
    <3> QED
      BY <1>1, <2>3, <2>4, BoundedInduction
  <2>6. Cardinality(Commits(g[N])) >= N + 1
    BY <2>5
  <2>7. Cardinality(Commits(g[N])) <= N
    BY <1>1, <1>2, FS_Subset DEF N
  <2> QED
    BY <1>1, <2>2, <2>6, <2>7
<1>14. \A c \in Commits(g[N]) : ToSet(Obj(c).parents) \subseteq g[N]
  BY <1>13 DEF Grow
<1> QED
  BY <1>3, <1>12, <1>14

(* What is put in the order so far: distinct, each behind all its parents. *)
ParentsBefore(o) ==
    \A n \in 1..Len(o) : \A p \in ToSet(Obj(o[n]).parents) : \E m \in 1..(n - 1) : o[m] = p

IsOrder(o, ids) == o \in Seq(ids) /\ IsInjective(o) /\ ParentsBefore(o)

LEMMA OneMoreInOrder ==
    ASSUME NEW ids, NEW o, IsOrder(o, ids), NEW c \in ids \ ToSet(o),
           ToSet(Obj(c).parents) \subseteq ToSet(o)
    PROVE  IsOrder(Append(o, c), ids) /\ Len(Append(o, c)) = Len(o) + 1
PROOF
<1> DEFINE L == Len(o)
           q == Append(o, c)
<1>1. o \in Seq(ids) /\ L \in Nat /\ DOMAIN o = 1..L /\ IsInjective(o) /\ ParentsBefore(o)
  BY DEF IsOrder
<1>2. q \in Seq(ids) /\ Len(q) = L + 1 /\ DOMAIN q = 1..(L + 1) /\ q[L + 1] = c
      /\ \A n \in 1..L : q[n] = o[n]
  BY <1>1
<1> HIDE DEF q, L
<1>3. \A n \in 1..L : o[n] # c
  BY <1>1 DEF ToSet
<1>4. \A n \in 1..(L + 1) : n \in 1..L \/ n = L + 1
  BY <1>1
<1>5. IsInjective(q)
  <2> SUFFICES ASSUME NEW a \in 1..(L + 1), NEW b \in 1..(L + 1), q[a] = q[b] PROVE a = b
    BY <1>2 DEF IsInjective
  <2>1. CASE a \in 1..L /\ b \in 1..L
    BY <1>1, <1>2, <2>1 DEF IsInjective
  <2>2. CASE ~ (a \in 1..L /\ b \in 1..L)
    BY <1>2, <1>3, <1>4, <2>2
  <2> QED
    BY <2>1, <2>2
<1>6. ParentsBefore(q)
  <2> SUFFICES ASSUME NEW n \in 1..(L + 1), NEW p \in ToSet(Obj(q[n]).parents)
               PROVE  \E m \in 1..(n - 1) : q[m] = p
    BY <1>2 DEF ParentsBefore
  <2>1. CASE n \in 1..L
    <3>1. PICK m \in 1..(n - 1) : o[m] = p
      BY <1>1, <1>2, <2>1 DEF ParentsBefore, L
    <3>2. m \in 1..L
      BY <1>1, <2>1
    <3> QED
      BY <1>2, <3>1, <3>2
  <2>2. CASE n = L + 1
    <3>1. p \in ToSet(o)
      BY <1>2, <2>2
    <3>2. PICK m \in 1..L : o[m] = p
      BY <1>1, <3>1 DEF ToSet
    <3>3. m \in 1..(n - 1)
      BY <1>1, <2>2
    <3> QED
      BY <1>2, <3>2, <3>3
  <2> QED
    BY <1>4, <2>1, <2>2
<1> QED
  BY <1>2, <1>5, <1>6 DEF IsOrder, q, L

(* Kahn's algorithm takes every commit of a history without cycles, each   *)
(* once and behind its parents.                                            *)
LEMMA ParentFirstOrders ==
    ASSUME NEW ids, IsFiniteSet(ids), ids \subseteq Nat,
           \A c \in ids : ToSet(Obj(c).parents) \subseteq ids,
           \A S \in SUBSET ids : S # {} => \E c \in S : ToSet(Obj(c).parents) \cap S = {}
    PROVE  /\ IsOrder(ParentFirst(ids), ids)
           /\ Len(ParentFirst(ids)) = Cardinality(ids)
           /\ ToSet(ParentFirst(ids)) = ids
PROOF
<1> DEFINE N == Cardinality(ids)
           Ready(out) == {c \in ids \ ToSet(out) : ToSet(Obj(c).parents) \subseteq ToSet(out)}
           Add(out) == Append(out, Min(Ready(out)))
           X == ids \cup {Min({})}
           T == Seq(X)
           D == [q \in Nat \X T |-> Add(q[2])]
           Eq(f) == f = [n \in 0..N |-> IF n = 0 THEN <<>> ELSE Add(f[n - 1])]
           g == CHOOSE f : Eq(f)
<1>1. N \in Nat
  BY FS_CardinalityType
<1>2. ParentFirst(ids) = g[N]
  BY DEF ParentFirst
<1>3. \A out : Ready(out) # {} => Min(Ready(out)) \in Ready(out)
  BY MinIsLeast
<1>4. \A out : Min(Ready(out)) \in X
  <2> SUFFICES ASSUME NEW out PROVE Min(Ready(out)) \in X
    OBVIOUS
  <2>1. CASE Ready(out) = {}
    BY <2>1
  <2>2. CASE Ready(out) # {}
    <3>1. Min(Ready(out)) \in Ready(out) /\ Ready(out) \subseteq ids
      BY <1>3, <2>2
    <3> QED
      BY <3>1
  <2> QED
    BY <2>1, <2>2
<1> HIDE DEF N, X, Ready
<1>5. \A out \in T : Add(out) \in T
  BY <1>4
<1>6. D \in [Nat \X T -> T] /\ <<>> \in T
  <2>1. <<>> \in T
    OBVIOUS
  <2> HIDE DEF T, Add
  <2> QED
    BY <1>5, <2>1
<1>7. \A n \in Nat, out \in T : D[<<n, out>>] = Add(out)
  <2> HIDE DEF T, Add
  <2> QED
    OBVIOUS
<1> HIDE DEF T, D, Add
<1>8. PICK f : IsRun(f, N, T, <<>>, D)
  BY <1>1, <1>6, LoopHasRun
<1>9. Eq(f)
  <2>1. f \in [0..N -> T] /\ f[0] = <<>> /\ \A n \in 0..(N - 1) : f[n + 1] = D[<<n, f[n]>>]
    BY <1>8 DEF IsRun
  <2>2. ASSUME NEW n \in 0..N PROVE f[n] = IF n = 0 THEN <<>> ELSE Add(f[n - 1])
    <3>1. CASE n = 0
      BY <2>1, <3>1
    <3>2. CASE n # 0
      <4>1. n - 1 \in 0..(N - 1) /\ n - 1 \in 0..N /\ n - 1 \in Nat /\ (n - 1) + 1 = n
        BY <1>1, <3>2
      <4>2. f[(n - 1) + 1] = D[<<n - 1, f[n - 1]>>] /\ f[n - 1] \in T
        BY <2>1, <4>1
      <4> QED
        BY <1>7, <3>2, <4>1, <4>2
    <3> QED
      BY <3>1, <3>2
  <2> QED
    BY <2>1, <2>2
<1>10. Eq(g)
  <2> HIDE DEF Eq
  <2> QED
    BY <1>9
<1> HIDE DEF g
<1>11. g[0] = <<>> /\ \A n \in 0..(N - 1) : g[n + 1] = Add(g[n])
  <2>1. 0 \in 0..N /\ \A n \in 0..(N - 1) : n + 1 \in 0..N /\ n + 1 # 0 /\ (n + 1) - 1 = n
    BY <1>1
  <2> QED
    BY <1>10, <2>1
<1>12. ASSUME NEW o, IsOrder(o, ids) PROVE IsFiniteSet(ToSet(o)) /\ Cardinality(ToSet(o)) = Len(o)
  <2> DEFINE L == Len(o)
  <2>1. L \in Nat /\ o \in [1..L -> ids] /\ DOMAIN o = 1..L
    BY <1>12 DEF IsOrder
  <2> HIDE DEF L
  <2>2. IsFiniteSet(1..L) /\ Cardinality(1..L) = L
    BY <2>1, FS_Interval
  <2>3. o \in [1..L -> ToSet(o)] /\ \A z \in ToSet(o) : \E x \in 1..L : o[x] = z
    BY <2>1 DEF ToSet
  <2>4. \A x, y \in 1..L : o[x] = o[y] => x = y
    BY <1>12, <2>1 DEF IsOrder, IsInjective
  <2>5. IsFiniteSet(ToSet(o)) /\ Cardinality(ToSet(o)) = Cardinality(1..L)
    <3> DEFINE S == 1..L
               R == ToSet(o)
    <3>1. IsFiniteSet(S) /\ o \in [S -> R] /\ (\A x, y \in S : o[x] = o[y] => x = y)
          /\ \A z \in R : \E x \in S : o[x] = z
      BY <2>2, <2>3, <2>4
    <3>2. IsFiniteSet(R) /\ Cardinality(R) = Cardinality(S)
      <4> HIDE DEF S, R
      <4> QED
        BY <3>1, SameCount
    <3> QED
      BY <3>2
  <2> QED
    BY <2>2, <2>5 DEF L
<1>13. ASSUME NEW o, IsOrder(o, ids) PROVE ToSet(o) \subseteq ids
  BY <1>13 DEF IsOrder, ToSet
<1> DEFINE V == {n \in 0..N : IsOrder(g[n], ids) /\ Len(g[n]) = n}
<1>14. 0 \in V
  <2>1. IsOrder(<<>>, ids) /\ Len(<<>>) = 0
    BY DEF IsOrder, IsInjective, ParentsBefore
  <2> QED
    BY <1>1, <1>11, <2>1
<1>15. ASSUME NEW n \in 0..(N - 1), n \in V PROVE n + 1 \in V
  <2> DEFINE o == g[n]
             c == Min(Ready(o))
  <2>1. IsOrder(o, ids) /\ Len(o) = n /\ n \in Nat /\ n # N /\ n + 1 \in 0..N
    BY <1>1, <1>15
  <2> HIDE DEF o
  <2>2. ids \ ToSet(o) # {}
    <3>1. Cardinality(ToSet(o)) = n /\ ToSet(o) \subseteq ids
      BY <1>12, <1>13, <2>1
    <3>2. ToSet(o) # ids
      BY <2>1, <3>1 DEF N
    <3> QED
      BY <3>1, <3>2
  <2>3. PICK d \in ids \ ToSet(o) : ToSet(Obj(d).parents) \cap (ids \ ToSet(o)) = {}
    BY <2>2
  <2>4. d \in Ready(o)
    BY <2>3 DEF Ready
  <2>5. c \in Ready(o)
    BY <1>3, <2>4
  <2> HIDE DEF c
  <2>6. c \in ids \ ToSet(o) /\ ToSet(Obj(c).parents) \subseteq ToSet(o)
    BY <2>5 DEF Ready
  <2>7. IsOrder(Append(o, c), ids) /\ Len(Append(o, c)) = Len(o) + 1
    BY <2>1, <2>6, OneMoreInOrder
  <2>8. g[n + 1] = Append(o, c)
    BY <1>11 DEF Add, o, c
  <2> QED
    BY <2>1, <2>7, <2>8
<1>16. N \in V
  <2> HIDE DEF V
  <2>1. 0 \in V /\ \A n \in 0..(N - 1) : n \in V => n + 1 \in V
    BY <1>14, <1>15
  <2>2. 0..N \subseteq V
    BY <1>1, <2>1, BoundedInduction
  <2> QED
    BY <1>1, <2>2
<1>17. IsOrder(g[N], ids) /\ Len(g[N]) = N
  BY <1>16 DEF V
<1>18. ToSet(g[N]) = ids
  <2>1. Cardinality(ToSet(g[N])) = Cardinality(ids) /\ ToSet(g[N]) \subseteq ids
    BY <1>12, <1>13, <1>17 DEF N
  <2> QED
    BY <2>1, FS_Subset
<1> QED
  BY <1>2, <1>17, <1>18 DEF N

-----------------------------------------------------------------------------
(* The root trees that the commits at some places of an order ask for, and *)
(* the uses of a tree from a place on.                                     *)
AskedIn(o, ns) == UNION {{OwnTree(o[n])} \cup BaseTrees(o[n]) : n \in ns}

OwnPlaces(o, t) == {n \in 1..Len(o) : OwnTree(o[n]) = t}
BasePlaces(o, t) == {n \in 1..Len(o) : t \in BaseTrees(o[n])}

ToCome(o, t, k) ==
    Cardinality(OwnPlaces(o, t) \cap (k..Len(o))) + Cardinality(BasePlaces(o, t) \cap (k..Len(o)))

LEMMA OneUseLess ==
    ASSUME NEW o, Len(o) \in Nat, NEW k \in 1..Len(o), NEW t
    PROVE  /\ ToCome(o, t, k + 1) \in Nat
           /\ ToCome(o, t, k) - AsOne(t = OwnTree(o[k])) - AsOne(t \in BaseTrees(o[k])) = ToCome(o, t, k + 1)
PROOF
<1> DEFINE L == Len(o)
           A == OwnPlaces(o, t)
           B == BasePlaces(o, t)
<1>1. k \in A <=> t = OwnTree(o[k])
  BY DEF OwnPlaces
<1>2. k \in B <=> t \in BaseTrees(o[k])
  BY DEF BasePlaces
<1>3. /\ Cardinality(A \cap (k..L)) \in Nat /\ Cardinality(A \cap ((k + 1)..L)) \in Nat
      /\ Cardinality(A \cap (k..L)) = Cardinality(A \cap ((k + 1)..L)) + (IF k \in A THEN 1 ELSE 0)
  BY CountFrom
<1>4. /\ Cardinality(B \cap (k..L)) \in Nat /\ Cardinality(B \cap ((k + 1)..L)) \in Nat
      /\ Cardinality(B \cap (k..L)) = Cardinality(B \cap ((k + 1)..L)) + (IF k \in B THEN 1 ELSE 0)
  BY CountFrom
<1> QED
  BY <1>1, <1>2, <1>3, <1>4 DEF ToCome, AsOne

LEMMA AskedIsToCome ==
    ASSUME NEW o, Len(o) \in Nat, NEW k \in Nat \ {0}, NEW t
    PROVE  ToCome(o, t, k) > 0 <=> t \in AskedIn(o, k..Len(o))
PROOF
<1> DEFINE A == OwnPlaces(o, t) \cap (k..Len(o))
           B == BasePlaces(o, t) \cap (k..Len(o))
<1>1. IsFiniteSet(k..Len(o)) /\ A \subseteq k..Len(o) /\ B \subseteq k..Len(o)
  BY FS_Interval
<1>2. \A n \in k..Len(o) : n \in 1..Len(o)
  OBVIOUS
<1>3. t \in AskedIn(o, k..Len(o)) <=> A # {} \/ B # {}
  BY <1>2 DEF AskedIn, OwnPlaces, BasePlaces
<1> HIDE DEF A, B
<1>4. /\ Cardinality(A) \in Nat /\ (Cardinality(A) > 0 <=> A # {})
      /\ Cardinality(B) \in Nat /\ (Cardinality(B) > 0 <=> B # {})
  <2>1. IsFiniteSet(A) /\ IsFiniteSet(B)
    BY <1>1, FS_Subset
  <2> QED
    BY <2>1, NoneIsZero
<1>5. ToCome(o, t, k) = Cardinality(A) + Cardinality(B)
  BY DEF ToCome, A, B
<1> QED
  BY <1>3, <1>4, <1>5

(* What count_snapshot_uses counts over a history is what its order will   *)
(* ask for.                                                                *)
LEMMA UsesAreToCome ==
    ASSUME NEW ids, NEW o, IsOrder(o, ids), ToSet(o) = ids
    PROVE  /\ AskedIn(o, 1..Len(o)) = {OwnTree(c) : c \in ids}
           /\ \A t : Uses(ids, t) = ToCome(o, t, 1)
PROOF
<1>1. o \in Seq(ids) /\ IsInjective(o) /\ DOMAIN o = 1..Len(o) /\ Len(o) \in Nat
  BY DEF IsOrder
<1>2. \A n \in 1..Len(o) : o[n] \in ids
  BY <1>1
<1>3. \A c \in ids : \E n \in 1..Len(o) : o[n] = c
  BY <1>1 DEF ToSet
<1>4. ASSUME NEW n \in 1..Len(o), NEW p \in FirstParents(o[n]) PROVE p \in ids
  <2>1. p \in ToSet(Obj(o[n]).parents)
    BY DEF FirstParents, ToSet
  <2>2. PICK m \in 1..(n - 1) : o[m] = p
    BY <2>1 DEF IsOrder, ParentsBefore
  <2>3. m \in 1..Len(o)
    BY <1>1
  <2> QED
    BY <1>2, <2>2, <2>3
<1>5. AskedIn(o, 1..Len(o)) = {OwnTree(c) : c \in ids}
  <2>1. ASSUME NEW n \in 1..Len(o) PROVE BaseTrees(o[n]) \subseteq {OwnTree(c) : c \in ids}
    BY <1>4 DEF BaseTrees
  <2> DEFINE R == {OwnTree(c) : c \in ids}
  <2>2. \A n \in 1..Len(o) : OwnTree(o[n]) \in R /\ BaseTrees(o[n]) \subseteq R
    BY <1>2, <2>1
  <2>3. \A t \in R : \E n \in 1..Len(o) : t = OwnTree(o[n])
    BY <1>3
  <2> HIDE DEF R
  <2>4. AskedIn(o, 1..Len(o)) = R
    BY <2>2, <2>3 DEF AskedIn
  <2> QED
    BY <2>4 DEF R
<1>6. ASSUME NEW t PROVE Uses(ids, t) = ToCome(o, t, 1)
  <2> DEFINE own == {c \in ids : OwnTree(c) = t}
             base == {c \in ids : t \in BaseTrees(c)}
  <2>1. Cardinality({n \in 1..Len(o) : o[n] \in own}) = Cardinality({c \in ToSet(o) : c \in own})
    <3> HIDE DEF own
    <3> QED
      BY <1>1, CountedInOrder
  <2>2. Cardinality({n \in 1..Len(o) : o[n] \in base}) = Cardinality({c \in ToSet(o) : c \in base})
    <3> HIDE DEF base
    <3> QED
      BY <1>1, CountedInOrder
  <2>3. {n \in 1..Len(o) : o[n] \in own} = OwnPlaces(o, t) \cap (1..Len(o))
        /\ {c \in ToSet(o) : c \in own} = own
    BY <1>2 DEF OwnPlaces
  <2>4. {n \in 1..Len(o) : o[n] \in base} = BasePlaces(o, t) \cap (1..Len(o))
        /\ {c \in ToSet(o) : c \in base} = base
    BY <1>2 DEF BasePlaces
  <2> QED
    BY <2>1, <2>2, <2>3, <2>4 DEF Uses, ToCome
<1> QED
  BY <1>5, <1>6

-----------------------------------------------------------------------------
(* The invariant.                                                          *)
AtBeginning == builder = NewBuilder /\ snaps = EmptyTree /\ walks = EmptyTree

AtomsGrow ==
    /\ builder = [atoms |-> builder.atoms, refs |-> {}, drops |-> {}, flags |-> {}]
    /\ builder.atoms \in Seq(ToSet(builder.atoms)) /\ Len(builder.atoms) <= Len(order)

UsesAreCounted ==
    remaining = [t \in AskedIn(order, NextAtom..Len(order)) |-> ToCome(order, t, NextAtom)]

CacheIsFrontier ==
    /\ DOMAIN snaps = AskedIn(order, 1..Len(builder.atoms)) \cap AskedIn(order, NextAtom..Len(order))
    /\ snaps = [t \in DOMAIN snaps |-> Snapshot(t)]
    /\ walks = [t \in AskedIn(order, 1..Len(builder.atoms)) |-> 1]

GitInv ==
    stage \in GitStages =>
        /\ input \in Sources /\ input.kind = "git"
        /\ stage # "git import" => AtBeginning
        /\ stage = "git import" =>
              IsOrder(order, ToSet(order)) /\ AtomsGrow /\ UsesAreCounted /\ CacheIsFrontier

\* The level of places below a place, and what Places chooses.
Deeper(pl) == {[tree |-> e.id, path |-> PathOf(pl, e)] : e \in {x \in EntriesOf(pl) : x.mode = "tree"}}
IsLevel(level, root) == level = [n \in 1..MaxTreeDepth |-> 
          IF n = 1 THEN {[tree |-> root, path |-> <<>>]}
          ELSE UNION {Deeper(pl) : pl \in level[n - 1]}]
LEMMA PlacesStay == ASSUME input' = input, NEW root PROVE Places(root)' = Places(root)
PROOF
<1>1. \A pl : Deeper(pl)' = Deeper(pl)
  BY DEF Deeper, PathOf, EntriesOf, ReadsAs, Verified, Exists, Obj
<1>2. \A level : IsLevel(level, root)' <=> IsLevel(level, root)
  BY <1>1 DEF IsLevel
<1>3. Places(root) = CHOOSE level : IsLevel(level, root)
  BY DEF Places, IsLevel, Deeper
<1>4. Places(root)' = CHOOSE level : IsLevel(level, root)'
  BY DEF Places, IsLevel, Deeper
<1>5. (CHOOSE level : IsLevel(level, root)') = (CHOOSE level : IsLevel(level, root))
  BY <1>2
<1> QED
  BY <1>3, <1>4, <1>5

(* The operators about the repository change only with it.                 *)
LEMMA RepositoryStays ==
    ASSUME input' = input
    PROVE  /\ \A c : OwnTree(c)' = OwnTree(c)
           /\ \A c : BaseTrees(c)' = BaseTrees(c)
           /\ \A o, ns : AskedIn(o, ns)' = AskedIn(o, ns)
           /\ \A o, t, k : ToCome(o, t, k)' = ToCome(o, t, k)
           /\ \A o, ids : IsOrder(o, ids)' = IsOrder(o, ids)
           /\ \A t : Snapshot(t)' = Snapshot(t)
PROOF
<1>1. \A c : OwnTree(c)' = OwnTree(c) /\ BaseTrees(c)' = BaseTrees(c) /\ Obj(c)' = Obj(c)
  BY DEF OwnTree, BaseTrees, FirstParents, Obj
<1>2. \A o, ns : AskedIn(o, ns)' = AskedIn(o, ns)
  BY <1>1 DEF AskedIn
<1>3. \A o, t : OwnPlaces(o, t)' = OwnPlaces(o, t) /\ BasePlaces(o, t)' = BasePlaces(o, t)
  BY <1>1 DEF OwnPlaces, BasePlaces
<1>4. \A o, t, k : ToCome(o, t, k)' = ToCome(o, t, k)
  BY <1>3 DEF ToCome
<1>5. \A o, ids : IsOrder(o, ids)' = IsOrder(o, ids)
  BY <1>1 DEF IsOrder, ParentsBefore
<1>6. \A pl : EntriesOf(pl)' = EntriesOf(pl)
  BY DEF EntriesOf, ReadsAs, Verified, Exists, Obj
<1>7. \A root : Leaves(root)' = Leaves(root)
  BY <1>6, PlacesStay DEF Leaves, PathOf
<1>8. \A t : Snapshot(t)' = Snapshot(t)
  BY <1>7 DEF Snapshot
<1> QED
  BY <1>1, <1>2, <1>4, <1>5, <1>8

LEMMA AtomsCounted ==
    AtomsGrow => Len(builder.atoms) \in Nat /\ NextAtom = Len(builder.atoms) + 1 /\ NextAtom - 1 = Len(builder.atoms)
PROOF
<1> SUFFICES ASSUME AtomsGrow PROVE Len(builder.atoms) \in Nat /\ NextAtom - 1 = Len(builder.atoms)
  BY DEF NextAtom
<1> DEFINE a == builder.atoms
           X == ToSet(a)
<1>1. a \in Seq(X)
  BY DEF AtomsGrow
<1>2. NextAtom = Len(a) + 1
  BY DEF NextAtom
<1> HIDE DEF a, X
<1>3. Len(a) \in Nat
  BY <1>1
<1>4. NextAtom - 1 = Len(a)
  BY <1>2, <1>3
<1> QED
  BY <1>3, <1>4 DEF a

LEMMA GitInvIsEnough == GitInv => GitSnapshotsAreFrontier
PROOF
<1> SUFFICES ASSUME GitInv, stage = "git import" PROVE GitSnapshotsAreFrontier
  BY DEF GitSnapshotsAreFrontier
<1>1. AtomsGrow /\ CacheIsFrontier
  BY DEF GitInv, GitStages
<1>2. Len(builder.atoms) \in Nat /\ NextAtom - 1 = Len(builder.atoms)
  BY <1>1, AtomsCounted
<1>3. \A ns : AskedIn(order, ns) = UNION {{OwnTree(order[n])} \cup BaseTrees(order[n]) : n \in ns}
  BY DEF AskedIn
<1> QED
  BY <1>1, <1>2, <1>3 DEF CacheIsFrontier, GitSnapshotsAreFrontier

LEMMA GitStarts == Init => GitInv
PROOF
<1> SUFFICES ASSUME Init, stage \in GitStages PROVE GitInv
  BY DEF GitInv
<1>1. PICK source \in Sources : DecodingInit(source, Begin(source.kind)) /\ GitIdle
  BY DEF Init
<1>2. stage = Begin(source.kind) /\ input = source /\ builder = NewBuilder
      /\ snaps = EmptyTree /\ walks = EmptyTree
  BY <1>1 DEF DecodingInit, GitIdle
<1>3. source.kind = "git" /\ stage = "git open"
  <2>1. source.kind \in {"git", "hg", "svn", "cvs", "artifact"}
    BY SourceKinds
  <2> QED
    BY <1>2, <2>1 DEF Begin, GitStages
<1> QED
  BY <1>2, <1>3 DEF GitInv, AtBeginning

LEMMA OpenKeepsGit == GitInv /\ OpenRepository => GitInv'
PROOF
<1> SUFFICES ASSUME GitInv, OpenRepository PROVE GitInv'
  OBVIOUS
<1>1. stage = "git open" /\ stage' \in {"git scan", "failed"} /\ input' = input
      /\ (stage' # "failed" => builder' = builder) /\ snaps' = snaps /\ walks' = walks
  BY DEF OpenRepository, Goto, Fail, gitVars
<1> QED
  BY <1>1 DEF GitInv, GitStages, AtBeginning

LEMMA ScanKeepsGit == GitInv /\ ScanRef => GitInv'
PROOF
<1> SUFFICES ASSUME GitInv, ScanRef PROVE GitInv'
  OBVIOUS
<1>1. stage = "git scan" /\ stage' \in {"git scan", "failed"} /\ input' = input
      /\ (stage' # "failed" => builder' = builder) /\ snaps' = snaps /\ walks' = walks
  BY DEF ScanRef, Goto, Fail
<1> QED
  BY <1>1 DEF GitInv, GitStages, AtBeginning

LEMMA FinishKeepsGit == GitInv /\ FinishGit => GitInv'
PROOF
<1>1. FinishGit => stage' \notin GitStages
  BY Moves DEF FinishGit, Ends, GitStages
<1> QED
  BY <1>1 DEF GitInv

(* The walk: the history of the carried refs in its order, all its uses    *)
(* still to come.                                                          *)
LEMMA WalkOrders ==
    ASSUME GitInv, WalkHistory, stage' # "failed"
    PROVE  LET found == Reach(CarriedTips) IN
           /\ stage = "git scan" /\ stage' = "git import" /\ input' = input /\ builder' = builder
           /\ builder = NewBuilder /\ IsRepository(input) /\ input \in Sources
           /\ IsOrder(order', found) /\ ToSet(order') = found /\ found = Commits(found)
           /\ droppedOnly' = CountDroppedOnly
PROOF
<1> DEFINE found == Reach(CarriedTips)
           o == ParentFirst(found)
<1>1. /\ stage = "git scan" /\ stage' = "git import" /\ input' = input /\ builder' = builder
      /\ ~WalkFails(CarriedTips) /\ \A c \in found : Verified(c)
      /\ order' = o /\ droppedOnly' = CountDroppedOnly
  BY Moves DEF WalkHistory, Goto
<1>2. input \in Sources /\ input.kind = "git" /\ builder = NewBuilder
  BY <1>1 DEF GitInv, GitStages, AtBeginning
<1>3. IsRepository(input)
  BY <1>2, SourceRepositories
<1>4. found = Commits(found) /\ found \subseteq DOMAIN input.objects
  BY <1>1 DEF WalkFails, Commits, HasKind, Exists
<1>5. \A c \in found : ToSet(Obj(c).parents) \subseteq found
  BY <1>3, <1>4, ReachIsClosed DEF IsRepository
<1> HIDE DEF found
<1>6. IsFiniteSet(found) /\ found \subseteq Nat
  BY <1>3, <1>4, FS_Subset DEF IsRepository
<1>7. ASSUME NEW S \in SUBSET found, S # {} PROVE \E c \in S : ToSet(Obj(c).parents) \cap S = {}
  <2>1. \A c \in S : c \in DOMAIN input.objects /\ input.objects[c].kind = "commit" /\ c \notin input.altered
    BY <1>1, <1>4 DEF Commits, HasKind, Obj, Verified
  <2>2. S \in SUBSET {c \in DOMAIN input.objects : input.objects[c].kind = "commit" /\ c \notin input.altered}
    BY <2>1
  <2> QED
    BY <1>3, <1>7, <2>2 DEF IsRepository, Obj
<1>8. IsOrder(o, found) /\ ToSet(o) = found
  BY <1>5, <1>6, <1>7, ParentFirstOrders
<1> QED
  BY <1>1, <1>2, <1>3, <1>4, <1>8 DEF found

LEMMA WalkKeepsGit == GitInv /\ WalkHistory => GitInv'
PROOF
<1> SUFFICES ASSUME GitInv, WalkHistory, stage' # "failed" PROVE GitInv'
  BY DEF GitInv, GitStages
<1> DEFINE found == Reach(CarriedTips)
           o == order'
<1>1. /\ stage' = "git import" /\ input' = input /\ builder' = builder /\ snaps' = snaps /\ walks' = walks
      /\ remaining' = [t \in {OwnTree(c) : c \in found} |-> Uses(found, t)]
  BY Moves DEF WalkHistory, Goto
<1>2. /\ input \in Sources /\ input.kind = "git"
      /\ builder = NewBuilder /\ snaps = EmptyTree /\ walks = EmptyTree
  BY WalkOrders DEF GitInv, GitStages, AtBeginning
<1>3. IsOrder(o, found) /\ ToSet(o) = found
  BY WalkOrders
<1> HIDE DEF found
<1>4. Len(o) \in Nat
  BY <1>3 DEF IsOrder
<1>5. AskedIn(o, 1..Len(o)) = {OwnTree(c) : c \in found} /\ \A t : Uses(found, t) = ToCome(o, t, 1)
  BY <1>3, UsesAreToCome
<1>6. builder'.atoms = <<>> /\ Len(builder'.atoms) = 0 /\ NextAtom' = 1
  <2>1. NewBuilder.atoms = <<>>
    BY DEF NewBuilder
  <2>2. builder'.atoms = <<>>
    BY <1>1, <1>2, <2>1
  <2>3. NextAtom' = Len(builder'.atoms) + 1
    BY DEF NextAtom
  <2>4. Len(<<>>) = 0
    OBVIOUS
  <2>5. NextAtom' = 0 + 1
    BY <2>2, <2>3, <2>4
  <2> QED
    BY <2>2, <2>4, <2>5
<1>7. IsOrder(order, ToSet(order))'
  BY <1>1, <1>3, RepositoryStays
<1>8. AtomsGrow'
  <2>1. builder' = [atoms |-> builder'.atoms, refs |-> {}, drops |-> {}, flags |-> {}]
    BY <1>1, <1>2, <1>6 DEF NewBuilder
  <2>2. <<>> \in Seq(ToSet(<<>>))
    OBVIOUS
  <2>3. 0 <= Len(o)
    BY <1>4
  <2>4. (builder.atoms \in Seq(ToSet(builder.atoms)))'
    BY <1>6, <2>2
  <2>5. (Len(builder.atoms) <= Len(order))'
    BY <1>1, <1>6, <2>3
  <2> QED
    BY <2>1, <2>4, <2>5 DEF AtomsGrow
<1>9. UsesAreCounted'
  <2>1. remaining' = [t \in AskedIn(o, 1..Len(o)) |-> ToCome(o, t, 1)]
    BY <1>1, <1>5
  <2>2. AskedIn(order, NextAtom..Len(order))' = AskedIn(o, 1..Len(o))
    BY <1>1, <1>6, RepositoryStays
  <2>3. \A t : ToCome(order, t, NextAtom)' = ToCome(o, t, 1)
    BY <1>1, <1>6, RepositoryStays
  <2> QED
    BY <2>1, <2>2, <2>3 DEF UsesAreCounted
<1>10. CacheIsFrontier'
  <2>1. \A ns : ns = {} => AskedIn(o, ns) = {}
    BY DEF AskedIn
  <2>2. 1..0 = {}
    OBVIOUS
  <2>3. AskedIn(order, 1..Len(builder.atoms))' = {}
    BY <1>1, <1>6, <2>1, <2>2, RepositoryStays
  <2>4. DOMAIN EmptyTree = {} /\ EmptyTree = [t \in {} |-> Snapshot(t)] /\ EmptyTree = [t \in {} |-> 1]
    BY DEF EmptyTree
  <2>5. snaps' = EmptyTree /\ walks' = EmptyTree
    BY <1>1, <1>2
  <2>6. \A t : Snapshot(t)' = Snapshot(t)
    BY <1>1, RepositoryStays
  <2> QED
    BY <2>3, <2>4, <2>5, <2>6 DEF CacheIsFrontier
<1> QED
  BY <1>1, <1>2, <1>7, <1>8, <1>9, <1>10 DEF GitInv

(* One turn: the trees the commit asks for are in the cache or are walked, *)
(* and each tree whose last use this was leaves it.                        *)
LEMMA TurnOf ==
    ASSUME ImportCommit, stage' # "failed"
    PROVE  LET c      == order[NextAtom]
               needed == {OwnTree(c)} \cup BaseTrees(c)
               built  == Cached(snaps, needed)
               done   == UsesLeft(remaining, OwnTree(c), BaseTrees(c))
           IN  /\ stage = "git import" /\ stage' = "git import" /\ NextAtom <= Len(order)
               /\ input' = input /\ order' = order
               /\ \E draft : builder' = WithAtom(builder, draft)
               /\ remaining' = done
               /\ snaps' = Restrict(built, DOMAIN built \cap DOMAIN done)
               /\ walks' = [t \in DOMAIN walks \cup needed |->
                              (IF t \in DOMAIN walks THEN walks[t] ELSE 0)
                              + AsOne(t \in needed \ DOMAIN snaps)]
PROOF
<1>1. \A why : ~ Fail(why)
  BY Moves
<1>2. stage = "git import" /\ NextAtom <= Len(order) /\ order' = order
  BY DEF ImportCommit
<1>3. stage' = "git import" /\ input' = input
  BY <1>1 DEF ImportCommit, Goto
<1>4. \E draft : builder' = WithAtom(builder, draft)
  BY <1>1 DEF ImportCommit
<1> QED
  BY <1>1, <1>2, <1>3, <1>4 DEF ImportCommit

LEMMA AskedSplits ==
    ASSUME NEW o, Len(o) \in Nat, NEW k \in 1..Len(o)
    PROVE  /\ AskedIn(o, 1..k) = AskedIn(o, 1..(k - 1)) \cup {OwnTree(o[k])} \cup BaseTrees(o[k])
           /\ AskedIn(o, k..Len(o)) = AskedIn(o, (k + 1)..Len(o)) \cup {OwnTree(o[k])} \cup BaseTrees(o[k])
PROOF
<1>1. 1..k = (1..(k - 1)) \cup {k} /\ k..Len(o) = ((k + 1)..Len(o)) \cup {k}
  OBVIOUS
<1>2. \A S, T : AskedIn(o, S \cup T) = AskedIn(o, S) \cup AskedIn(o, T)
  BY DEF AskedIn
<1>3. AskedIn(o, {k}) = {OwnTree(o[k])} \cup BaseTrees(o[k])
  BY DEF AskedIn
<1> QED
  BY <1>1, <1>2, <1>3

LEMMA ImportKeepsGit == GitInv /\ ImportCommit => GitInv'
PROOF
<1> SUFFICES ASSUME GitInv, ImportCommit, stage' # "failed" PROVE GitInv'
  BY TurnOf DEF GitInv, GitStages
<1> DEFINE k == NextAtom
           L == Len(order)
           own == OwnTree(order[k])
           bases == BaseTrees(order[k])
           needed == {own} \cup bases
           built == Cached(snaps, needed)
           done == UsesLeft(remaining, own, bases)
           past == AskedIn(order, 1..(k - 1))
           coming == AskedIn(order, (k + 1)..L)
<1>1. /\ stage = "git import" /\ stage' = "git import" /\ k <= L /\ input' = input /\ order' = order
      /\ remaining' = done /\ snaps' = Restrict(built, DOMAIN built \cap DOMAIN done)
      /\ walks' = [t \in DOMAIN walks \cup needed |->
                     (IF t \in DOMAIN walks THEN walks[t] ELSE 0) + AsOne(t \in needed \ DOMAIN snaps)]
  BY TurnOf
<1>2. PICK draft : builder' = WithAtom(builder, draft)
  BY TurnOf
<1>3. /\ IsOrder(order, ToSet(order)) /\ AtomsGrow /\ UsesAreCounted /\ CacheIsFrontier
      /\ input \in Sources /\ input.kind = "git"
  BY <1>1 DEF GitInv, GitStages
<1>4. L \in Nat /\ k \in 1..L /\ k - 1 = Len(builder.atoms) /\ Len(builder.atoms) \in Nat /\ k = Len(builder.atoms) + 1
  <2>1. L \in Nat
    BY <1>3 DEF IsOrder
  <2> DEFINE a == Len(builder.atoms)
  <2>2. a \in Nat /\ k = a + 1 /\ k - 1 = a /\ k <= L
    BY <1>1, <1>3, AtomsCounted
  <2> HIDE DEF a, k, L
  <2>3. k \in 1..L
    BY <2>1, <2>2
  <2> QED
    BY <2>1, <2>2, <2>3 DEF a
<1>5. /\ DOMAIN snaps = past \cap AskedIn(order, k..L) /\ snaps = [t \in DOMAIN snaps |-> Snapshot(t)]
      /\ walks = [t \in past |-> 1]
      /\ remaining = [t \in AskedIn(order, k..L) |-> ToCome(order, t, k)]
  BY <1>3, <1>4 DEF CacheIsFrontier, UsesAreCounted
<1>6. AskedIn(order, 1..k) = past \cup needed /\ AskedIn(order, k..L) = coming \cup needed
  BY <1>4, AskedSplits
<1>7. /\ AtomsGrow' /\ Len(builder'.atoms) = k /\ NextAtom' = k + 1
  <2> DEFINE a == builder.atoms
             b == Append(a, draft)
             X == ToSet(a)
  <2>1. builder = [atoms |-> a, refs |-> {}, drops |-> {}, flags |-> {}] /\ a \in Seq(X)
    BY <1>3 DEF AtomsGrow
  <2>2. builder' = [builder EXCEPT !.atoms = b]
    BY <1>2 DEF WithAtom
  <2> HIDE DEF b
  <2>3. builder' = [atoms |-> b, refs |-> {}, drops |-> {}, flags |-> {}] /\ builder'.atoms = b
    <3> HIDE DEF a
    <3> QED
      BY <2>1, <2>2
  <2>4. b \in Seq(X \cup {draft}) /\ Len(b) = Len(a) + 1
    <3> HIDE DEF a, X
    <3> QED
      BY <2>1 DEF b
  <2>5. b \in Seq(ToSet(b))
    <3>1. b \in [1..Len(b) -> ToSet(b)] /\ Len(b) \in Nat
      BY <2>4 DEF ToSet
    <3> QED
      BY <3>1
  <2>6. Len(b) = k
    BY <1>4, <2>4
  <2>7. NextAtom' = k + 1
    BY <2>3, <2>6 DEF NextAtom
  <2> QED
    BY <1>1, <2>3, <2>5, <2>6, <2>7 DEF AtomsGrow
<1>8. done = [t \in coming |-> ToCome(order, t, k + 1)]
  <2> DEFINE left == [t \in DOMAIN remaining |-> remaining[t] - AsOne(t = own) - AsOne(t \in bases)]
             A == AskedIn(order, k..L)
  <2>1. DOMAIN remaining = A /\ \A t \in A : remaining[t] = ToCome(order, t, k)
    BY <1>5
  <2>2. \A t : ToCome(order, t, k) - AsOne(t = own) - AsOne(t \in bases) = ToCome(order, t, k + 1)
    BY <1>4, OneUseLess
  <2>3. DOMAIN left = A /\ \A t \in A : left[t] = ToCome(order, t, k + 1)
    BY <2>1, <2>2
  <2>4. \A t : ToCome(order, t, k + 1) > 0 <=> t \in coming
    <3>1. k + 1 \in Nat \ {0}
      BY <1>4
    <3> QED
      BY <1>4, <3>1, AskedIsToCome
  <2>5. done = [t \in {u \in A : left[u] > 0} |-> left[t]]
    BY <2>3 DEF UsesLeft, Restrict
  <2> HIDE DEF left, A, coming, done
  <2>6. coming \subseteq A
    BY <1>6 DEF A
  <2>7. {u \in A : left[u] > 0} = coming
    BY <2>3, <2>4, <2>6
  <2> QED
    BY <2>3, <2>5, <2>6, <2>7
<1>9. UsesAreCounted'
  <2>1. AskedIn(order, NextAtom..Len(order))' = coming /\ \A t : ToCome(order, t, NextAtom)' = ToCome(order, t, k + 1)
    BY <1>1, <1>7, RepositoryStays
  <2> QED
    BY <1>1, <1>8, <2>1 DEF UsesAreCounted
<1>10. CacheIsFrontier'
  <2>1. /\ AskedIn(order, 1..Len(builder.atoms))' = past \cup needed
        /\ AskedIn(order, NextAtom..Len(order))' = coming
    BY <1>1, <1>6, <1>7, RepositoryStays
  <2>2. \A t : Snapshot(t)' = Snapshot(t)
    BY <1>1, RepositoryStays
  <2>3. DOMAIN built = DOMAIN snaps \cup needed /\ \A t \in DOMAIN built : built[t] = Snapshot(t)
    BY <1>5 DEF Cached
  <2>4. DOMAIN snaps = past \cap (coming \cup needed) /\ DOMAIN done = coming
    BY <1>5, <1>6, <1>8
  <2> HIDE DEF past, coming, needed, built, done
  <2>5. DOMAIN snaps' = (past \cup needed) \cap coming /\ \A t \in DOMAIN snaps' : snaps'[t] = Snapshot(t)
    BY <1>1, <2>3, <2>4 DEF Restrict
  <2>6. snaps' = [t \in DOMAIN snaps' |-> Snapshot(t)]
    BY <1>1, <2>5 DEF Restrict
  <2>7. walks' = [t \in past \cup needed |-> 1]
    <3>1. DOMAIN walks = past /\ \A t \in past : walks[t] = 1
      BY <1>5
    <3>2. ASSUME NEW t \in past \cup needed
          PROVE  (IF t \in DOMAIN walks THEN walks[t] ELSE 0) + AsOne(t \in needed \ DOMAIN snaps) = 1
      BY <2>4, <3>1 DEF AsOne
    <3> QED
      BY <1>1, <3>1, <3>2
  <2> QED
    BY <2>1, <2>2, <2>5, <2>6, <2>7 DEF CacheIsFrontier
<1>11. IsOrder(order, ToSet(order))'
  BY <1>1, <1>3, RepositoryStays
<1> QED
  BY <1>1, <1>3, <1>7, <1>9, <1>10, <1>11 DEF GitInv

LEMMA GitInvHolds == Spec => []GitInv
PROOF
<1>1. GitInv /\ [Next]_vars => GitInv'
  <2> SUFFICES ASSUME GitInv, [Next]_vars PROVE GitInv'
    OBVIOUS
  <2>1. CASE GitNext
    BY <2>1, OpenKeepsGit, ScanKeepsGit, WalkKeepsGit, ImportKeepsGit, FinishKeepsGit DEF GitNext
  <2>2. CASE HgNext \/ SvnStep \/ CvsNext \/ VerifyNext
    <3>1. stage' \notin GitStages
      BY <2>2, HgStays, SvnStays, CvsStays, VerifyStays
      DEF Stays, GitStages, HgStages, SvnStages, CvsStages, VerifyStages, Ends
    <3> QED
      BY <3>1 DEF GitInv
  <2>3. CASE Reader \/ Thread \/ Child
    <3>1. stage' \notin GitStages
      BY <2>3 DEF Reader, Thread, Child, DecoderReads, ThreadRuns, ChildRuns, During, decoding, GitStages
    <3> QED
      BY <3>1 DEF GitInv
  <2>4. CASE UNCHANGED vars
    <3>1. UNCHANGED <<input, stage, builder, order, remaining, snaps, walks>>
      BY <2>4 DEF vars, decoding, gitVars
    <3>2. NextAtom' = NextAtom
      BY <3>1 DEF NextAtom
    <3>3. IsOrder(order, ToSet(order)) => IsOrder(order, ToSet(order))'
      BY <3>1, RepositoryStays
    <3>4. AtomsGrow => AtomsGrow'
      BY <3>1 DEF AtomsGrow
    <3>5. UsesAreCounted => UsesAreCounted'
      <4>1. AskedIn(order, NextAtom..Len(order))' = AskedIn(order, NextAtom..Len(order))
            /\ \A t : ToCome(order, t, NextAtom)' = ToCome(order, t, NextAtom)
        BY <3>1, <3>2, RepositoryStays
      <4> QED
        BY <3>1, <4>1 DEF UsesAreCounted
    <3>6. CacheIsFrontier => CacheIsFrontier'
      <4>1. AskedIn(order, NextAtom..Len(order))' = AskedIn(order, NextAtom..Len(order))
            /\ AskedIn(order, 1..Len(builder.atoms))' = AskedIn(order, 1..Len(builder.atoms))
            /\ \A t : Snapshot(t)' = Snapshot(t)
        BY <3>1, <3>2, RepositoryStays
      <4> QED
        BY <3>1, <4>1 DEF CacheIsFrontier
    <3> QED
      BY <3>1, <3>3, <3>4, <3>5, <3>6 DEF GitInv, AtBeginning
  <2> QED
    BY <2>1, <2>2, <2>3, <2>4 DEF Next, Decoder, Verifier
<1> QED
  BY <1>1, GitStarts, PTL DEF Spec

\* However the branches of a history interleave, and whatever trees come back:
\* the cache holds exactly the trees that were asked for and will be again, each
\* as it is, and none is walked twice.
THEOREM GitSnapshotsStayFrontier == Spec => []GitSnapshotsAreFrontier
PROOF
  BY GitInvHolds, GitInvIsEnough, PTL

-----------------------------------------------------------------------------
(* Tags are followed: what is met on the way.                              *)
Follow(id) == IF HasKind(id, "tag") THEN Obj(id).to ELSE id

LEMMA ChainFollows ==
    ASSUME NEW id, NEW hops \in Nat
    PROVE  /\ DOMAIN Chain(id, hops) = 0..hops
           /\ Chain(id, hops)[0] = id
           /\ \A n \in 0..(hops - 1) : Chain(id, hops)[n + 1] = Follow(Chain(id, hops)[n])
PROOF
<1> DEFINE T == {id} \cup {Obj(x).to : x \in DOMAIN input.objects}
           D == [q \in Nat \X T |-> Follow(q[2])]
           Eq(f) == f = [n \in 0..hops |-> IF n = 0 THEN id ELSE Follow(f[n - 1])]
           g == CHOOSE f : Eq(f)
<1>1. Chain(id, hops) = g
  BY DEF Chain, Follow
<1>2. \A x \in T : Follow(x) \in T
  BY DEF Follow, HasKind, Exists
<1>3. D \in [Nat \X T -> T] /\ id \in T
  <2>1. id \in T
    OBVIOUS
  <2> HIDE DEF T
  <2> QED
    BY <1>2, <2>1
<1>4. \A n \in Nat, x \in T : D[<<n, x>>] = Follow(x)
  <2> HIDE DEF T
  <2> QED
    OBVIOUS
<1> HIDE DEF T, D
<1>5. PICK f : IsRun(f, hops, T, id, D)
  BY <1>3, LoopHasRun
<1>6. Eq(f)
  <2>1. f \in [0..hops -> T] /\ f[0] = id /\ \A n \in 0..(hops - 1) : f[n + 1] = D[<<n, f[n]>>]
    BY <1>5 DEF IsRun
  <2>2. ASSUME NEW n \in 0..hops PROVE f[n] = IF n = 0 THEN id ELSE Follow(f[n - 1])
    <3>1. CASE n = 0
      BY <2>1, <3>1
    <3>2. CASE n # 0
      <4>1. n - 1 \in 0..(hops - 1) /\ n - 1 \in 0..hops /\ n - 1 \in Nat /\ (n - 1) + 1 = n
        BY <3>2
      <4>2. f[(n - 1) + 1] = D[<<n - 1, f[n - 1]>>] /\ f[n - 1] \in T
        BY <2>1, <4>1
      <4> QED
        BY <1>4, <3>2, <4>1, <4>2
    <3> QED
      BY <3>1, <3>2
  <2> QED
    BY <2>1, <2>2
<1>7. Eq(g)
  <2> HIDE DEF Eq
  <2> QED
    BY <1>6
<1> HIDE DEF g
<1>8. 0 \in 0..hops /\ \A n \in 0..(hops - 1) : n + 1 \in 0..hops /\ n + 1 # 0 /\ (n + 1) - 1 = n
  OBVIOUS
<1>9. g[0] = id /\ \A n \in 0..(hops - 1) : g[n + 1] = Follow(g[n])
  BY <1>7, <1>8
<1> QED
  BY <1>1, <1>7, <1>9

(* What is no tag stays.                                                   *)
LEMMA ChainRests ==
    ASSUME NEW id, NEW hops \in Nat, NEW d \in 0..hops, ~HasKind(Chain(id, hops)[d], "tag")
    PROVE  \A n \in d..hops : Chain(id, hops)[n] = Chain(id, hops)[d]
PROOF
<1> DEFINE c == Chain(id, hops)
           V == {m \in 0..(hops - d) : c[d + m] = c[d]}
<1>1. 0 \in V /\ hops - d \in Nat
  <2>1. d + 0 = d /\ hops - d \in Nat
    OBVIOUS
  <2> HIDE DEF c
  <2> QED
    BY <2>1
<1>2. ASSUME NEW m \in 0..((hops - d) - 1), m \in V PROVE m + 1 \in V
  <2>1. d + m \in 0..(hops - 1) /\ d + (m + 1) = (d + m) + 1 /\ m + 1 \in 0..(hops - d)
    OBVIOUS
  <2>2. c[(d + m) + 1] = Follow(c[d + m])
    BY <2>1, ChainFollows
  <2> HIDE DEF c
  <2>3. Follow(c[d]) = c[d]
    BY DEF Follow, c
  <2>4. c[d + m] = c[d]
    BY <1>2
  <2> QED
    BY <2>1, <2>2, <2>3, <2>4
<1> HIDE DEF V, c
<1>3. 0..(hops - d) \subseteq V
  BY <1>1, <1>2, BoundedInduction
<1>4. ASSUME NEW n \in d..hops PROVE c[n] = c[d]
  <2>1. n - d \in 0..(hops - d) /\ d + (n - d) = n
    OBVIOUS
  <2>2. n - d \in V
    BY <1>3, <2>1
  <2> QED
    BY <2>1, <2>2 DEF V
<1> QED
  BY <1>4 DEF c

(* A longer chain goes the same way.                                       *)
LEMMA ChainsAgree ==
    ASSUME NEW id, NEW h \in Nat, NEW k \in Nat
    PROVE  \A n \in 0..h : n <= k => Chain(id, h)[n] = Chain(id, k)[n]
PROOF
<1> DEFINE a == Chain(id, h)
           b == Chain(id, k)
           V == {n \in 0..h : n <= k => a[n] = b[n]}
<1>1. 0 \in V
  BY ChainFollows
<1>2. ASSUME NEW n \in 0..(h - 1), n \in V PROVE n + 1 \in V
  <2>1. n + 1 \in 0..h /\ a[n + 1] = Follow(a[n])
    BY ChainFollows
  <2>2. ASSUME n + 1 <= k PROVE a[n + 1] = b[n + 1]
    <3>1. n \in 0..(k - 1) /\ n <= k
      BY <2>2
    <3>2. b[n + 1] = Follow(b[n])
      BY <3>1, ChainFollows
    <3>3. a[n] = b[n]
      BY <1>2, <3>1
    <3> HIDE DEF a, b
    <3> QED
      BY <2>1, <3>2, <3>3
  <2> QED
    BY <2>1, <2>2
<1> HIDE DEF V
<1>3. 0..h \subseteq V
  BY <1>1, <1>2, BoundedInduction
<1> QED
  BY <1>3 DEF V

(* The only commit on the way is the one at the end.                       *)
LEMMA CommitEndsChain ==
    ASSUME NEW id, NEW hops \in Nat
    PROVE  Commits(Range(Chain(id, hops))) = Commits({Chain(id, hops)[hops]})
PROOF
<1> DEFINE c == Chain(id, hops)
<1>1. DOMAIN c = 0..hops
  BY ChainFollows
<1>2. ASSUME NEW n \in 0..hops, HasKind(c[n], "commit") PROVE c[n] = c[hops]
  <2>1. ~HasKind(c[n], "tag")
    BY <1>2 DEF HasKind
  <2>2. hops \in n..hops
    OBVIOUS
  <2> QED
    BY <2>1, <2>2, ChainRests
<1> HIDE DEF c
<1>3. Commits(Range(c)) = Commits({c[hops]})
  BY <1>1, <1>2 DEF Commits, Range
<1> QED
  BY <1>3 DEF c

(* Tags that lead out of all tags are all different: there are no more of  *)
(* them on the way than there are.                                         *)
LEMMA TagsEnd ==
    ASSUME IsFiniteSet(DOMAIN input.objects), NEW id, NEW hops \in Nat, NEW n \in 0..hops,
           ~HasKind(Chain(id, hops)[n], "tag")
    PROVE  AllHops \in Nat /\ Chain(id, hops)[hops] = Chain(id, AllHops)[AllHops]
PROOF
<1> DEFINE c == Chain(id, hops)
           tags == {t \in DOMAIN input.objects : Obj(t).kind = "tag"}
           U == {m \in 0..hops : ~HasKind(c[m], "tag")}
<1>1. IsFiniteSet(tags) /\ AllHops = Cardinality(tags) /\ AllHops \in Nat
  <2>1. tags \subseteq DOMAIN input.objects
    OBVIOUS
  <2> QED
    BY <2>1, FS_Subset, FS_CardinalityType DEF AllHops
<1>2. PICK d \in U : \A m \in U : d <= m
  <2>1. U \subseteq Nat /\ U # {}
    OBVIOUS
  <2> HIDE DEF U
  <2> QED
    BY <2>1, LeastNumber
<1>3. d \in 0..hops /\ ~HasKind(c[d], "tag") /\ \A m \in 0..(d - 1) : HasKind(c[m], "tag")
  BY <1>2
<1>4. ASSUME NEW i \in 0..(d - 1), NEW j \in 0..(d - 1), i < j, c[i] = c[j] PROVE FALSE
  <2> DEFINE V == {e \in 0..(d - j) : c[i + e] = c[j + e]}
  <2>1. 0 \in V /\ d - j \in Nat
    <3>1. i + 0 = i /\ j + 0 = j /\ d - j \in Nat /\ 0 \in 0..(d - j)
      BY <1>3
    <3> HIDE DEF c
    <3> QED
      BY <1>4, <3>1
  <2>2. ASSUME NEW e \in 0..((d - j) - 1), e \in V PROVE e + 1 \in V
    <3>1. /\ i + e \in 0..(hops - 1) /\ j + e \in 0..(hops - 1) /\ e + 1 \in 0..(d - j)
          /\ i + (e + 1) = (i + e) + 1 /\ j + (e + 1) = (j + e) + 1
      BY <1>3, <1>4
    <3>2. c[(i + e) + 1] = Follow(c[i + e]) /\ c[(j + e) + 1] = Follow(c[j + e])
      BY <3>1, ChainFollows
    <3>3. c[i + e] = c[j + e]
      BY <2>2
    <3> HIDE DEF c
    <3> QED
      BY <3>1, <3>2, <3>3
  <2> HIDE DEF V
  <2>3. 0..(d - j) \subseteq V
    BY <2>1, <2>2, BoundedInduction
  <2>4. d - j \in V
    BY <2>1, <2>3
  <2>5. c[i + (d - j)] = c[j + (d - j)] /\ j + (d - j) = d /\ i + (d - j) \in 0..(d - 1)
    BY <1>3, <1>4, <2>4 DEF V
  <2> HIDE DEF c
  <2> QED
    BY <1>3, <2>5
<1>5. d <= AllHops
  <2> DEFINE S == 0..(d - 1)
             f == [m \in S |-> c[m]]
  <2>1. IsFiniteSet(S) /\ Cardinality(S) = d
    <3>1. IsFiniteSet(S) /\ Cardinality(S) = IF 0 > d - 1 THEN 0 ELSE ((d - 1) - 0) + 1
      BY <1>3, FS_Interval
    <3> QED
      BY <1>3, <3>1
  <2>2. f \in [S -> tags]
    BY <1>3 DEF HasKind, Exists
  <2>3. \A x, y \in S : f[x] = f[y] => x = y
    <3> SUFFICES ASSUME NEW x \in S, NEW y \in S, c[x] = c[y], x # y PROVE FALSE
      OBVIOUS
    <3>1. x < y \/ y < x
      BY <1>3
    <3> QED
      BY <1>4, <3>1
  <2>4. Cardinality(S) <= Cardinality(tags)
    <3> HIDE DEF S, f, tags
    <3> QED
      BY <1>1, <2>2, <2>3, CountAtMost
  <2> QED
    BY <1>1, <2>1, <2>4
<1>6. c[hops] = c[d]
  <2>1. hops \in d..hops
    BY <1>3
  <2> QED
    BY <1>3, <2>1, ChainRests
<1>7. d \in 0..AllHops /\ c[d] = Chain(id, AllHops)[d]
  BY <1>1, <1>3, <1>5, ChainsAgree
<1>8. Chain(id, AllHops)[AllHops] = Chain(id, AllHops)[d]
  <2>1. AllHops \in d..AllHops /\ ~HasKind(Chain(id, AllHops)[d], "tag")
    BY <1>1, <1>3, <1>5, <1>7
  <2> QED
    BY <1>1, <1>7, <2>1, ChainRests
<1> QED
  BY <1>1, <1>6, <1>7, <1>8

(* peel_carried, where it fails on nothing, and gix's peeling find the     *)
(* commit that the tags lead to.                                           *)
LEMMA PeelFinds ==
    ASSUME IsFiniteSet(DOMAIN input.objects), NEW id, NEW carries, Peel(id, carries).fault = NoFailure
    PROVE  Peel(id, carries).commit = Commits(Through(id))
PROOF
<1> DEFINE M == MaxTagChain
           c == Chain(id, M)
           S == {n \in 0..M : HasKind(c[n], "tag")}
<1>1. M \in Nat /\ DOMAIN c = 0..M
  BY GitLimits, ChainFollows
<1>2. Peel(id, carries).commit = Commits({c[M]})
  BY DEF Peel
<1>3. TagHops(c) = Cardinality(S)
  BY <1>1 DEF TagHops
<1>4. ~ (TagHops(c) > M)
  BY DEF Peel, NoFailure
<1>5. \E n \in 0..M : ~HasKind(c[n], "tag")
  <2> SUFFICES ASSUME \A n \in 0..M : HasKind(c[n], "tag") PROVE FALSE
    OBVIOUS
  <2>1. S = 0..M
    OBVIOUS
  <2>2. Cardinality(0..M) = M + 1
    <3>1. Cardinality(0..M) = IF 0 > M THEN 0 ELSE (M - 0) + 1
      BY <1>1, FS_Interval
    <3> QED
      BY <1>1, <3>1
  <2> HIDE DEF S
  <2> QED
    BY <1>1, <1>3, <1>4, <2>1, <2>2
<1>6. AllHops \in Nat /\ c[M] = Chain(id, AllHops)[AllHops]
  BY <1>1, <1>5, TagsEnd
<1>7. Commits(Through(id)) = Commits({Chain(id, AllHops)[AllHops]})
  BY <1>6, CommitEndsChain DEF Through
<1> QED
  BY <1>2, <1>6, <1>7

LEMMA LenientPeelFinds ==
    ASSUME IsFiniteSet(DOMAIN input.objects), NEW id
    PROVE  PeelLeniently(id) = Commits(Through(id))
PROOF
<1>1. AllHops \in Nat
  <2> DEFINE tags == {t \in DOMAIN input.objects : Obj(t).kind = "tag"}
  <2>1. tags \subseteq DOMAIN input.objects
    OBVIOUS
  <2> QED
    BY <2>1, FS_Subset, FS_CardinalityType DEF AllHops
<1> QED
  BY <1>1, CommitEndsChain DEF PeelLeniently, Through

-----------------------------------------------------------------------------
(* More that changes only with the repository.                             *)
Nearer(near) == near \cup UNION {ToSet(Obj(c).parents) : c \in Commits(near)}
AllCommits == Cardinality(Commits(DOMAIN input.objects))
IsReach(f, tips) == f = [n \in 0..AllCommits |-> IF n = 0 THEN tips ELSE Nearer(f[n - 1])]

LEMMA ReachStays == ASSUME input' = input, NEW tips PROVE Reach(tips)' = Reach(tips)
PROOF
<1>1. \A S : Commits(S)' = Commits(S)
  BY DEF Commits, HasKind, Exists, Obj
<1>2. \A S : Nearer(S)' = Nearer(S)
  BY <1>1 DEF Nearer, Obj
<1>3. AllCommits' = AllCommits
  BY <1>1 DEF AllCommits
<1>4. \A f : IsReach(f, tips)' <=> IsReach(f, tips)
  BY <1>2, <1>3 DEF IsReach
<1>5. Reach(tips) = (CHOOSE f : IsReach(f, tips))[AllCommits]
  BY DEF Reach, IsReach, Nearer, AllCommits
<1>6. Reach(tips)' = (CHOOSE f : IsReach(f, tips)')[AllCommits']
  BY DEF Reach, IsReach, Nearer, AllCommits
<1>7. (CHOOSE f : IsReach(f, tips)') = (CHOOSE f : IsReach(f, tips))
  BY <1>4
<1> QED
  BY <1>3, <1>5, <1>6, <1>7

IsChain(f, id, hops) == f = [n \in 0..hops |-> IF n = 0 THEN id ELSE Follow(f[n - 1])]

LEMMA ChainStays == ASSUME input' = input, NEW id, NEW hops PROVE Chain(id, hops)' = Chain(id, hops)
PROOF
<1>1. \A x : Follow(x)' = Follow(x)
  BY DEF Follow, HasKind, Exists, Obj
<1>2. \A f : IsChain(f, id, hops)' <=> IsChain(f, id, hops)
  BY <1>1 DEF IsChain
<1>3. Chain(id, hops) = CHOOSE f : IsChain(f, id, hops)
  BY DEF Chain, IsChain, Follow
<1>4. Chain(id, hops)' = CHOOSE f : IsChain(f, id, hops)'
  BY DEF Chain, IsChain, Follow
<1>5. (CHOOSE f : IsChain(f, id, hops)') = (CHOOSE f : IsChain(f, id, hops))
  BY <1>2
<1> QED
  BY <1>3, <1>4, <1>5

(* What the refs at some places lead to.                                   *)
Found(ns) == UNION {Commits(Through(input.refs[n].to)) : n \in ns}
CarriedTo(i) == {n \in 1..i : IsCarried(input.refs[n]) /\ ~input.refs[n].symbolic}
DroppedTo(i) == {n \in 1..i : ~IsCarried(input.refs[n]) /\ ~input.refs[n].symbolic}

\* The files before a commit's own operations.
BaseContents(c) == IF FirstParents(c) = {} THEN EmptyTree ELSE Contents(Snapshot(OwnTree(Obj(c).parents[1])))

LEMMA HistoryStays ==
    ASSUME input' = input
    PROVE  /\ CarriedHistory' = CarriedHistory /\ DroppedHistory' = DroppedHistory
           /\ \A ids : Commits(ids)' = Commits(ids)
           /\ \A c : Obj(c)' = Obj(c)
           /\ \A ns : Found(ns)' = Found(ns)
           /\ \A i : CarriedTo(i)' = CarriedTo(i) /\ DroppedTo(i)' = DroppedTo(i)
           /\ \A c : BaseContents(c)' = BaseContents(c)
           /\ \A walkedTree : Contents(walkedTree)' = Contents(walkedTree)
PROOF
<1>1. \A ids : Commits(ids)' = Commits(ids)
  BY DEF Commits, HasKind, Exists, Obj
<1>2. \A c : Obj(c)' = Obj(c)
  BY DEF Obj
<1>3. AllHops' = AllHops
  BY DEF AllHops, Obj
<1>4. \A id : Through(id)' = Through(id)
  BY <1>3, ChainStays DEF Through
<1>5. \A ns : Found(ns)' = Found(ns)
  BY <1>1, <1>4 DEF Found
<1>6. \A i : CarriedTo(i)' = CarriedTo(i) /\ DroppedTo(i)' = DroppedTo(i)
  BY DEF CarriedTo, DroppedTo, IsCarried
<1>7. \A walkedTree : Contents(walkedTree)' = Contents(walkedTree)
  BY <1>2 DEF Contents
<1>8. \A c : BaseContents(c)' = BaseContents(c)
  <2>1. \A c : FirstParents(c)' = FirstParents(c) /\ OwnTree(c)' = OwnTree(c)
    BY <1>2 DEF FirstParents, OwnTree
  <2>2. \A t : Snapshot(t)' = Snapshot(t)
    BY RepositoryStays
  <2> QED
    BY <1>2, <1>7, <2>1, <2>2 DEF BaseContents
<1>9. CarriedHistory' = CarriedHistory
  <2>1. CarriedFrom' = CarriedFrom
    BY DEF CarriedFrom, IsCarried
  <2>2. Commits(UNION {Through(id) : id \in CarriedFrom})' = Commits(UNION {Through(id) : id \in CarriedFrom})
    BY <1>1, <1>4, <2>1
  <2> QED
    BY <2>2, ReachStays DEF CarriedHistory
<1>10. DroppedHistory' = DroppedHistory
  <2> DEFINE ns == {k \in DOMAIN input.refs : ~IsCarried(input.refs[k]) /\ ~input.refs[k].symbolic}
             tips == Commits(UNION {Through(input.refs[n].to) : n \in ns})
  <2>1. ns' = ns
    BY DEF IsCarried
  <2>2. tips' = tips
    <3> HIDE DEF ns
    <3> QED
      BY <1>1, <1>4, <2>1
  <2>3. DroppedHistory = Reach(tips)
    BY DEF DroppedHistory
  <2>4. DroppedHistory' = Reach(tips)'
    BY DEF DroppedHistory
  <2> HIDE DEF tips
  <2> QED
    BY <2>2, <2>3, <2>4, ReachStays
<1> QED
  BY <1>1, <1>2, <1>5, <1>6, <1>7, <1>8, <1>9, <1>10

-----------------------------------------------------------------------------
(* The scan: what the refs met so far lead to.                             *)
TipsOf(s, kinds) == UNION {s[n].commit : n \in {k \in DOMAIN s : s[k].space \in kinds}}

LEMMA TipsGrow ==
    ASSUME NEW s, s \in Seq(ToSet(s)), NEW r, NEW kinds
    PROVE  TipsOf(Append(s, r), kinds) = TipsOf(s, kinds) \cup (IF r.space \in kinds THEN r.commit ELSE {})
PROOF
<1> DEFINE b == Append(s, r)
           L == Len(s)
<1>1. /\ L \in Nat /\ DOMAIN s = 1..L /\ DOMAIN b = 1..(L + 1) /\ b[L + 1] = r
      /\ \A n \in 1..L : b[n] = s[n]
  BY SequenceGrows
<1> HIDE DEF b, L
<1>2. \A n \in 1..(L + 1) : n \in 1..L \/ n = L + 1
  BY <1>1
<1>3. 1..L \subseteq 1..(L + 1) /\ L + 1 \in 1..(L + 1)
  BY <1>1
<1>4. ASSUME NEW x \in TipsOf(b, kinds) PROVE x \in TipsOf(s, kinds) \cup (IF r.space \in kinds THEN r.commit ELSE {})
  <2>1. PICK n \in 1..(L + 1) : b[n].space \in kinds /\ x \in b[n].commit
    BY <1>1, <1>4 DEF TipsOf
  <2>2. CASE n \in 1..L
    <3>1. s[n].space \in kinds /\ x \in s[n].commit /\ n \in DOMAIN s
      BY <1>1, <2>1, <2>2
    <3> QED
      BY <3>1 DEF TipsOf
  <2>3. CASE n = L + 1
    BY <1>1, <2>1, <2>3
  <2> QED
    BY <1>2, <2>2, <2>3
<1>5. ASSUME NEW x \in TipsOf(s, kinds) PROVE x \in TipsOf(b, kinds)
  <2>1. PICK n \in 1..L : s[n].space \in kinds /\ x \in s[n].commit
    BY <1>1, <1>5 DEF TipsOf
  <2>2. n \in DOMAIN b /\ b[n].space \in kinds /\ x \in b[n].commit
    BY <1>1, <1>3, <2>1
  <2> QED
    BY <2>2 DEF TipsOf
<1>6. ASSUME r.space \in kinds PROVE r.commit \subseteq TipsOf(b, kinds)
  <2>1. L + 1 \in DOMAIN b /\ b[L + 1].space \in kinds /\ b[L + 1].commit = r.commit
    BY <1>1, <1>3, <1>6
  <2> QED
    BY <2>1 DEF TipsOf
<1> QED
  BY <1>4, <1>5, <1>6 DEF b

DropSpaces == {"remotes", "notes", "stash", "other"}

Scanned == tally.symbolic + Len(scanned)

ScanInv ==
    /\ "symbolic" \in DOMAIN tally /\ tally.symbolic \in Nat
    /\ scanned \in Seq(ToSet(scanned)) /\ Scanned <= Len(input.refs)
    /\ CarriedTips = Found(CarriedTo(Scanned)) /\ DroppedTips = Found(DroppedTo(Scanned))

LEMMA ScanBegins ==
    ASSUME IsRepository(input), tally = NoTally, scanned = <<>>
    PROVE  ScanInv
PROOF
<1>1. Len(input.refs) \in Nat
  BY DEF IsRepository
<1>2. tally.symbolic = 0 /\ "symbolic" \in DOMAIN tally
  BY DEF NoTally
<1>3. Len(scanned) = 0 /\ scanned \in Seq(ToSet(scanned)) /\ DOMAIN scanned = {}
  OBVIOUS
<1>4. Scanned = 0
  BY <1>2, <1>3 DEF Scanned
<1>5. CarriedTo(0) = {} /\ DroppedTo(0) = {} /\ Found({}) = {}
  BY DEF CarriedTo, DroppedTo, Found
<1>6. CarriedTips = {} /\ DroppedTips = {}
  BY <1>3 DEF CarriedTips, DroppedTips, Tips
<1>7. Scanned <= Len(input.refs) /\ tally.symbolic \in Nat
  BY <1>1, <1>2, <1>4
<1>8. CarriedTips = Found(CarriedTo(Scanned)) /\ DroppedTips = Found(DroppedTo(Scanned))
  BY <1>4, <1>5, <1>6
<1> QED
  BY <1>2, <1>3, <1>7, <1>8 DEF ScanInv

(* One ref more: what it leads to is among the tips it belongs to.         *)
LEMMA OneRefMore ==
    ASSUME NEW i \in Nat
    PROVE  LET ref == input.refs[i + 1]
               its == Commits(Through(ref.to))
           IN  /\ Found(CarriedTo(i + 1)) =
                    Found(CarriedTo(i)) \cup (IF IsCarried(ref) /\ ~ref.symbolic THEN its ELSE {})
               /\ Found(DroppedTo(i + 1)) =
                    Found(DroppedTo(i)) \cup (IF ~IsCarried(ref) /\ ~ref.symbolic THEN its ELSE {})
PROOF
<1> DEFINE ref == input.refs[i + 1]
<1>1. 1..(i + 1) = (1..i) \cup {i + 1}
  OBVIOUS
<1>2. CarriedTo(i + 1) = CarriedTo(i) \cup (IF IsCarried(ref) /\ ~ref.symbolic THEN {i + 1} ELSE {})
  BY <1>1 DEF CarriedTo
<1>3. DroppedTo(i + 1) = DroppedTo(i) \cup (IF ~IsCarried(ref) /\ ~ref.symbolic THEN {i + 1} ELSE {})
  BY <1>1 DEF DroppedTo
<1>4. \A S, T : Found(S \cup T) = Found(S) \cup Found(T)
  BY DEF Found
<1>5. Found({i + 1}) = Commits(Through(ref.to)) /\ Found({}) = {}
  BY DEF Found
<1> QED
  BY <1>2, <1>3, <1>4, <1>5

LEMMA ScanKeepsScan ==
    ASSUME IsRepository(input), ScanInv, ScanRef, stage' # "failed"
    PROVE  ScanInv'
PROOF
<1> DEFINE i == Scanned
           ref == input.refs[i + 1]
           its == Commits(Through(ref.to))
           keep(c, id) == [space |-> ref.space, name |-> ref.name, commit |-> c, identity |-> id]
<1>1. \A why : ~ Fail(why)
  BY Moves
<1>2. input' = input /\ i < Len(input.refs)
  BY <1>1 DEF ScanRef, Goto, Scanned
<1>3. /\ Len(input.refs) \in Nat /\ Len(scanned) \in Nat /\ i \in Nat /\ tally.symbolic \in Nat
      /\ "symbolic" \in DOMAIN tally /\ scanned \in Seq(ToSet(scanned))
      /\ IsFiniteSet(DOMAIN input.objects)
  BY DEF IsRepository, ScanInv, Scanned
<1>4. ref.space \in Spaces
  <2>1. i + 1 \in 1..Len(input.refs) /\ DOMAIN input.refs = 1..Len(input.refs)
    BY <1>2, <1>3 DEF IsRepository
  <2>2. ref \in ToSet(input.refs)
    BY <2>1 DEF ToSet
  <2> QED
    BY <2>2 DEF IsRepository
<1>5. ref.space # "replace"
  BY <1>1 DEF ScanRef, Scanned, IsCarried
<1>6. \/ ref.symbolic /\ tally' = [tally EXCEPT !.symbolic = @ + 1] /\ scanned' = scanned
      \/ /\ ~ref.symbolic /\ tally'.symbolic = tally.symbolic /\ "symbolic" \in DOMAIN tally'
         /\ \E id : scanned' = Append(scanned, keep(its, id))
  <2>1. CASE ref.symbolic
    BY <1>1, <1>5, <2>1 DEF ScanRef, Scanned
  <2>2. CASE ~ref.symbolic /\ IsCarried(ref)
    <3> DEFINE peeled == Peel(ref.to, ref.space = "tags")
               id == IF ref.space = "tags" THEN TagIdentity(ref.to) ELSE <<>>
    <3>1. ref.space \in {"heads", "tags"}
      BY <2>2 DEF IsCarried
    <3>2. /\ peeled.fault = NoFailure /\ scanned' = Append(scanned, keep(peeled.commit, id))
          /\ tally' = [tally EXCEPT
                         !.nested = @ + peeled.nested,
                         !.taggerTimes = @ + LackSeconds(TaggerClaims(id)),
                         !.taggerOffsets = @ + LackOffset(TaggerClaims(id))]
      BY <1>1, <2>2, <3>1 DEF ScanRef, Scanned
    <3>3. peeled.commit = its
      BY <1>3, <3>2, PeelFinds
    <3>4. tally'.symbolic = tally.symbolic /\ "symbolic" \in DOMAIN tally'
      BY <1>3, <3>2
    <3> QED
      BY <2>2, <3>2, <3>3, <3>4
  <2>3. CASE ~ref.symbolic /\ ~IsCarried(ref)
    <3>1. scanned' = Append(scanned, keep(PeelLeniently(ref.to), <<>>)) /\ tally' = tally
      BY <1>1, <1>5, <2>3 DEF ScanRef, Scanned, IsCarried
    <3>2. PeelLeniently(ref.to) = its
      BY <1>3, LenientPeelFinds
    <3> QED
      BY <1>3, <2>3, <3>1, <3>2
  <2> QED
    BY <2>1, <2>2, <2>3
<1>7. /\ "symbolic" \in DOMAIN tally' /\ tally'.symbolic \in Nat /\ scanned' \in Seq(ToSet(scanned'))
      /\ Scanned' = i + 1
  <2>1. CASE ref.symbolic
    BY <1>3, <1>6, <2>1 DEF Scanned
  <2>2. CASE ~ref.symbolic
    <3>1. PICK id : scanned' = Append(scanned, keep(its, id))
      BY <1>6, <2>2
    <3> DEFINE r == keep(its, id)
    <3>2. Append(scanned, r) \in Seq(ToSet(Append(scanned, r))) /\ Len(Append(scanned, r)) = Len(scanned) + 1
      <4> HIDE DEF r
      <4> QED
        BY <1>3, SequenceGrows
    <3>3. Scanned' = tally.symbolic + (Len(scanned) + 1)
      BY <1>6, <2>2, <3>1, <3>2 DEF Scanned
    <3> QED
      BY <1>3, <1>6, <2>2, <3>1, <3>2, <3>3 DEF Scanned
  <2> QED
    BY <2>1, <2>2
<1>8. /\ CarriedTips' = CarriedTips \cup (IF IsCarried(ref) /\ ~ref.symbolic THEN its ELSE {})
      /\ DroppedTips' = DroppedTips \cup (IF ~IsCarried(ref) /\ ~ref.symbolic THEN its ELSE {})
  <2>1. /\ CarriedTips = TipsOf(scanned, {"heads", "tags"}) /\ CarriedTips' = TipsOf(scanned', {"heads", "tags"})
        /\ DroppedTips = TipsOf(scanned, DropSpaces) /\ DroppedTips' = TipsOf(scanned', DropSpaces)
    BY DEF CarriedTips, DroppedTips, Tips, TipsOf, DropSpaces
  <2>2. CASE ref.symbolic
    BY <1>6, <2>1, <2>2
  <2>3. CASE ~ref.symbolic
    <3>1. PICK id : scanned' = Append(scanned, keep(its, id))
      BY <1>6, <2>3
    <3> DEFINE r == keep(its, id)
    <3>2. r.space = ref.space /\ r.commit = its
      OBVIOUS
    <3>3. ref.space \in {"heads", "tags"} <=> IsCarried(ref)
      BY DEF IsCarried
    <3>4. ref.space \in DropSpaces <=> ~IsCarried(ref)
      BY <1>4, <1>5 DEF IsCarried, Spaces, DropSpaces
    <3> HIDE DEF r
    <3>5. \A kinds : TipsOf(Append(scanned, r), kinds) = TipsOf(scanned, kinds) \cup (IF r.space \in kinds THEN r.commit ELSE {})
      BY <1>3, TipsGrow
    <3>6. scanned' = Append(scanned, r)
      BY <3>1 DEF r
    <3> HIDE DEF ref, its
    <3> QED
      BY <2>1, <2>3, <3>2, <3>3, <3>4, <3>5, <3>6
  <2> QED
    BY <2>2, <2>3
<1>9. (CarriedTips = Found(CarriedTo(Scanned)) /\ DroppedTips = Found(DroppedTo(Scanned)))'
  <2>1. CarriedTips = Found(CarriedTo(i)) /\ DroppedTips = Found(DroppedTo(i))
    BY DEF ScanInv
  <2>2. CarriedTips' = Found(CarriedTo(i + 1)) /\ DroppedTips' = Found(DroppedTo(i + 1))
    <3> HIDE DEF i
    <3> QED
      BY <1>3, <1>8, <2>1, OneRefMore
  <2>3. Found(CarriedTo(Scanned))' = Found(CarriedTo(i + 1)) /\ Found(DroppedTo(Scanned))' = Found(DroppedTo(i + 1))
    BY <1>2, <1>7, HistoryStays
  <2> QED
    BY <2>2, <2>3
<1>10. (Scanned <= Len(input.refs))'
  <2>1. i + 1 <= Len(input.refs)
    BY <1>2, <1>3
  <2> QED
    BY <1>2, <1>7, <2>1
<1> QED
  BY <1>7, <1>9, <1>10 DEF ScanInv

-----------------------------------------------------------------------------
(* The difference of two trees makes the one of the other.                 *)
IsContents(listed) == listed = [p \in DOMAIN listed |-> [blob |-> listed[p].blob, mode |-> listed[p].mode]]

(* Each operation deletes what goes or writes what comes, and there is one *)
(* for each path that is not the same already.                             *)
LeadsTo(base, child, ops) ==
    /\ \A o \in ops :
          \/ /\ o.path \in DOMAIN child /\ o.kind # "Delete"
             /\ o.blob = child[o.path].blob /\ o.mode = child[o.path].mode
          \/ o.path \in DOMAIN base \ DOMAIN child /\ o.kind = "Delete"
    /\ \A p \in DOMAIN child : (\E o \in ops : o.path = p) \/ (p \in DOMAIN base /\ base[p] = child[p])
    /\ \A p \in DOMAIN base \ DOMAIN child : \E o \in ops : o.path = p

LEMMA OpsMakeChild ==
    ASSUME NEW base, NEW child, NEW ops, IsContents(child), LeadsTo(base, child, ops)
    PROVE  After(base, ops) = child
PROOF
<1> DEFINE gone == {o.path : o \in {x \in ops : x.kind = "Delete"}}
           written == Paths(ops) \ gone
<1>1. gone = DOMAIN base \ DOMAIN child
  BY DEF LeadsTo
<1>2. \A p : p \in Paths(ops) <=> \E o \in ops : o.path = p
  BY DEF Paths
<1>3. written \subseteq DOMAIN child
  BY <1>1, <1>2 DEF LeadsTo
<1>4. ASSUME NEW p \in written PROVE [blob |-> At(ops, p).blob, mode |-> At(ops, p).mode] = child[p]
  <2>1. \E o \in ops : o.path = p
    BY <1>2
  <2>2. At(ops, p) \in ops /\ At(ops, p).path = p
    BY <2>1 DEF At
  <2>3. p \in DOMAIN child
    BY <1>3
  <2> HIDE DEF written, gone
  <2>4. At(ops, p).blob = child[p].blob /\ At(ops, p).mode = child[p].mode
    BY <2>2, <2>3 DEF LeadsTo
  <2>5. child[p] = [blob |-> child[p].blob, mode |-> child[p].mode]
    BY <2>3 DEF IsContents
  <2> QED
    BY <2>4, <2>5
<1>5. After(base, ops) = [p \in (DOMAIN base \ gone) \cup written |->
                            IF p \in written THEN [blob |-> At(ops, p).blob, mode |-> At(ops, p).mode] ELSE base[p]]
  BY DEF After
<1>6. \A p \in DOMAIN child : p \notin written => p \in DOMAIN base /\ base[p] = child[p]
  BY <1>1, <1>2 DEF LeadsTo
<1>7. (DOMAIN base \ gone) \cup written = DOMAIN child
  <2> HIDE DEF gone, written
  <2> QED
    BY <1>1, <1>3, <1>6
<1>8. child = [p \in DOMAIN child |-> child[p]]
  BY DEF IsContents
<1>9. After(base, ops) = [p \in DOMAIN child |-> child[p]]
  <2> HIDE DEF gone, written
  <2> QED
    BY <1>4, <1>5, <1>6, <1>7
<1> QED
  BY <1>8, <1>9

LEMMA DiffIs ==
    ASSUME NEW base, NEW child, NEW status
    PROVE  LET ops == DiffOps(base, child, status) IN
           /\ \A o \in ops :
                 \/ /\ o.path \in DOMAIN child /\ o.kind # "Delete"
                    /\ o.blob = child[o.path].blob /\ o.mode = child[o.path].mode
                 \/ o.path \in DOMAIN base \ DOMAIN child /\ o.kind = "Delete"
           /\ \A p \in DOMAIN child : (\E o \in ops : o.path = p) \/ (p \in DOMAIN base /\ base[p] = child[p])
           /\ \A p \in DOMAIN base \ DOMAIN child : \E o \in ops : o.path = p
PROOF
<1> DEFINE ops == DiffOps(base, child, status)
           changed == {q \in DOMAIN child \cap DOMAIN base : child[q] # base[q]}
           added == DOMAIN child \ DOMAIN base
<1>1. \A p, blob, mode : /\ AddOp(p, blob, mode, status).path = p /\ ModifyOp(p, blob, mode, status).path = p
                         /\ DeleteOp(p, status).path = p
  BY DEF AddOp, ModifyOp, DeleteOp
<1>2. \A o \in ops : \/ o.path \in added /\ o = AddOp(o.path, child[o.path].blob, child[o.path].mode, status)
                     \/ o.path \in changed /\ o = ModifyOp(o.path, child[o.path].blob, child[o.path].mode, status)
                     \/ o.path \in DOMAIN base \ DOMAIN child /\ o = DeleteOp(o.path, status)
  BY DEF DiffOps, AddOp, ModifyOp, DeleteOp
<1>3. \A p \in added : AddOp(p, child[p].blob, child[p].mode, status) \in ops
  BY DEF DiffOps
<1>4. \A p \in changed : ModifyOp(p, child[p].blob, child[p].mode, status) \in ops
  BY DEF DiffOps
<1>5. \A p \in DOMAIN base \ DOMAIN child : DeleteOp(p, status) \in ops
  BY DEF DiffOps
<1> HIDE DEF ops
<1>6. \A o \in ops :
         \/ /\ o.path \in DOMAIN child /\ o.kind # "Delete"
            /\ o.blob = child[o.path].blob /\ o.mode = child[o.path].mode
         \/ o.path \in DOMAIN base \ DOMAIN child /\ o.kind = "Delete"
  BY <1>2 DEF AddOp, ModifyOp, DeleteOp
<1>7. \A p \in DOMAIN child : (\E o \in ops : o.path = p) \/ (p \in DOMAIN base /\ base[p] = child[p])
  BY <1>1, <1>3, <1>4
<1>8. \A p \in DOMAIN base \ DOMAIN child : \E o \in ops : o.path = p
  BY <1>1, <1>5
<1> QED
  BY <1>6, <1>7, <1>8 DEF ops

LEMMA DiffMakesChild ==
    ASSUME NEW base, NEW child, NEW status, IsContents(base), IsContents(child)
    PROVE  After(base, DiffOps(base, child, status)) = child
PROOF
<1>1. LeadsTo(base, child, DiffOps(base, child, status))
  BY DiffIs DEF LeadsTo
<1> QED
  BY <1>1, OpsMakeChild

(* Atoms that lead from one tree to another add up to these trees.         *)
LEMMA ReplayGives ==
    ASSUME NEW N \in Nat, NEW atoms, DOMAIN atoms = 1..N, NEW Full,
           \A n \in 1..N :
              LET atom == atoms[n] IN
              /\ atom.parents = <<>> => After(EmptyTree, atom.ops) = Full[n]
              /\ atom.parents # <<>> => /\ atom.parents[1] \in 1..(n - 1)
                                        /\ After(Full[atom.parents[1]], atom.ops) = Full[n]
    PROVE  \A n \in 1..N : TreesOf(atoms)[n] = Full[n]
PROOF
<1> DEFINE Of(f, n) == After(IF atoms[n].parents = <<>> THEN EmptyTree ELSE f[atoms[n].parents[1]], atoms[n].ops)
           Eq(f) == f = [n \in DOMAIN atoms |-> Of(f, n)]
           h == [n \in 1..N |-> Full[n]]
           g == CHOOSE f : Eq(f)
<1>1. DOMAIN atoms = 1..N
  OBVIOUS
<1>2. ASSUME NEW n \in 1..N
      PROVE  /\ atoms[n].parents = <<>> => After(EmptyTree, atoms[n].ops) = Full[n]
             /\ atoms[n].parents # <<>> => /\ atoms[n].parents[1] \in 1..(n - 1)
                                           /\ After(Full[atoms[n].parents[1]], atoms[n].ops) = Full[n]
  OBVIOUS
<1>3. \A n \in 1..N : \A m \in 1..(n - 1) : m \in 1..N
  OBVIOUS
<1>4. Eq(h)
  <2>1. ASSUME NEW n \in 1..N PROVE Of(h, n) = Full[n]
    <3>1. CASE atoms[n].parents = <<>>
      BY <1>2, <3>1
    <3>2. CASE atoms[n].parents # <<>>
      <4>1. h[atoms[n].parents[1]] = Full[atoms[n].parents[1]]
        BY <1>2, <1>3, <3>2
      <4> QED
        BY <1>2, <3>2, <4>1
    <3> QED
      BY <3>1, <3>2
  <2> HIDE DEF Of
  <2> QED
    BY <1>1, <2>1
<1>5. TreesOf(atoms) = g
  BY DEF TreesOf
<1>6. Eq(g)
  <2> HIDE DEF Eq
  <2> QED
    BY <1>4
<1> HIDE DEF g
<1>7. \A n \in 1..N : g[n] = Of(g, n)
  <2> HIDE DEF Of
  <2> QED
    BY <1>1, <1>6
<1> DEFINE V == {n \in 0..N : \A m \in 1..n : g[m] = Full[m]}
<1>8. 0 \in V
  OBVIOUS
<1>9. ASSUME NEW n \in 0..(N - 1), n \in V PROVE n + 1 \in V
  <2>1. n + 1 \in 1..N /\ n + 1 \in 0..N /\ (n + 1) - 1 = n /\ \A m \in 1..(n + 1) : m \in 1..n \/ m = n + 1
    OBVIOUS
  <2>2. \A m \in 1..n : g[m] = Full[m]
    BY <1>9
  <2>3. g[n + 1] = Full[n + 1]
    <3>1. g[n + 1] = Of(g, n + 1)
      BY <1>7, <2>1
    <3>2. CASE atoms[n + 1].parents = <<>>
      BY <1>2, <2>1, <3>1, <3>2
    <3>3. CASE atoms[n + 1].parents # <<>>
      <4>1. g[atoms[n + 1].parents[1]] = Full[atoms[n + 1].parents[1]]
        BY <1>2, <2>1, <2>2, <3>3
      <4> QED
        BY <1>2, <2>1, <3>1, <3>3, <4>1
    <3> QED
      BY <3>2, <3>3
  <2> QED
    BY <2>1, <2>2, <2>3
<1> HIDE DEF V
<1>10. 0..N \subseteq V
  BY <1>8, <1>9, BoundedInduction
<1>11. \A m \in 1..N : g[m] = Full[m]
  <2>1. N \in V
    BY <1>10
  <2> QED
    BY <2>1 DEF V
<1> QED
  BY <1>5, <1>11

LEMMA ReplayedIs ==
    ASSUME NEW N \in Nat, DOMAIN builder.atoms = 1..N, NEW Full,
           \A n \in 1..N :
              LET atom == builder.atoms[n] IN
              /\ atom.parents = <<>> => After(EmptyTree, atom.ops) = Full[n]
              /\ atom.parents # <<>> => /\ atom.parents[1] \in 1..(n - 1)
                                        /\ After(Full[atom.parents[1]], atom.ops) = Full[n]
    PROVE  \A n \in 1..N : ReplayedTrees[n] = Full[n]
PROOF
<1> DEFINE atoms == builder.atoms
<1>1. \A n \in 1..N :
         LET atom == atoms[n] IN
         /\ atom.parents = <<>> => After(EmptyTree, atom.ops) = Full[n]
         /\ atom.parents # <<>> => /\ atom.parents[1] \in 1..(n - 1)
                                   /\ After(Full[atom.parents[1]], atom.ops) = Full[n]
  OBVIOUS
<1>2. DOMAIN atoms = 1..N /\ ReplayedTrees = TreesOf(atoms)
  BY DEF ReplayedTrees
<1> HIDE DEF atoms
<1>3. \A n \in 1..N : TreesOf(atoms)[n] = Full[n]
  BY <1>1, <1>2, ReplayGives
<1> QED
  BY <1>2, <1>3

LEMMA ContentsAre ==
    /\ \A walkedTree : IsContents(Contents(walkedTree))
    /\ Contents(EmptyTree) = EmptyTree
PROOF
  BY DEF IsContents, Contents, EmptyTree

(* What an atom must be to be the commit at its place.                     *)
AtomIsRight(a, n) ==
    LET c == order[n] IN
    /\ a.source = c
    /\ a.parents \in [DOMAIN Obj(c).parents -> 1..(n - 1)]
    /\ \A k \in DOMAIN Obj(c).parents : order[a.parents[k]] = Obj(c).parents[k]
    /\ After(BaseContents(c), a.ops) = Contents(Snapshot(OwnTree(c)))

CountLeftOut ==
    LET only == DroppedHistory \ CarriedHistory
    IN  IF only = Commits(only) THEN {Cardinality(only)} ELSE {}

HistoryRight ==
    /\ input \in Sources
    /\ IsOrder(order, ToSet(order)) /\ ToSet(order) = CarriedHistory
    /\ \A n \in 1..Len(order) : Obj(order[n]).parents \in Seq(Nat)
    /\ droppedOnly = CountLeftOut

AtomsRight ==
    /\ builder.atoms \in Seq(ToSet(builder.atoms)) /\ Len(builder.atoms) <= Len(order)
    /\ \A n \in 1..Len(builder.atoms) : AtomIsRight(builder.atoms[n], n)

OfGit == stage = "done" /\ input.kind = "git"

ExactInv ==
    /\ stage \in {"git open", "git scan"} => input \in Sources /\ input.kind = "git" /\ ScanInv
    /\ stage = "git open" => tally = NoTally /\ scanned = <<>>
    /\ (stage = "git import" \/ OfGit) => HistoryRight /\ AtomsRight
    /\ OfGit => Len(builder.atoms) = Len(order)

(* The trees that atoms add up to, when each does from its first parent's. *)
LEMMA TreesAddUp ==
    ASSUME HistoryRight, AtomsRight, Len(builder.atoms) = Len(order)
    PROVE  \A n \in 1..Len(order) : ReplayedTrees[n] = Contents(Snapshot(OwnTree(order[n])))
PROOF
<1> DEFINE N == Len(order)
           atoms == builder.atoms
           Full(n) == Contents(Snapshot(OwnTree(order[n])))
           h == [n \in 1..N |-> Full(n)]
<1>1. N \in Nat /\ DOMAIN atoms = 1..N /\ \A n \in 1..N : AtomIsRight(atoms[n], n)
  BY DEF HistoryRight, AtomsRight, IsOrder
<1>2. ASSUME NEW n \in 1..N
      PROVE  /\ atoms[n].parents = <<>> => BaseContents(order[n]) = EmptyTree
             /\ atoms[n].parents # <<>> => /\ atoms[n].parents[1] \in 1..(n - 1)
                                           /\ BaseContents(order[n]) = Full(atoms[n].parents[1])
             /\ After(BaseContents(order[n]), atoms[n].ops) = Full(n)
  <2> DEFINE ps == Obj(order[n]).parents
             qs == atoms[n].parents
  <2>1. ps \in Seq(Nat) /\ qs \in [DOMAIN ps -> 1..(n - 1)] /\ \A k \in DOMAIN ps : order[qs[k]] = ps[k]
    BY <1>1 DEF HistoryRight, AtomIsRight
  <2>2. After(BaseContents(order[n]), atoms[n].ops) = Full(n)
    BY <1>1 DEF AtomIsRight
  <2>3. FirstParents(order[n]) = {ps[k] : k \in DOMAIN ps \cap {1}}
    BY DEF FirstParents
  <2>4. BaseContents(order[n]) = IF FirstParents(order[n]) = {} THEN EmptyTree ELSE Contents(Snapshot(OwnTree(ps[1])))
    BY DEF BaseContents
  <2> HIDE DEF ps, qs
  <2>5. Len(ps) \in Nat /\ DOMAIN ps = 1..Len(ps)
    BY <2>1
  <2>6. CASE Len(ps) = 0
    <3>1. DOMAIN ps = {} /\ DOMAIN qs = {}
      BY <2>1, <2>5, <2>6
    <3>2. qs = <<>>
      BY <2>1, <3>1
    <3>3. FirstParents(order[n]) = {}
      BY <2>3, <3>1
    <3> QED
      BY <2>2, <2>4, <3>2, <3>3 DEF qs
  <2>7. CASE Len(ps) # 0
    <3>1. 1 \in DOMAIN ps /\ DOMAIN qs = DOMAIN ps
      BY <2>1, <2>5, <2>7
    <3>2. qs # <<>>
      BY <3>1
    <3>3. FirstParents(order[n]) # {}
      BY <2>3, <3>1
    <3>4. qs[1] \in 1..(n - 1) /\ order[qs[1]] = ps[1]
      BY <2>1, <3>1
    <3> QED
      BY <2>2, <2>4, <3>2, <3>3, <3>4 DEF qs
  <2> QED
    BY <2>5, <2>6, <2>7
<1> HIDE DEF N, Full
<1>3. \A n \in 1..N : \A m \in 1..(n - 1) : m \in 1..N
  BY <1>1
<1>4. \A n \in 1..N : h[n] = Full(n)
  OBVIOUS
<1> HIDE DEF h
<1>5. \A n \in 1..N :
         LET atom == builder.atoms[n] IN
         /\ atom.parents = <<>> => After(EmptyTree, atom.ops) = h[n]
         /\ atom.parents # <<>> => /\ atom.parents[1] \in 1..(n - 1)
                                   /\ After(h[atom.parents[1]], atom.ops) = h[n]
  BY <1>2, <1>3, <1>4
<1>6. \A n \in 1..N : ReplayedTrees[n] = h[n]
  BY <1>1, <1>5, ReplayedIs
<1> QED
  BY <1>4, <1>6 DEF N, Full

LEMMA ExactInvIsEnough == ExactInv => GitHistoryExact
PROOF
<1> SUFFICES ASSUME ExactInv, OfGit PROVE GitHistoryExact
  BY DEF GitHistoryExact, OfGit
<1>1. HistoryRight /\ AtomsRight /\ Len(builder.atoms) = Len(order)
  BY DEF ExactInv
<1>2. order \in Seq(ToSet(order)) /\ IsInjective(order) /\ ToSet(order) = CarriedHistory
  BY <1>1 DEF HistoryRight, IsOrder
<1> DEFINE S == ToSet(order)
           N == Len(order)
<1>3. N \in Nat /\ DOMAIN order = 1..N /\ order = [n \in 1..N |-> order[n]]
  <2>1. order \in Seq(S)
    BY <1>2
  <2> HIDE DEF S
  <2> QED
    BY <2>1
<1>4. N = Cardinality(CarriedHistory)
  <2>1. Cardinality({n \in 1..N : order[n] \in S}) = Cardinality({c \in ToSet(order) : c \in S})
    <3>1. order \in Seq(S)
      BY <1>2
    <3> HIDE DEF S, N
    <3> QED
      BY <1>2, <3>1, CountedInOrder DEF N
  <2>2. {n \in 1..N : order[n] \in S} = 1..N /\ {c \in ToSet(order) : c \in S} = CarriedHistory
    BY <1>2, <1>3 DEF ToSet
  <2>3. Cardinality(1..N) = N
    <3> HIDE DEF N
    <3>1. N \in Nat
      BY <1>3
    <3>2. IsFiniteSet(1..N) /\ Cardinality(1..N) = N
      BY <3>1, FS_Interval
    <3> QED
      BY <3>2
  <2> QED
    BY <2>1, <2>2, <2>3
<1>5. \A n \in 1..N : AtomIsRight(builder.atoms[n], n) /\ Obj(order[n]).parents \in Seq(Nat)
  BY <1>1 DEF AtomsRight, HistoryRight
<1>6. [n \in DOMAIN order |-> builder.atoms[n].source] = order
  BY <1>3, <1>5 DEF AtomIsRight
<1>7. ASSUME NEW n \in 1..N
      PROVE  [k \in DOMAIN builder.atoms[n].parents |-> order[builder.atoms[n].parents[k]]] = Obj(order[n]).parents
  <2> DEFINE ps == Obj(order[n]).parents
             qs == builder.atoms[n].parents
  <2>1. ps \in Seq(Nat) /\ DOMAIN qs = DOMAIN ps /\ \A k \in DOMAIN ps : order[qs[k]] = ps[k]
    BY <1>5 DEF AtomIsRight
  <2> HIDE DEF ps, qs
  <2>2. ps = [k \in DOMAIN ps |-> ps[k]]
    BY <2>1
  <2>3. [k \in DOMAIN qs |-> order[qs[k]]] = ps
    BY <2>1, <2>2
  <2> QED
    BY <2>3 DEF ps, qs
<1>8. \A n \in 1..N : ReplayedTrees[n] = Contents(Snapshot(OwnTree(order[n])))
  BY <1>1, TreesAddUp
<1>9. droppedOnly = CountLeftOut
  BY <1>1 DEF HistoryRight
<1> QED
  BY <1>2, <1>3, <1>4, <1>6, <1>7, <1>8, <1>9 DEF GitHistoryExact, CountLeftOut

LEMMA ScanStays ==
    ASSUME input' = input, tally' = tally, scanned' = scanned, ScanInv
    PROVE  ScanInv'
PROOF
<1>1. Scanned' = Scanned /\ CarriedTips' = CarriedTips /\ DroppedTips' = DroppedTips
  BY DEF Scanned, CarriedTips, DroppedTips, Tips
<1>2. Found(CarriedTo(Scanned))' = Found(CarriedTo(Scanned)) /\ Found(DroppedTo(Scanned))' = Found(DroppedTo(Scanned))
  BY <1>1, HistoryStays
<1> QED
  BY <1>1, <1>2 DEF ScanInv

LEMMA AtomStays ==
    ASSUME input' = input, order' = order
    PROVE  \A a, n : AtomIsRight(a, n)' <=> AtomIsRight(a, n)
PROOF
<1>1. \A c : OwnTree(c)' = OwnTree(c) /\ Obj(c)' = Obj(c) /\ BaseContents(c)' = BaseContents(c)
  BY RepositoryStays, HistoryStays
<1>2. \A t : Contents(Snapshot(t))' = Contents(Snapshot(t))
  BY RepositoryStays, HistoryStays
<1> QED
  BY <1>1, <1>2 DEF AtomIsRight

LEMMA HistoryStaysRight ==
    ASSUME input' = input, order' = order, droppedOnly' = droppedOnly, HistoryRight
    PROVE  HistoryRight'
PROOF
<1>1. CarriedHistory' = CarriedHistory /\ CountLeftOut' = CountLeftOut
  BY HistoryStays DEF CountLeftOut
<1>2. IsOrder(order, ToSet(order))'
  BY RepositoryStays DEF HistoryRight
<1>3. (\A n \in 1..Len(order) : Obj(order[n]).parents \in Seq(Nat))'
  BY HistoryStays DEF HistoryRight
<1> QED
  BY <1>1, <1>2, <1>3 DEF HistoryRight

LEMMA AtomsStayRight ==
    ASSUME input' = input, order' = order, builder'.atoms = builder.atoms, AtomsRight
    PROVE  AtomsRight'
PROOF
  BY AtomStays DEF AtomsRight

(* A kind of source is read by its decoder.                                *)
KindInv ==
    /\ input \in Sources
    /\ stage \in GitStages => input.kind = "git"
    /\ stage \in HgStages => input.kind = "hg"
    /\ stage \in SvnStages => input.kind = "svn"
    /\ stage \in CvsStages => input.kind = "cvs"
    /\ stage = "done" => input.kind \in {"git", "hg", "svn", "cvs"}

LEMMA KindInvHolds == Spec => []KindInv
PROOF
<1>1. Init => KindInv
  <2> SUFFICES ASSUME Init PROVE KindInv
    OBVIOUS
  <2>1. PICK source \in Sources : DecodingInit(source, Begin(source.kind))
    BY DEF Init
  <2>2. source.kind \in {"git", "hg", "svn", "cvs", "artifact"} /\ input = source /\ stage = Begin(source.kind)
    BY <2>1, SourceKinds DEF DecodingInit
  <2> QED
    BY <2>1, <2>2 DEF Begin, KindInv, GitStages, HgStages, SvnStages, CvsStages
<1>2. KindInv /\ [Next]_vars => KindInv'
  <2> SUFFICES ASSUME KindInv, [Next]_vars PROVE KindInv'
    OBVIOUS
  <2> USE DEF KindInv, Stays, GitStages, HgStages, SvnStages, CvsStages, VerifyStages, Ends
  <2>1. CASE GitNext
    BY <2>1, GitStays
  <2>2. CASE HgNext
    BY <2>2, HgStays
  <2>3. CASE SvnStep
    BY <2>3, SvnStays
  <2>4. CASE CvsNext
    BY <2>4, CvsStays
  <2>5. CASE VerifyNext
    BY <2>5, VerifyStays
  <2>6. CASE Reader \/ Thread \/ Child
    <3>1. input' = input /\ stage' = stage
      BY <2>6 DEF Reader, Thread, Child, DecoderReads, ThreadRuns, ChildRuns, During, decoding
    <3> QED
      BY <3>1
  <2>7. CASE UNCHANGED vars
    BY <2>7 DEF vars, decoding
  <2> QED
    BY <2>1, <2>2, <2>3, <2>4, <2>5, <2>6, <2>7 DEF Next, Decoder, Verifier
<1> QED
  BY <1>1, <1>2, PTL DEF Spec

LEMMA ExactStarts == Init => ExactInv
PROOF
<1> SUFFICES ASSUME Init PROVE ExactInv
  OBVIOUS
<1>1. PICK source \in Sources : DecodingInit(source, Begin(source.kind)) /\ GitIdle
  BY DEF Init
<1>2. input = source /\ stage = Begin(source.kind) /\ tally = NoTally /\ scanned = <<>>
  BY <1>1 DEF DecodingInit, GitIdle
<1>3. source.kind \in {"git", "hg", "svn", "cvs", "artifact"}
  BY SourceKinds
<1>4. stage \notin {"git import", "done"} /\ (stage \in {"git open", "git scan"} => source.kind = "git")
  BY <1>2, <1>3 DEF Begin
<1>5. source.kind = "git" => ScanInv
  BY <1>2, ScanBegins, SourceRepositories
<1> QED
  BY <1>1, <1>2, <1>4, <1>5 DEF ExactInv, OfGit

LEMMA OpenKeepsExact == ExactInv /\ OpenRepository => ExactInv'
PROOF
<1> SUFFICES ASSUME ExactInv, OpenRepository PROVE ExactInv'
  OBVIOUS
<1>1. stage = "git open" /\ stage' \in {"git scan", "failed"} /\ input' = input /\ tally' = tally /\ scanned' = scanned
  BY DEF OpenRepository, Goto, Fail, gitVars
<1>2. ScanInv'
  BY <1>1, ScanStays DEF ExactInv
<1> QED
  BY <1>1, <1>2 DEF ExactInv, OfGit

LEMMA ScanKeepsExact == ExactInv /\ ScanRef => ExactInv'
PROOF
<1> SUFFICES ASSUME ExactInv, ScanRef PROVE ExactInv'
  OBVIOUS
<1>1. stage = "git scan" /\ stage' \in {"git scan", "failed"} /\ input' = input
  BY DEF ScanRef, Goto, Fail
<1>2. input \in Sources /\ input.kind = "git" /\ ScanInv
  BY <1>1 DEF ExactInv
<1>3. stage' # "failed" => ScanInv'
  BY <1>2, ScanKeepsScan, SourceRepositories
<1> QED
  BY <1>1, <1>2, <1>3 DEF ExactInv, OfGit

(* The walk finds the history of the carried refs.                         *)
LEMMA TipsAreFound ==
    ASSUME IsRepository(input), ScanInv, Scanned = Len(input.refs)
    PROVE  Reach(CarriedTips) = CarriedHistory /\ Reach(DroppedTips) = DroppedHistory
PROOF
<1> DEFINE N == Len(input.refs)
<1>1. N \in Nat /\ DOMAIN input.refs = 1..N
  BY DEF IsRepository
<1>2. CarriedTips = Found(CarriedTo(N)) /\ DroppedTips = Found(DroppedTo(N))
  BY DEF ScanInv
<1>3. \A ns : Found(ns) = Commits(UNION {Through(input.refs[n].to) : n \in ns})
  BY DEF Found, Commits
<1>4. CarriedTips = Commits(UNION {Through(id) : id \in CarriedFrom})
  <2>1. CarriedFrom = {input.refs[n].to : n \in CarriedTo(N)}
    BY <1>1 DEF CarriedFrom, CarriedTo
  <2>2. UNION {Through(id) : id \in CarriedFrom} = UNION {Through(input.refs[n].to) : n \in CarriedTo(N)}
    BY <2>1
  <2> QED
    BY <1>2, <1>3, <2>2
<1>5. DroppedTips = Commits(UNION {Through(input.refs[n].to) :
                          n \in {k \in DOMAIN input.refs : ~IsCarried(input.refs[k]) /\ ~input.refs[k].symbolic}})
  <2>1. DroppedTo(N) = {k \in DOMAIN input.refs : ~IsCarried(input.refs[k]) /\ ~input.refs[k].symbolic}
    BY <1>1 DEF DroppedTo
  <2> QED
    BY <1>2, <1>3, <2>1
<1> QED
  BY <1>4, <1>5 DEF CarriedHistory, DroppedHistory

LEMMA WalkKeepsExact == GitInv /\ ExactInv /\ WalkHistory => ExactInv'
PROOF
<1> SUFFICES ASSUME GitInv, ExactInv, WalkHistory, stage' # "failed" PROVE ExactInv'
  BY DEF ExactInv, OfGit
<1> DEFINE found == Reach(CarriedTips)
<1>1. /\ stage = "git scan" /\ stage' = "git import" /\ input' = input /\ builder' = builder
      /\ builder = NewBuilder /\ IsRepository(input) /\ input \in Sources
      /\ IsOrder(order', found) /\ ToSet(order') = found /\ found = Commits(found)
      /\ droppedOnly' = CountDroppedOnly
  BY WalkOrders
<1>2. ScanInv /\ Scanned = Len(input.refs)
  BY <1>1 DEF ExactInv, WalkHistory, Scanned
<1>3. found = CarriedHistory /\ Reach(DroppedTips) = DroppedHistory
  BY <1>1, <1>2, TipsAreFound
<1>4. droppedOnly' = CountLeftOut
  BY <1>1, <1>3 DEF CountDroppedOnly, CountLeftOut
<1>5. \A c \in found : Obj(c).parents \in Seq(Nat)
  BY <1>1 DEF IsRepository, Commits, HasKind, Exists, Obj
<1> HIDE DEF found
<1>6. Len(order') \in Nat /\ \A n \in 1..Len(order') : order'[n] \in found
  <2>1. order' \in Seq(found)
    BY <1>1 DEF IsOrder
  <2> QED
    BY <2>1
<1>7. HistoryRight'
  <2>1. IsOrder(order', ToSet(order'))
    BY <1>1
  <2>2. IsOrder(order, ToSet(order))'
    BY <1>1, <2>1, RepositoryStays
  <2>3. CarriedHistory' = CarriedHistory /\ CountLeftOut' = CountLeftOut /\ \A c : Obj(c)' = Obj(c)
    BY <1>1, HistoryStays DEF CountLeftOut
  <2>4. (\A n \in 1..Len(order) : Obj(order[n]).parents \in Seq(Nat))'
    BY <1>5, <1>6, <2>3
  <2> QED
    BY <1>1, <1>3, <1>4, <2>2, <2>3, <2>4 DEF HistoryRight
<1>8. AtomsRight'
  <2>1. NewBuilder.atoms = <<>>
    BY DEF NewBuilder
  <2>2. builder'.atoms = <<>>
    BY <1>1, <2>1
  <2>3. <<>> \in Seq(ToSet(<<>>)) /\ Len(<<>>) = 0 /\ 1..0 = {} /\ 0 <= Len(order')
    BY <1>6
  <2> QED
    BY <2>2, <2>3 DEF AtomsRight
<1> QED
  BY <1>1, <1>7, <1>8 DEF ExactInv, OfGit

\* The atom that the commit whose turn it is becomes.
DraftNow ==
    LET c     == order[NextAtom]
        bases == BaseTrees(c)
        built == Cached(snaps, {OwnTree(c)} \cup bases)
        child == built[OwnTree(c)]
        base  == IF bases = {} THEN EmptyTree ELSE built[CHOOSE t \in bases : TRUE]
    IN  [parents |-> [n \in DOMAIN Obj(c).parents |-> AtomNamed(Obj(c).parents[n])],
         ops |-> DiffOps(Contents(base), Contents(child), AsStated),
         copies |-> InferredCopies(base, child, {AtomNamed(p) : p \in FirstParents(c)}),
         meta |-> Metadata(c), source |-> c, status |-> AsStated]

LEMMA DraftOfTurn ==
    ASSUME ImportCommit, stage' # "failed"
    PROVE  /\ builder' = WithAtom(builder, DraftNow)
           /\ droppedOnly' = droppedOnly
PROOF
<1>1. \A why : ~ Fail(why)
  BY Moves
<1>2. builder' = WithAtom(builder, DraftNow)
  BY <1>1 DEF ImportCommit, DraftNow
<1> QED
  BY <1>2 DEF ImportCommit

LEMMA DraftIsRight ==
    ASSUME HistoryRight, AtomsRight, NextAtom <= Len(order),
           \A t \in DOMAIN snaps : snaps[t] = Snapshot(t)
    PROVE  AtomIsRight(DraftNow, NextAtom)
PROOF
<1> DEFINE k == NextAtom
           c == order[k]
           ps == Obj(c).parents
           bases == BaseTrees(c)
           built == Cached(snaps, {OwnTree(c)} \cup bases)
           child == built[OwnTree(c)]
           base == IF bases = {} THEN EmptyTree ELSE built[CHOOSE t \in bases : TRUE]
<1>1. /\ DraftNow.parents = [n \in DOMAIN ps |-> AtomNamed(ps[n])] /\ DraftNow.source = c
      /\ DraftNow.ops = DiffOps(Contents(base), Contents(child), AsStated)
  BY DEF DraftNow
<1>2. /\ Len(order) \in Nat /\ Len(builder.atoms) \in Nat /\ k = Len(builder.atoms) + 1 /\ k \in 1..Len(order)
      /\ DOMAIN builder.atoms = 1..(k - 1) /\ k - 1 = Len(builder.atoms)
  <2> DEFINE a == builder.atoms
             X == ToSet(a)
             Y == ToSet(order)
  <2>1. a \in Seq(X) /\ k = Len(a) + 1 /\ order \in Seq(Y)
    BY DEF AtomsRight, NextAtom, HistoryRight, IsOrder
  <2> HIDE DEF a, X, k, Y
  <2>2. Len(a) \in Nat /\ DOMAIN a = 1..Len(a) /\ k - 1 = Len(a) /\ Len(order) \in Nat
    BY <2>1
  <2>3. k <= Len(order)
    BY DEF k
  <2> QED
    BY <2>1, <2>2, <2>3 DEF a
<1>3. ps \in Seq(Nat) /\ DOMAIN ps = 1..Len(ps) /\ Len(ps) \in Nat
  <2>1. ps \in Seq(Nat)
    BY <1>2 DEF HistoryRight
  <2> HIDE DEF ps
  <2> QED
    BY <2>1
<1>4. \A t \in {OwnTree(c)} \cup bases : built[t] = Snapshot(t)
  BY DEF Cached
<1>5. Contents(child) = Contents(Snapshot(OwnTree(c)))
  BY <1>4
<1>6. Contents(base) = BaseContents(c)
  <2>1. FirstParents(c) = {ps[n] : n \in DOMAIN ps \cap {1}} /\ bases = {OwnTree(p) : p \in FirstParents(c)}
    BY DEF FirstParents, BaseTrees
  <2>2. CASE FirstParents(c) = {}
    <3>1. base = EmptyTree
      BY <2>1, <2>2
    <3> QED
      BY <2>2, <3>1, ContentsAre DEF BaseContents
  <2>3. CASE FirstParents(c) # {}
    <3>1. FirstParents(c) = {ps[1]} /\ bases = {OwnTree(ps[1])}
      <4> HIDE DEF ps, bases
      <4> QED
        BY <2>1, <2>3
    <3>2. base = built[OwnTree(ps[1])] /\ OwnTree(ps[1]) \in bases
      <4> HIDE DEF built, bases
      <4> QED
        BY <3>1
    <3>3. base = Snapshot(OwnTree(ps[1]))
      BY <1>4, <3>2
    <3> QED
      BY <2>3, <3>3 DEF BaseContents
  <2> QED
    BY <2>2, <2>3
<1>7. After(BaseContents(c), DraftNow.ops) = Contents(Snapshot(OwnTree(c)))
  <2> HIDE DEF base, child
  <2> QED
    BY <1>1, <1>5, <1>6, ContentsAre, DiffMakesChild
<1>8. ASSUME NEW n \in DOMAIN ps PROVE AtomNamed(ps[n]) \in 1..(k - 1) /\ order[AtomNamed(ps[n])] = ps[n]
  <2>1. ps[n] \in ToSet(ps)
    <3> HIDE DEF ps
    <3> QED
      BY DEF ToSet
  <2>2. PICK m \in 1..(k - 1) : order[m] = ps[n]
    BY <1>2, <2>1 DEF HistoryRight, IsOrder, ParentsBefore
  <2>3. \A i \in 1..(k - 1) : builder.atoms[i].source = order[i]
    BY <1>2 DEF AtomsRight, AtomIsRight
  <2> HIDE DEF ps, k
  <2>4. \E i \in DOMAIN builder.atoms : builder.atoms[i].source = ps[n]
    BY <1>2, <2>2, <2>3
  <2>5. AtomNamed(ps[n]) \in DOMAIN builder.atoms /\ builder.atoms[AtomNamed(ps[n])].source = ps[n]
    BY <2>4 DEF AtomNamed
  <2> QED
    BY <1>2, <2>3, <2>5
<1>9. DraftNow.parents \in [DOMAIN ps -> 1..(k - 1)] /\ \A n \in DOMAIN ps : order[DraftNow.parents[n]] = ps[n]
  <2> HIDE DEF ps, k
  <2> QED
    BY <1>1, <1>8
<1> QED
  BY <1>1, <1>7, <1>9 DEF AtomIsRight

LEMMA ImportKeepsExact == GitInv /\ ExactInv /\ ImportCommit => ExactInv'
PROOF
<1> SUFFICES ASSUME GitInv, ExactInv, ImportCommit, stage' # "failed" PROVE ExactInv'
  BY DEF ExactInv, OfGit
<1> DEFINE a == builder.atoms
           b == Append(a, DraftNow)
<1>1. /\ stage = "git import" /\ stage' = "git import" /\ NextAtom <= Len(order)
      /\ input' = input /\ order' = order
  BY TurnOf
<1>2. builder' = WithAtom(builder, DraftNow) /\ droppedOnly' = droppedOnly
  BY DraftOfTurn
<1>3. HistoryRight /\ AtomsRight
  BY <1>1 DEF ExactInv
<1>4. AtomsGrow /\ \A t \in DOMAIN snaps : snaps[t] = Snapshot(t)
  BY <1>1 DEF GitInv, GitStages, CacheIsFrontier
<1>5. AtomIsRight(DraftNow, NextAtom)
  BY <1>1, <1>3, <1>4, DraftIsRight
<1>6. a \in Seq(ToSet(a)) /\ NextAtom = Len(a) + 1 /\ \A n \in 1..Len(a) : AtomIsRight(a[n], n)
  BY <1>3 DEF AtomsRight, NextAtom
<1>7. builder'.atoms = b
  <2>1. builder = [atoms |-> a, refs |-> {}, drops |-> {}, flags |-> {}]
    BY <1>4 DEF AtomsGrow
  <2>2. builder' = [builder EXCEPT !.atoms = b]
    BY <1>2 DEF WithAtom
  <2> HIDE DEF a, b
  <2> QED
    BY <2>1, <2>2
<1> HIDE DEF a
<1>8. /\ b \in Seq(ToSet(b)) /\ Len(a) \in Nat /\ Len(b) = Len(a) + 1
      /\ b[Len(a) + 1] = DraftNow /\ \A n \in 1..Len(a) : b[n] = a[n]
  BY <1>6, SequenceGrows
<1> HIDE DEF b
<1>9. \A n \in 1..Len(b) : AtomIsRight(b[n], n)
  <2> SUFFICES ASSUME NEW n \in 1..Len(b) PROVE AtomIsRight(b[n], n)
    OBVIOUS
  <2>1. CASE n \in 1..Len(a)
    BY <1>6, <1>8, <2>1
  <2>2. CASE n = Len(a) + 1
    BY <1>5, <1>6, <1>8, <2>2
  <2> QED
    BY <1>8, <2>1, <2>2
<1>10. AtomsRight'
  <2>1. (builder.atoms \in Seq(ToSet(builder.atoms)) /\ Len(builder.atoms) <= Len(order))'
    BY <1>1, <1>6, <1>7, <1>8
  <2>2. (\A n \in 1..Len(builder.atoms) : AtomIsRight(builder.atoms[n], n))'
    BY <1>1, <1>7, <1>9, AtomStays
  <2> QED
    BY <2>1, <2>2 DEF AtomsRight
<1>11. HistoryRight'
  BY <1>1, <1>2, <1>3, HistoryStaysRight
<1> QED
  BY <1>1, <1>10, <1>11 DEF ExactInv, OfGit

LEMMA FinishKeepsExact == GitInv /\ ExactInv /\ FinishGit => ExactInv'
PROOF
<1> SUFFICES ASSUME GitInv, ExactInv, FinishGit, stage' = "done" PROVE ExactInv'
  BY Moves DEF ExactInv, OfGit, FinishGit, Ends
<1>1. /\ stage = "git import" /\ NextAtom > Len(order) /\ input' = input /\ order' = order
      /\ droppedOnly' = droppedOnly /\ Finish(CarriedRefs, GitLoss, {})
  BY Moves DEF FinishGit, gitVars
<1>2. HistoryRight /\ AtomsRight
  BY <1>1 DEF ExactInv
<1>3. builder' = [builder EXCEPT !.refs = CarriedRefs, !.drops = GitLoss, !.flags = {}]
  BY <1>1, Moves DEF Finish, Fail
<1>4. builder = [atoms |-> builder.atoms, refs |-> {}, drops |-> {}, flags |-> {}]
  BY <1>1 DEF GitInv, GitStages, AtomsGrow
<1>5. builder'.atoms = builder.atoms
  BY <1>3, <1>4
<1>6. Len(builder.atoms) = Len(order)
  <2> DEFINE a == builder.atoms
             X == ToSet(a)
             Y == ToSet(order)
  <2>1. a \in Seq(X) /\ NextAtom = Len(a) + 1 /\ order \in Seq(Y) /\ Len(a) <= Len(order)
    BY <1>2 DEF AtomsRight, NextAtom, HistoryRight, IsOrder
  <2>2. NextAtom > Len(order)
    BY <1>1
  <2> HIDE DEF a, X, Y
  <2>3. Len(a) \in Nat /\ Len(order) \in Nat
    BY <2>1
  <2>4. Len(a) = Len(order)
    BY <2>1, <2>2, <2>3
  <2> QED
    BY <2>4 DEF a
<1>7. HistoryRight' /\ AtomsRight'
  BY <1>1, <1>2, <1>5, HistoryStaysRight, AtomsStayRight
<1>8. Len(builder'.atoms) = Len(order')
  BY <1>1, <1>5, <1>6
<1> QED
  BY <1>7, <1>8 DEF ExactInv, OfGit

LEMMA ExactInvHolds == Spec => []ExactInv
PROOF
<1>1. ExactInv /\ GitInv /\ KindInv /\ [Next]_vars => ExactInv'
  <2> SUFFICES ASSUME ExactInv, GitInv, KindInv, [Next]_vars PROVE ExactInv'
    OBVIOUS
  <2>1. CASE GitNext
    BY <2>1, OpenKeepsExact, ScanKeepsExact, WalkKeepsExact, ImportKeepsExact, FinishKeepsExact DEF GitNext
  <2>2. CASE HgNext \/ SvnStep \/ CvsNext \/ VerifyNext
    <3>1. stage' \notin GitStages /\ ~OfGit'
      BY <2>2, HgStays, SvnStays, CvsStays, VerifyStays
      DEF KindInv, OfGit, Stays, GitStages, HgStages, SvnStages, CvsStages, VerifyStages, Ends
    <3> QED
      BY <3>1 DEF ExactInv, GitStages
  <2>3. CASE Reader \/ Thread \/ Child
    <3>1. stage' \notin GitStages \cup {"done"}
      BY <2>3 DEF Reader, Thread, Child, DecoderReads, ThreadRuns, ChildRuns, During, decoding, GitStages
    <3> QED
      BY <3>1 DEF ExactInv, OfGit, GitStages
  <2>4. CASE UNCHANGED vars
    <3>1. UNCHANGED <<input, stage, builder, scanned, tally, droppedOnly, order>>
      BY <2>4 DEF vars, decoding, gitVars
    <3>2. ScanInv => ScanInv'
      BY <3>1, ScanStays
    <3>3. HistoryRight => HistoryRight'
      BY <3>1, HistoryStaysRight
    <3>4. AtomsRight => AtomsRight'
      BY <3>1, AtomsStayRight
    <3> QED
      BY <3>1, <3>2, <3>3, <3>4 DEF ExactInv, OfGit
  <2> QED
    BY <2>1, <2>2, <2>3, <2>4 DEF Next, Decoder, Verifier
<1> QED
  BY <1>1, ExactStarts, GitInvHolds, KindInvHolds, PTL DEF Spec

\* Whatever the repository: what a git import that is done has made is the
\* history its carried refs lead to, each commit once and behind its parents,
\* with the files of its tree.
THEOREM GitImportsHistory == Spec => []GitHistoryExact
PROOF
  BY ExactInvHolds, ExactInvIsEnough, PTL

-----------------------------------------------------------------------------
(* Mercurial: what is imported is the published history.                   *)

\* What the files of a manifest hold.
ReadFrom(manifest) ==
    [p \in DOMAIN manifest |-> [blob |-> FileRevision(p, manifest[p].node).blob, mode |-> manifest[p].mode]]

\* The revision with a node.
RevNamed(node) == CHOOSE r \in DOMAIN Changelog : Changelog[r].node = node

\* The served changesets that the loop is past.
Passed == {r \in hgServed : r < hgNext}

\* What an atom must be to be a changeset's.
IsOfChangeset(atoms, n) ==
    LET r     == RevNamed(atoms[n].source)
        elder == InOrder(P1(r), P2(r))
    IN  /\ Changelog[r].node = atoms[n].source
        /\ atoms[n].parents \in [DOMAIN elder -> 1..(n - 1)]
        /\ \A k \in DOMAIN elder : RevNamed(atoms[atoms[n].parents[k]].source) = elder[k]
        /\ After(ReadFrom(BaseOf(r)), atoms[n].ops) = ReadFrom(ManifestAt(r))

ChangesetsRight ==
    /\ builder.atoms \in Seq(ToSet(builder.atoms))
    /\ Len(builder.atoms) = Cardinality(Passed)
    /\ {RevNamed(builder.atoms[n].source) : n \in 1..Len(builder.atoms)} = Passed
    /\ \A n \in 1..Len(builder.atoms) : IsOfChangeset(builder.atoms, n)

OfHg == stage = "done" /\ input.kind = "hg"

HgExactInv ==
    /\ stage \in {"hg open", "hg view"} => builder.atoms = <<>> /\ hgNext = 0
    /\ (stage \in {"hg view", "hg import"} \/ OfHg) => input.changelog # {}
    /\ (stage = "hg import" \/ OfHg) =>
          /\ hgServed = PublishedRevs /\ Published!IsClosed(Store, hgServed)
          /\ hgNext \in 0..Cardinality(DOMAIN Changelog)
          /\ ChangesetsRight
    /\ OfHg => hgNext = Cardinality(DOMAIN Changelog)
    /\ stage \in HgStages => builder = [atoms |-> builder.atoms, refs |-> {}, drops |-> {}, flags |-> {}]

LEMMA ChangelogIs ==
    ASSUME input \in Sources, input.kind = "hg", input.changelog # {}
    PROVE  /\ Cardinality(DOMAIN Changelog) \in Nat
           /\ DOMAIN Changelog = 0..(Cardinality(DOMAIN Changelog) - 1)
           /\ \A r \in DOMAIN Changelog : /\ Changelog[r].p1 \in -1..(r - 1) /\ Changelog[r].p2 \in -1..(r - 1)
                                          /\ Changelog[r].p1 = -1 => Changelog[r].p2 = -1
           /\ \A r \in DOMAIN Changelog : RevNamed(Changelog[r].node) = r
PROOF
<1>1. OneOf(input.changelog) \in input.changelog
  BY DEF OneOf
<1>2. IsChangelog(OneOf(input.changelog))
  BY <1>1, SourceStores DEF IsStore
<1>3. Cardinality(DOMAIN Changelog) \in Nat
  BY <1>2, FS_CardinalityType DEF IsChangelog, Changelog
<1>4. /\ DOMAIN Changelog = 0..(Cardinality(DOMAIN Changelog) - 1)
      /\ \A r \in DOMAIN Changelog : /\ {Changelog[r].p1, Changelog[r].p2} \subseteq -1..(r - 1)
                                     /\ Changelog[r].p1 = -1 => Changelog[r].p2 = -1
      /\ \A r, q \in DOMAIN Changelog : Changelog[r].node = Changelog[q].node => r = q
  BY <1>2 DEF IsChangelog, Changelog, NULL_REV
<1>5. \A r \in DOMAIN Changelog : RevNamed(Changelog[r].node) = r
  BY <1>4 DEF RevNamed
<1>6. \A r \in DOMAIN Changelog : /\ Changelog[r].p1 \in -1..(r - 1) /\ Changelog[r].p2 \in -1..(r - 1)
                                  /\ Changelog[r].p1 = -1 => Changelog[r].p2 = -1
  <2> HIDE DEF Changelog
  <2> QED
    BY <1>4
<1> QED
  BY <1>3, <1>4, <1>5, <1>6

LEMMA ManifestsStay ==
    ASSUME input' = input
    PROVE  /\ Changelog' = Changelog /\ Store' = Store
           /\ PublishedRevs' = PublishedRevs
           /\ \A r : P1(r)' = P1(r) /\ P2(r)' = P2(r)
           /\ \A node : RevNamed(node)' = RevNamed(node)
           /\ \A r : ManifestAt(r)' = ManifestAt(r) /\ BaseOf(r)' = BaseOf(r)
           /\ \A manifest : ReadFrom(manifest)' = ReadFrom(manifest)
PROOF
<1>1. Changelog' = Changelog /\ Manifests' = Manifests
  BY DEF Changelog, Manifests
<1>2. \A r : P1(r)' = P1(r) /\ P2(r)' = P2(r)
  BY <1>1 DEF P1, P2
<1>3. \A node : RevNamed(node)' = RevNamed(node)
  BY <1>1 DEF RevNamed
<1>4. Store' = Store
  BY <1>1 DEF Store, RevsOf
<1>5. PublishedRevs' = PublishedRevs
  BY <1>1, <1>4 DEF PublishedRevs, PublishedIn, Published!SecretRef, Published!ObsoleteRef, Published!VisibleRef,
                    Published!AncestorsOf, Published!Revs, Published!KnownParents, Published!ParentRevs
<1>6. \A r : ManifestAt(r)' = ManifestAt(r)
  BY <1>1 DEF ManifestAt, ManifestOf, ManifestLines, ManifestRevs, Changeset
<1>7. \A r : BaseOf(r)' = BaseOf(r)
  BY <1>1, <1>2, <1>6 DEF BaseOf
<1>8. \A path, node : FileRevision(path, node)' = FileRevision(path, node)
  BY DEF FileRevision, FileText, FileRevs, Filelog
<1>9. \A manifest : ReadFrom(manifest)' = ReadFrom(manifest)
  BY <1>8 DEF ReadFrom
<1> QED
  BY <1>1, <1>2, <1>3, <1>4, <1>5, <1>6, <1>7, <1>9

LEMMA InOrderIs ==
    ASSUME NEW T, NEW a \in T, NEW b \in T
    PROVE  InOrder({}, {}) = <<>> /\ InOrder({a}, {}) = <<a>> /\ InOrder({a}, {b}) = <<a, b>>
PROOF
<1> DEFINE c == <<a>> \o <<b>>
           d == <<a, b>>
<1>1. OneOf({a}) = a /\ OneOf({b}) = b
  BY DEF OneOf
<1>2. <<>> \o <<>> = <<>> /\ <<a>> \o <<>> = <<a>>
  <2>1. \A s \in Seq(T) : s \o <<>> = s
    OBVIOUS
  <2>2. <<>> \in Seq(T) /\ <<a>> \in Seq(T)
    OBVIOUS
  <2> QED
    BY <2>1, <2>2
<1>3. c = d
  <2>1. <<a>> \in Seq(T) /\ <<b>> \in Seq(T) /\ Len(<<a>>) = 1 /\ Len(<<b>>) = 1 /\ <<a>>[1] = a /\ <<b>>[1] = b
    OBVIOUS
  <2>2. c \in Seq(T) /\ Len(c) = 2 /\ c[1] = a /\ c[2] = b
    BY <2>1
  <2>3. d \in Seq(T) /\ Len(d) = 2 /\ d[1] = a /\ d[2] = b
    OBVIOUS
  <2> HIDE DEF c, d
  <2>4. \A k \in 1..2 : c[k] = d[k]
    <3>1. \A k \in 1..2 : k = 1 \/ k = 2
      OBVIOUS
    <3> QED
      BY <2>2, <2>3, <3>1
  <2> QED
    BY <2>2, <2>3, <2>4
<1> QED
  BY <1>1, <1>2, <1>3 DEF InOrder

\* A changeset has no parents, or a first one, whose files it starts from.
LEMMA ElderAre ==
    ASSUME input \in Sources, input.kind = "hg", input.changelog # {}, NEW r \in DOMAIN Changelog
    PROVE  LET elder == InOrder(P1(r), P2(r)) IN
           /\ elder \in Seq(DOMAIN Changelog) /\ \A k \in 1..Len(elder) : elder[k] < r
           /\ elder = <<>> => P1(r) = {} /\ P2(r) = {} /\ BaseOf(r) = EmptyTree
           /\ elder # <<>> => 1 \in 1..Len(elder) /\ BaseOf(r) = ManifestAt(elder[1])
PROOF
<1> DEFINE revs == DOMAIN Changelog
           p1 == Changelog[r].p1
           p2 == Changelog[r].p2
           elder == InOrder(P1(r), P2(r))
<1>1. revs = 0..(Cardinality(revs) - 1) /\ Cardinality(revs) \in Nat
  BY ChangelogIs
<1>2. p1 \in -1..(r - 1) /\ p2 \in -1..(r - 1) /\ (p1 = -1 => p2 = -1)
  BY ChangelogIs
<1>3. P1(r) = {p1} \ {-1} /\ P2(r) = {p2} \ {-1} /\ BaseOf(r) = IF P1(r) = {} THEN EmptyTree ELSE ManifestAt(p1)
  BY DEF P1, P2, BaseOf, NULL_REV
<1> HIDE DEF p1, p2, revs
<1>4. r \in revs
  BY DEF revs
<1>5. (p1 # -1 => p1 \in revs /\ p1 < r) /\ (p2 # -1 => p2 \in revs /\ p2 < r)
  <2> DEFINE N == Cardinality(revs)
  <2>1. N \in Nat /\ revs = 0..(N - 1)
    BY <1>1
  <2> HIDE DEF N, revs
  <2> QED
    BY <1>2, <1>4, <2>1
<1>6. CASE p1 = -1
  <2>1. P1(r) = {} /\ P2(r) = {}
    BY <1>2, <1>3, <1>6
  <2>2. elder = <<>>
    BY <2>1, InOrderIs
  <2> HIDE DEF elder
  <2>3. elder \in Seq(revs) /\ \A k \in 1..Len(elder) : elder[k] < r
    BY <2>2
  <2> QED
    BY <1>3, <2>1, <2>2, <2>3 DEF elder, revs
<1>7. CASE p1 # -1 /\ p2 = -1
  <2>1. P1(r) = {p1} /\ P2(r) = {}
    BY <1>3, <1>7
  <2>2. elder = <<p1>>
    BY <1>5, <1>7, <2>1, InOrderIs
  <2>3. <<p1>> \in Seq(revs) /\ Len(<<p1>>) = 1 /\ <<p1>> # <<>> /\ 1 \in 1..1 /\ \A k \in 1..1 : <<p1>>[k] = p1
    BY <1>5, <1>7
  <2> HIDE DEF elder
  <2>4. elder \in Seq(revs) /\ Len(elder) = 1 /\ elder # <<>> /\ \A k \in 1..1 : elder[k] = p1
    BY <2>2, <2>3
  <2>5. BaseOf(r) = ManifestAt(p1)
    BY <1>3, <2>1
  <2> QED
    BY <1>5, <1>7, <2>4, <2>5 DEF elder, revs
<1>8. CASE p1 # -1 /\ p2 # -1
  <2>1. P1(r) = {p1} /\ P2(r) = {p2}
    BY <1>3, <1>8
  <2>2. elder = <<p1, p2>>
    BY <1>5, <1>8, <2>1, InOrderIs
  <2>3. /\ <<p1, p2>> \in Seq(revs) /\ Len(<<p1, p2>>) = 2 /\ <<p1, p2>> # <<>> /\ 1 \in 1..2
        /\ <<p1, p2>>[1] = p1 /\ \A k \in 1..2 : <<p1, p2>>[k] \in {p1, p2}
    BY <1>5, <1>8
  <2> HIDE DEF elder
  <2>4. elder \in Seq(revs) /\ Len(elder) = 2 /\ elder # <<>> /\ elder[1] = p1 /\ \A k \in 1..2 : elder[k] \in {p1, p2}
    BY <2>2, <2>3
  <2>5. BaseOf(r) = ManifestAt(p1)
    BY <1>3, <2>1
  <2> QED
    BY <1>5, <1>8, <2>4, <2>5 DEF elder, revs
<1> QED
  BY <1>6, <1>7, <1>8

LEMMA HgTreesAddUp ==
    ASSUME input \in Sources, input.kind = "hg", input.changelog # {},
           ChangesetsRight, Passed \subseteq DOMAIN Changelog
    PROVE  \A n \in 1..Len(builder.atoms) :
              ReplayedTrees[n] = ReadFrom(ManifestAt(RevNamed(builder.atoms[n].source)))
PROOF
<1> DEFINE atoms == builder.atoms
           N == Len(atoms)
           R(n) == RevNamed(atoms[n].source)
           Full(n) == ReadFrom(ManifestAt(R(n)))
           h == [n \in 1..N |-> Full(n)]
<1>1. N \in Nat /\ DOMAIN atoms = 1..N
  <2> DEFINE X == ToSet(atoms)
  <2>1. atoms \in Seq(X)
    BY DEF ChangesetsRight
  <2> HIDE DEF atoms, X
  <2> QED
    BY <2>1
<1>2. \A n \in 1..N : IsOfChangeset(atoms, n) /\ R(n) \in DOMAIN Changelog
  BY DEF ChangesetsRight
<1>3. ReadFrom(EmptyTree) = EmptyTree
  BY DEF ReadFrom, EmptyTree
<1>4. ASSUME NEW n \in 1..N
      PROVE  /\ atoms[n].parents = <<>> => After(EmptyTree, atoms[n].ops) = Full(n)
             /\ atoms[n].parents # <<>> => /\ atoms[n].parents[1] \in 1..(n - 1)
                                           /\ After(Full(atoms[n].parents[1]), atoms[n].ops) = Full(n)
  <2> DEFINE r == R(n)
             elder == InOrder(P1(r), P2(r))
             qs == atoms[n].parents
  <2>1. /\ qs \in [DOMAIN elder -> 1..(n - 1)] /\ \A k \in DOMAIN elder : R(qs[k]) = elder[k]
        /\ After(ReadFrom(BaseOf(r)), atoms[n].ops) = Full(n)
    BY <1>2 DEF IsOfChangeset
  <2>2. /\ elder \in Seq(DOMAIN Changelog)
        /\ elder = <<>> => BaseOf(r) = EmptyTree
        /\ elder # <<>> => 1 \in 1..Len(elder) /\ BaseOf(r) = ManifestAt(elder[1])
    <3>1. r \in DOMAIN Changelog
      BY <1>2
    <3> HIDE DEF r
    <3> QED
      BY <3>1, ElderAre
  <2> HIDE DEF elder, qs, r
  <2>3. DOMAIN elder = 1..Len(elder)
    BY <2>2
  <2>4. CASE elder = <<>>
    <3>1. DOMAIN qs = {}
      BY <2>1, <2>4
    <3>2. qs = <<>>
      BY <2>1, <3>1
    <3> QED
      BY <1>3, <2>1, <2>2, <2>4, <3>2 DEF qs
  <2>5. CASE elder # <<>>
    <3>1. 1 \in DOMAIN qs /\ qs[1] \in 1..(n - 1) /\ R(qs[1]) = elder[1]
      BY <2>1, <2>2, <2>3, <2>5
    <3>2. qs # <<>>
      BY <3>1
    <3>3. BaseOf(r) = ManifestAt(R(qs[1]))
      BY <2>2, <2>5, <3>1
    <3> QED
      BY <2>1, <3>1, <3>2, <3>3 DEF qs
  <2> QED
    BY <2>4, <2>5
<1> HIDE DEF N, Full
<1>5. \A n \in 1..N : h[n] = Full(n)
  OBVIOUS
<1>6. \A n \in 1..N : \A m \in 1..(n - 1) : m \in 1..N
  BY <1>1
<1> HIDE DEF h
<1>7. \A n \in 1..N :
         LET atom == builder.atoms[n] IN
         /\ atom.parents = <<>> => After(EmptyTree, atom.ops) = h[n]
         /\ atom.parents # <<>> => /\ atom.parents[1] \in 1..(n - 1)
                                   /\ After(h[atom.parents[1]], atom.ops) = h[n]
  BY <1>4, <1>5, <1>6
<1>8. \A n \in 1..N : ReplayedTrees[n] = h[n]
  BY <1>1, <1>7, ReplayedIs
<1> QED
  BY <1>5, <1>8 DEF N, Full

LEMMA HgExactInvIsEnough == KindInv /\ HgExactInv => HgHistoryExact
PROOF
<1> SUFFICES ASSUME KindInv, HgExactInv, OfHg PROVE HgHistoryExact
  BY DEF HgHistoryExact, OfHg
<1> DEFINE atoms == builder.atoms
           N == Len(atoms)
           C == Cardinality(DOMAIN Changelog)
<1>1. input \in Sources /\ input.kind = "hg" /\ input.changelog # {}
  BY DEF KindInv, HgExactInv, OfHg
<1>2. hgServed = PublishedRevs /\ ChangesetsRight /\ hgNext = C
  BY DEF HgExactInv
<1>3. C \in Nat /\ DOMAIN Changelog = 0..(C - 1) /\ PublishedRevs \subseteq DOMAIN Changelog
  BY <1>1, ChangelogIs DEF PublishedRevs, PublishedIn
<1>4. Passed = PublishedRevs
  <2> HIDE DEF C
  <2>1. \A r \in DOMAIN Changelog : r < C
    BY <1>3
  <2> QED
    BY <1>2, <1>3, <2>1 DEF Passed
<1>5. DOMAIN atoms = 1..N
  <2> DEFINE X == ToSet(atoms)
  <2>1. atoms \in Seq(X)
    BY <1>2 DEF ChangesetsRight
  <2> HIDE DEF atoms, X
  <2> QED
    BY <2>1
<1>6. \A n : RevOfAtom(n) = RevNamed(atoms[n].source)
  BY DEF RevOfAtom, RevNamed
<1>7. N = Cardinality(PublishedRevs) /\ {RevOfAtom(n) : n \in DOMAIN atoms} = PublishedRevs
  BY <1>2, <1>4, <1>5, <1>6 DEF ChangesetsRight
<1>8. ASSUME NEW n \in 1..N
      PROVE  [k \in DOMAIN atoms[n].parents |-> RevOfAtom(atoms[n].parents[k])] = InOrder(P1(RevOfAtom(n)), P2(RevOfAtom(n)))
  <2> DEFINE r == RevOfAtom(n)
             elder == InOrder(P1(r), P2(r))
             qs == atoms[n].parents
  <2>1. r \in DOMAIN Changelog
    BY <1>3, <1>5, <1>7
  <2>2. DOMAIN qs = DOMAIN elder /\ \A k \in DOMAIN elder : RevOfAtom(qs[k]) = elder[k]
    BY <1>2, <1>6 DEF ChangesetsRight, IsOfChangeset
  <2>3. elder \in Seq(DOMAIN Changelog)
    <3> HIDE DEF r
    <3> QED
      BY <1>1, <2>1, ElderAre
  <2> HIDE DEF r, elder, qs
  <2>4. elder = [k \in DOMAIN elder |-> elder[k]]
    BY <2>3
  <2> QED
    BY <2>2, <2>4 DEF elder, r, qs
<1>9. \A n \in 1..N : ReplayedTrees[n] = ReadFrom(ManifestAt(RevOfAtom(n)))
  BY <1>1, <1>2, <1>3, <1>4, <1>6, HgTreesAddUp
<1> QED
  BY <1>5, <1>7, <1>8, <1>9 DEF HgHistoryExact, ReadFrom

\* The operations of a changeset, on what the files hold.
LEMMA HgOpsLead ==
    ASSUME NEW base, NEW child
    PROVE  After(ReadFrom(base), HgOps(base, child)) = ReadFrom(child)
PROOF
<1> DEFINE diff == DiffOps(AsNodes(base), AsNodes(child), AsStated)
           Read(op) == IF op.kind = "Delete" THEN op ELSE [op EXCEPT !.blob = FileRevision(op.path, op.blob).blob]
           ops == HgOps(base, child)
           B == ReadFrom(base)
           C == ReadFrom(child)
<1>1. ops = {Read(op) : op \in diff}
  BY DEF HgOps
<1>2. /\ DOMAIN AsNodes(child) = DOMAIN child /\ DOMAIN AsNodes(base) = DOMAIN base
      /\ \A p \in DOMAIN child : AsNodes(child)[p].blob = child[p].node /\ AsNodes(child)[p].mode = child[p].mode
      /\ \A p \in DOMAIN base : AsNodes(base)[p].blob = base[p].node /\ AsNodes(base)[p].mode = base[p].mode
  BY DEF AsNodes
<1>3. /\ DOMAIN C = DOMAIN child /\ DOMAIN B = DOMAIN base
      /\ \A p \in DOMAIN child : C[p] = [blob |-> FileRevision(p, child[p].node).blob, mode |-> child[p].mode]
      /\ \A p \in DOMAIN base : B[p] = [blob |-> FileRevision(p, base[p].node).blob, mode |-> base[p].mode]
  BY DEF ReadFrom
<1>4. \A op \in diff : op = [kind |-> op.kind, path |-> op.path, blob |-> op.blob, mode |-> op.mode, status |-> op.status]
  BY DEF DiffOps, AddOp, ModifyOp, DeleteOp
<1>5. /\ \A op \in diff :
            \/ /\ op.path \in DOMAIN child /\ op.kind # "Delete"
               /\ op.blob = child[op.path].node /\ op.mode = child[op.path].mode
            \/ op.path \in DOMAIN base \ DOMAIN child /\ op.kind = "Delete"
      /\ \A p \in DOMAIN child : (\E op \in diff : op.path = p) \/ (p \in DOMAIN base /\ AsNodes(base)[p] = AsNodes(child)[p])
      /\ \A p \in DOMAIN base \ DOMAIN child : \E op \in diff : op.path = p
  <2> HIDE DEF diff
  <2>1. /\ \A op \in diff :
            \/ /\ op.path \in DOMAIN AsNodes(child) /\ op.kind # "Delete"
               /\ op.blob = AsNodes(child)[op.path].blob /\ op.mode = AsNodes(child)[op.path].mode
            \/ op.path \in DOMAIN AsNodes(base) \ DOMAIN AsNodes(child) /\ op.kind = "Delete"
        /\ \A p \in DOMAIN AsNodes(child) : \/ \E op \in diff : op.path = p
                                            \/ p \in DOMAIN AsNodes(base) /\ AsNodes(base)[p] = AsNodes(child)[p]
        /\ \A p \in DOMAIN AsNodes(base) \ DOMAIN AsNodes(child) : \E op \in diff : op.path = p
    BY DiffIs DEF diff
  <2> QED
    BY <1>2, <2>1
<1> HIDE DEF diff, ops, B, C
<1>6. ASSUME NEW op \in diff, op.kind # "Delete"
      PROVE  /\ Read(op).path = op.path /\ Read(op).kind = op.kind /\ Read(op).mode = op.mode
             /\ Read(op).blob = FileRevision(op.path, op.blob).blob
  BY <1>4, <1>6
<1>7. \A op \in diff : Read(op).path = op.path /\ Read(op).kind = op.kind
  BY <1>6
<1>8. ASSUME NEW o \in ops
      PROVE  \/ /\ o.path \in DOMAIN C /\ o.kind # "Delete"
                /\ o.blob = C[o.path].blob /\ o.mode = C[o.path].mode
             \/ o.path \in DOMAIN B \ DOMAIN C /\ o.kind = "Delete"
  <2>1. PICK op \in diff : o = Read(op)
    BY <1>1
  <2>2. CASE op.kind = "Delete"
    BY <1>3, <1>5, <2>1, <2>2
  <2>3. CASE op.kind # "Delete"
    <3>1. op.path \in DOMAIN child /\ op.blob = child[op.path].node /\ op.mode = child[op.path].mode
      BY <1>5, <2>3
    <3>2. /\ o.path = op.path /\ o.kind # "Delete" /\ o.mode = op.mode
          /\ o.blob = FileRevision(op.path, op.blob).blob
      BY <1>6, <2>1, <2>3
    <3>3. C[op.path] = [blob |-> FileRevision(op.path, op.blob).blob, mode |-> op.mode]
      BY <1>3, <3>1
    <3> HIDE DEF Read
    <3> QED
      BY <1>3, <3>1, <3>2, <3>3
  <2> QED
    BY <2>2, <2>3
<1>9. \A op \in diff : \E o \in ops : o.path = op.path
  <2> HIDE DEF Read
  <2> QED
    BY <1>1, <1>7
<1>10. ASSUME NEW p \in DOMAIN C PROVE (\E o \in ops : o.path = p) \/ (p \in DOMAIN B /\ B[p] = C[p])
  <2>1. CASE \E op \in diff : op.path = p
    BY <1>9, <2>1
  <2>2. CASE p \in DOMAIN base /\ AsNodes(base)[p] = AsNodes(child)[p]
    <3>1. base[p].node = child[p].node /\ base[p].mode = child[p].mode
      BY <1>2, <1>3, <2>2
    <3> QED
      BY <1>3, <2>2, <3>1
  <2> QED
    BY <1>3, <1>5, <2>1, <2>2
<1>11. \A p \in DOMAIN B \ DOMAIN C : \E o \in ops : o.path = p
  BY <1>3, <1>5, <1>9
<1>12. LeadsTo(B, C, ops)
  BY <1>8, <1>10, <1>11 DEF LeadsTo
<1>13. IsContents(C)
  <2>1. \A p \in DOMAIN child : C[p] = [blob |-> C[p].blob, mode |-> C[p].mode]
    BY <1>3
  <2>2. C = [p \in DOMAIN child |-> C[p]]
    BY DEF C, ReadFrom
  <2> QED
    BY <1>3, <2>1, <2>2 DEF IsContents
<1> QED
  BY <1>12, <1>13, OpsMakeChild DEF B, C, ops

\* The parents of the changeset whose turn it is have their atoms.
LEMMA ParentsHaveAtoms ==
    ASSUME input \in Sources, input.kind = "hg", input.changelog # {},
           hgServed = PublishedRevs, Published!IsClosed(Store, hgServed), ChangesetsRight,
           hgNext \in hgServed, hgNext \in DOMAIN Changelog
    PROVE  LET elder == InOrder(P1(hgNext), P2(hgNext)) IN
           /\ ParentsOf(hgNext) \in [DOMAIN elder -> 1..Len(builder.atoms)]
           /\ \A k \in DOMAIN elder : RevNamed(builder.atoms[ParentsOf(hgNext)[k]].source) = elder[k]
PROOF
<1> DEFINE r == hgNext
           atoms == builder.atoms
           N == Len(atoms)
           revs == DOMAIN Changelog
           elder == InOrder(P1(r), P2(r))
           p1 == Changelog[r].p1
           p2 == Changelog[r].p2
           Made(few) == {AtomOf(p) : p \in {q \in few : HasAtom(Changelog[q].node)}}
<1>1. DOMAIN atoms = 1..N
  <2> DEFINE X == ToSet(atoms)
  <2>1. atoms \in Seq(X)
    BY DEF ChangesetsRight
  <2> HIDE DEF atoms, X
  <2> QED
    BY <2>1
<1>2. /\ revs = 0..(Cardinality(revs) - 1) /\ \A q \in revs : RevNamed(Changelog[q].node) = q
      /\ p1 \in -1..(r - 1) /\ p2 \in -1..(r - 1) /\ (p1 = -1 => p2 = -1)
  BY ChangelogIs
<1>3. P1(r) = {p1} \ {-1} /\ P2(r) = {p2} \ {-1}
  BY DEF P1, P2, NULL_REV
<1>4. P1(r) \cup P2(r) \subseteq hgServed
  <2>1. Published!ParentRevs(Store, r) \subseteq hgServed
    BY DEF Published!IsClosed
  <2>2. Store.p1[r] = p1 /\ Store.p2[r] = p2
    BY DEF Store
  <2> QED
    BY <1>3, <2>1, <2>2 DEF Published!ParentRevs, Published!NULL_REV
<1>5. ASSUME NEW p \in P1(r) \cup P2(r)
      PROVE  /\ HasAtom(Changelog[p].node) /\ AtomOf(p) \in 1..N
             /\ RevNamed(atoms[AtomOf(p)].source) = p
  <2>1. p \in Passed /\ p \in revs
    <3>1. p < r
      <4>1. r \in Nat
        BY <1>2, ChangelogIs
      <4> HIDE DEF p1, p2, r
      <4> QED
        BY <1>2, <1>3, <4>1
    <3>2. p \in hgServed
      BY <1>4
    <3> QED
      BY <3>1, <3>2 DEF Passed, PublishedRevs, PublishedIn
  <2>2. PICK n \in 1..N : RevNamed(atoms[n].source) = p
    BY <2>1 DEF ChangesetsRight
  <2>3. Changelog[p].node = atoms[n].source
    BY <2>2 DEF ChangesetsRight, IsOfChangeset
  <2> HIDE DEF N, revs
  <2>4. HasAtom(Changelog[p].node)
    BY <1>1, <2>3 DEF HasAtom
  <2>5. AtomOf(p) \in DOMAIN atoms /\ atoms[AtomOf(p)].source = Changelog[p].node
    BY <2>4 DEF AtomOf, AtomNamed, HasAtom
  <2> QED
    BY <1>1, <1>2, <2>1, <2>4, <2>5
<1>6. ParentsOf(r) = InOrder(Made(P1(r)), Made(P2(r)))
  BY DEF ParentsOf
<1>7. Made(P1(r)) = {AtomOf(p) : p \in P1(r)} /\ Made(P2(r)) = {AtomOf(p) : p \in P2(r)}
  BY <1>5
<1> HIDE DEF Made, p1, p2, N
<1>8. CASE p1 = -1
  <2>1. P1(r) = {} /\ P2(r) = {}
    BY <1>2, <1>3, <1>8
  <2>2. elder = <<>> /\ ParentsOf(r) = <<>>
    BY <1>6, <1>7, <2>1, InOrderIs
  <2> QED
    BY <2>2 DEF N
<1>9. CASE p1 # -1 /\ p2 = -1
  <2>1. P1(r) = {p1} /\ P2(r) = {}
    BY <1>3, <1>9
  <2>2. Made(P1(r)) = {AtomOf(p1)} /\ Made(P2(r)) = {}
    BY <1>7, <2>1
  <2>3. elder = <<p1>> /\ ParentsOf(r) = <<AtomOf(p1)>>
    BY <1>6, <2>1, <2>2, InOrderIs
  <2>4. AtomOf(p1) \in 1..N /\ RevNamed(atoms[AtomOf(p1)].source) = p1
    BY <1>5, <2>1
  <2>5. \A k \in DOMAIN <<p1>> : k = 1
    OBVIOUS
  <2>6. <<AtomOf(p1)>> \in [DOMAIN <<p1>> -> 1..N] /\ <<AtomOf(p1)>>[1] = AtomOf(p1) /\ <<p1>>[1] = p1
    BY <2>4
  <2> HIDE DEF elder, atoms
  <2> QED
    BY <2>3, <2>4, <2>5, <2>6 DEF elder, N, atoms
<1>10. CASE p1 # -1 /\ p2 # -1
  <2>1. P1(r) = {p1} /\ P2(r) = {p2}
    BY <1>3, <1>10
  <2>2. Made(P1(r)) = {AtomOf(p1)} /\ Made(P2(r)) = {AtomOf(p2)}
    BY <1>7, <2>1
  <2>3. AtomOf(p1) \in 1..N /\ RevNamed(atoms[AtomOf(p1)].source) = p1
        /\ AtomOf(p2) \in 1..N /\ RevNamed(atoms[AtomOf(p2)].source) = p2
    BY <1>5, <2>1
  <2>4. elder = <<p1, p2>>
    <3>1. p1 \in {p1, p2} /\ p2 \in {p1, p2}
      OBVIOUS
    <3> QED
      BY <2>1, <3>1, InOrderIs
  <2>5. ParentsOf(r) = <<AtomOf(p1), AtomOf(p2)>>
    BY <1>6, <2>2, <2>3, InOrderIs
  <2>6. \A k \in DOMAIN <<p1, p2>> : k = 1 \/ k = 2
    OBVIOUS
  <2>7. /\ <<AtomOf(p1), AtomOf(p2)>> \in [DOMAIN <<p1, p2>> -> 1..N]
        /\ <<AtomOf(p1), AtomOf(p2)>>[1] = AtomOf(p1) /\ <<p1, p2>>[1] = p1
        /\ <<AtomOf(p1), AtomOf(p2)>>[2] = AtomOf(p2) /\ <<p1, p2>>[2] = p2
    BY <2>3
  <2> HIDE DEF elder, atoms
  <2> QED
    BY <2>3, <2>4, <2>5, <2>6, <2>7 DEF elder, N, atoms
<1> QED
  BY <1>8, <1>9, <1>10

LEMMA HgAtomStays ==
    ASSUME input' = input
    PROVE  \A atoms, n : IsOfChangeset(atoms, n)' <=> IsOfChangeset(atoms, n)
PROOF
<1>1. /\ Changelog' = Changelog /\ \A r : P1(r)' = P1(r) /\ P2(r)' = P2(r)
      /\ \A node : RevNamed(node)' = RevNamed(node)
      /\ \A r : ReadFrom(ManifestAt(r))' = ReadFrom(ManifestAt(r)) /\ ReadFrom(BaseOf(r))' = ReadFrom(BaseOf(r))
  BY ManifestsStay
<1>2. \A first, second : InOrder(first, second)' = InOrder(first, second)
  OBVIOUS
<1> QED
  BY <1>1, <1>2 DEF IsOfChangeset

LEMMA WithinBounds ==
    ASSUME NEW C \in Nat, NEW revs, revs = 0..(C - 1), NEW r \in revs, NEW some, some \subseteq revs
    PROVE  /\ r \in Nat /\ r + 1 \in 0..C
           /\ \A q \in some : q \in Nat /\ (q < r + 1 <=> (q < r \/ q = r))
PROOF OBVIOUS

LEMMA HgStaysExact ==
    ASSUME input' = input, builder'.atoms = builder.atoms, hgServed' = hgServed, Passed' = Passed
    PROVE  /\ ChangesetsRight => ChangesetsRight'
           /\ hgServed = PublishedRevs => (hgServed = PublishedRevs)'
           /\ Published!IsClosed(Store, hgServed) => Published!IsClosed(Store, hgServed)'
           /\ Cardinality(DOMAIN Changelog)' = Cardinality(DOMAIN Changelog)
PROOF
<1>1. Changelog' = Changelog /\ Store' = Store /\ PublishedRevs' = PublishedRevs
      /\ \A node : RevNamed(node)' = RevNamed(node)
  BY ManifestsStay
<1>2. ChangesetsRight => ChangesetsRight'
  BY <1>1, HgAtomStays DEF ChangesetsRight
<1>3. Published!IsClosed(Store, hgServed) => Published!IsClosed(Store, hgServed)'
  BY <1>1 DEF Published!IsClosed, Published!ParentRevs, Published!NULL_REV
<1> QED
  BY <1>1, <1>2, <1>3

LEMMA HgExactStarts == Init => HgExactInv
PROOF
<1> SUFFICES ASSUME Init PROVE HgExactInv
  OBVIOUS
<1>1. PICK source \in Sources : DecodingInit(source, Begin(source.kind)) /\ HgIdle
  BY DEF Init
<1>2. stage = Begin(source.kind) /\ builder.atoms = <<>> /\ hgNext = 0
  BY <1>1 DEF DecodingInit, HgIdle, NewBuilder
<1>3. source.kind \in {"git", "hg", "svn", "cvs", "artifact"}
  BY SourceKinds
<1>4. stage \notin {"hg view", "hg import", "done"}
  BY <1>2, <1>3 DEF Begin
<1>5. builder = [atoms |-> builder.atoms, refs |-> {}, drops |-> {}, flags |-> {}]
  BY <1>1 DEF DecodingInit, NewBuilder
<1> QED
  BY <1>2, <1>4, <1>5 DEF HgExactInv, OfHg

LEMMA HgOpenKeepsExact == HgExactInv /\ OpenHg => HgExactInv'
PROOF
<1> SUFFICES ASSUME HgExactInv, OpenHg, stage' # "failed" PROVE HgExactInv'
  BY DEF HgExactInv, OfHg, HgStages
<1>1. /\ stage = "hg open" /\ stage' = "hg view" /\ input' = input /\ builder' = builder /\ hgNext' = hgNext
      /\ Opened(input.changelog)
  <2>1. \A why : ~Fail(why)
    BY Moves
  <2> QED
    BY <2>1 DEF OpenHg, Goto, hgVars, OrElse
<1>2. input.changelog # {}
  BY <1>1 DEF Opened
<1> QED
  BY <1>1, <1>2 DEF HgExactInv, OfHg, HgStages

LEMMA ViewKeepsExact == KindInv /\ HgExactInv /\ ComputeView => HgExactInv'
PROOF
<1> SUFFICES ASSUME KindInv, HgExactInv, ComputeView, stage' # "failed" PROVE HgExactInv'
  BY DEF HgExactInv, OfHg, HgStages
<1>1. \A why : ~Fail(why)
  BY Moves
<1>2. /\ stage = "hg view" /\ stage' = "hg import" /\ input' = input /\ builder' = builder /\ hgNext' = hgNext
      /\ hgServed' = PublishedIn(Store) /\ ViewFaults(PublishedIn(Store)) = {}
  BY <1>1 DEF ComputeView, Goto
<1>3. input \in Sources /\ input.kind = "hg" /\ input.changelog # {} /\ builder.atoms = <<>> /\ hgNext = 0
  BY <1>2 DEF KindInv, HgExactInv, HgStages
<1>4. Published!IsClosed(Store, PublishedRevs)
  <2>1. CASE DOMAIN Changelog = {}
    BY <2>1 DEF Published!IsClosed, PublishedRevs, PublishedIn
  <2>2. CASE DOMAIN Changelog # {}
    BY <1>2, <2>2 DEF ViewFaults, OrElse, PublishedRevs
  <2> QED
    BY <2>1, <2>2
<1>5. (hgServed = PublishedRevs)' /\ Published!IsClosed(Store, hgServed)'
  <2>1. hgServed' = PublishedRevs /\ PublishedRevs' = PublishedRevs /\ Store' = Store
    BY <1>2, ManifestsStay DEF PublishedRevs
  <2> QED
    BY <1>4, <2>1 DEF Published!IsClosed, Published!ParentRevs, Published!NULL_REV
<1>6. (hgNext \in 0..Cardinality(DOMAIN Changelog))'
  <2>1. Cardinality(DOMAIN Changelog)' = Cardinality(DOMAIN Changelog)
    BY <1>2, ManifestsStay
  <2>2. Cardinality(DOMAIN Changelog) \in Nat
    BY <1>3, ChangelogIs
  <2>3. \A C \in Nat : 0 \in 0..C
    OBVIOUS
  <2>4. hgNext' = 0 /\ 0 \in 0..Cardinality(DOMAIN Changelog)
    BY <1>2, <1>3, <2>2, <2>3, Zenon
  <2> QED
    BY <2>1, <2>4, Zenon
<1>7. Passed' = {}
  <2>1. DOMAIN Changelog \subseteq Nat
    <3> DEFINE C == Cardinality(DOMAIN Changelog)
    <3>1. DOMAIN Changelog = 0..(C - 1) /\ C \in Nat
      BY <1>3, ChangelogIs
    <3> HIDE DEF C
    <3> QED
      BY <3>1
  <2>2. hgServed' \subseteq Nat
    BY <1>2, <2>1 DEF PublishedIn
  <2>3. hgNext' = 0
    BY <1>2, <1>3
  <2>4. \A r \in hgServed' : ~(r < hgNext')
    BY <2>2, <2>3
  <2> QED
    BY <2>4 DEF Passed
<1>8. ChangesetsRight'
  <2>1. builder'.atoms = <<>>
    BY <1>2, <1>3
  <2>2. <<>> \in Seq(ToSet(<<>>)) /\ Len(<<>>) = 0 /\ 1..0 = {}
    OBVIOUS
  <2>3. Cardinality({}) = 0
    BY FS_EmptySet
  <2> QED
    BY <1>7, <2>1, <2>2, <2>3 DEF ChangesetsRight
<1> QED
  BY <1>2, <1>3, <1>5, <1>6, <1>8 DEF HgExactInv, OfHg, HgStages

LEMMA SkipKeepsExact == KindInv /\ HgExactInv /\ SkipChangeset => HgExactInv'
PROOF
<1> SUFFICES ASSUME KindInv, HgExactInv, SkipChangeset PROVE HgExactInv'
  OBVIOUS
<1> DEFINE C == Cardinality(DOMAIN Changelog)
<1>1. /\ stage = "hg import" /\ stage' = "hg import" /\ input' = input /\ builder' = builder
      /\ hgNext' = hgNext + 1 /\ hgServed' = hgServed /\ hgNext \in DOMAIN Changelog \ hgServed
  BY DEF SkipChangeset, Goto
<1>2. /\ input \in Sources /\ input.kind = "hg" /\ input.changelog # {}
      /\ hgServed = PublishedRevs /\ Published!IsClosed(Store, hgServed) /\ ChangesetsRight
  BY <1>1 DEF KindInv, HgExactInv, HgStages
<1>3. C \in Nat /\ DOMAIN Changelog = 0..(C - 1) /\ hgServed \subseteq DOMAIN Changelog
  BY <1>2, ChangelogIs DEF PublishedRevs, PublishedIn
<1> HIDE DEF C
<1>4. /\ hgNext \in Nat /\ hgNext + 1 \in 0..C
      /\ \A r \in hgServed : r \in Nat /\ (r < hgNext + 1 <=> (r < hgNext \/ r = hgNext))
  BY <1>1, <1>3, WithinBounds
<1>5. \A r \in hgServed : r < hgNext + 1 <=> r < hgNext
  BY <1>1, <1>4
<1>6. Passed' = Passed
  BY <1>1, <1>5 DEF Passed
<1>7. ChangesetsRight' /\ (hgServed = PublishedRevs)' /\ Published!IsClosed(Store, hgServed)' /\ C' = C
  BY <1>1, <1>2, <1>6, HgStaysExact DEF C
<1>8. (hgNext \in 0..C)'
  BY <1>1, <1>4, <1>7
<1> QED
  BY <1>1, <1>2, <1>7, <1>8 DEF HgExactInv, OfHg, HgStages, C

LEMMA ChangesetKeepsExact == KindInv /\ HgExactInv /\ ImportChangeset => HgExactInv'
PROOF
<1> SUFFICES ASSUME KindInv, HgExactInv, ImportChangeset, stage' # "failed" PROVE HgExactInv'
  BY DEF HgExactInv, OfHg, HgStages
<1> DEFINE C == Cardinality(DOMAIN Changelog)
           r == hgNext
           copies == PlacedCopies(r, StatedCopies(BaseOf(r), ManifestAt(r)))
           draft == ChangesetDraft(r, BaseOf(r), ManifestAt(r), copies)
           a == builder.atoms
           b == Append(a, draft)
           elder == InOrder(P1(r), P2(r))
<1>1. /\ stage = "hg import" /\ stage' = "hg import" /\ input' = input /\ builder' = WithAtom(builder, draft)
      /\ r' = r + 1 /\ hgServed' = hgServed /\ r \in DOMAIN Changelog /\ r \in hgServed
  <2>1. \A why : ~Fail(why)
    BY Moves
  <2> QED
    BY <2>1 DEF ImportChangeset, ImportOver, Goto
<1>2. /\ input \in Sources /\ input.kind = "hg" /\ input.changelog # {}
      /\ hgServed = PublishedRevs /\ Published!IsClosed(Store, hgServed) /\ ChangesetsRight
  BY <1>1 DEF KindInv, HgExactInv, HgStages
<1>3. C \in Nat /\ DOMAIN Changelog = 0..(C - 1) /\ hgServed \subseteq DOMAIN Changelog
  BY <1>2, ChangelogIs DEF PublishedRevs, PublishedIn
<1>4. /\ draft.source = Changelog[r].node /\ draft.parents = ParentsOf(r)
      /\ draft.ops = HgOps(BaseOf(r), ManifestAt(r))
  BY DEF ChangesetDraft
<1>5. RevNamed(draft.source) = r
  BY <1>1, <1>2, <1>4, ChangelogIs
<1>6. /\ draft.parents \in [DOMAIN elder -> 1..Len(a)]
      /\ \A k \in DOMAIN elder : RevNamed(a[draft.parents[k]].source) = elder[k]
  BY <1>1, <1>2, <1>4, ParentsHaveAtoms
<1>7. After(ReadFrom(BaseOf(r)), draft.ops) = ReadFrom(ManifestAt(r))
  BY <1>4, HgOpsLead
<1> HIDE DEF draft, elder
<1>8. builder'.atoms = b /\ builder' = [atoms |-> b, refs |-> {}, drops |-> {}, flags |-> {}]
  <2>1. builder = [atoms |-> a, refs |-> {}, drops |-> {}, flags |-> {}]
    BY <1>1 DEF HgExactInv, HgStages
  <2>2. builder' = [builder EXCEPT !.atoms = b]
    BY <1>1 DEF WithAtom
  <2> HIDE DEF a, b
  <2> QED
    BY <2>1, <2>2
<1>9. /\ a \in Seq(ToSet(a)) /\ Len(a) = Cardinality(Passed)
      /\ \A n \in 1..Len(a) : IsOfChangeset(a, n)
      /\ {RevNamed(a[n].source) : n \in 1..Len(a)} = Passed
  BY <1>2 DEF ChangesetsRight
<1>10. /\ b \in Seq(ToSet(b)) /\ Len(a) \in Nat /\ Len(b) = Len(a) + 1
       /\ b[Len(a) + 1] = draft /\ \A n \in 1..Len(a) : b[n] = a[n]
  <2> HIDE DEF a
  <2> QED
    BY <1>9, SequenceGrows
<1> HIDE DEF C
<1>11. r \in Nat /\ r + 1 \in 0..C /\ \A q \in hgServed : q \in Nat /\ (q < r + 1 <=> (q < r \/ q = r))
  BY <1>1, <1>3, WithinBounds
<1>12. Passed' = Passed \cup {r} /\ r \notin Passed /\ IsFiniteSet(Passed)
  <2>1. \A q \in hgServed : q < r + 1 <=> (q < r \/ q = r)
    BY <1>11
  <2>2. Passed' = Passed \cup {r}
    BY <1>1, <2>1 DEF Passed
  <2>3. r \notin Passed
    BY <1>11 DEF Passed
  <2>4. Passed \subseteq 0..(C - 1) /\ IsFiniteSet(0..(C - 1))
    BY <1>3, FS_Interval DEF Passed
  <2> QED
    BY <2>2, <2>3, <2>4, FS_Subset
<1>13. Len(b) = Cardinality(Passed')
  <2>1. Cardinality(Passed \cup {r}) = Cardinality(Passed) + 1
    BY <1>12, FS_AddElement
  <2> HIDE DEF a, b
  <2> QED
    BY <1>9, <1>10, <1>12, <2>1
<1>14. {RevNamed(b[n].source) : n \in 1..Len(b)} = Passed'
  <2>1. 1..Len(b) = 1..Len(a) \cup {Len(a) + 1}
    BY <1>10
  <2> HIDE DEF a, b, r
  <2>2. {RevNamed(b[n].source) : n \in 1..Len(b)} = {RevNamed(b[n].source) : n \in 1..Len(a)} \cup {RevNamed(b[Len(a) + 1].source)}
    BY <2>1
  <2>3. {RevNamed(b[n].source) : n \in 1..Len(a)} = {RevNamed(a[n].source) : n \in 1..Len(a)}
    BY <1>10
  <2> QED
    BY <1>5, <1>9, <1>10, <1>12, <2>2, <2>3
<1>15. PublishedRevs' = PublishedRevs /\ Store' = Store /\ \A node : RevNamed(node)' = RevNamed(node)
  BY <1>1, ManifestsStay
<1>16. ASSUME NEW n \in 1..Len(b) PROVE IsOfChangeset(b, n)
  <2> DEFINE q == RevNamed(b[n].source)
             its == InOrder(P1(q), P2(q))
  <2>1. /\ Changelog[q].node = b[n].source
        /\ b[n].parents \in [DOMAIN its -> 1..(n - 1)] /\ n - 1 \in 0..Len(a)
        /\ \A k \in DOMAIN its : RevNamed(a[b[n].parents[k]].source) = its[k]
        /\ After(ReadFrom(BaseOf(q)), b[n].ops) = ReadFrom(ManifestAt(q))
    <3>1. CASE n \in 1..Len(a)
      <4>1. IsOfChangeset(a, n) /\ b[n] = a[n]
        BY <1>9, <1>10, <3>1
      <4>2. n - 1 \in 0..Len(a)
        BY <1>10, <3>1
      <4> HIDE DEF a, b
      <4> QED
        BY <4>1, <4>2 DEF IsOfChangeset
    <3>2. CASE n = Len(a) + 1
      <4>1. b[n] = draft /\ q = r /\ its = elder
        BY <1>5, <1>10, <3>2 DEF elder
      <4>2. n - 1 = Len(a) /\ Len(a) \in 0..Len(a)
        BY <1>10, <3>2
      <4> HIDE DEF b, a, its, q, r
      <4> QED
        BY <1>4, <1>6, <1>7, <4>1, <4>2 DEF r
    <3> QED
      BY <1>10, <3>1, <3>2
  <2> HIDE DEF its, a, b
  <2>2. \A k \in DOMAIN its : b[n].parents[k] \in 1..Len(a)
    BY <1>10, <2>1
  <2>3. \A k \in DOMAIN its : RevNamed(b[b[n].parents[k]].source) = its[k]
    BY <1>10, <2>1, <2>2
  <2> QED
    BY <2>1, <2>3 DEF IsOfChangeset, its
<1> HIDE DEF b
<1>17. ChangesetsRight'
  <2>1. (\A n \in 1..Len(builder.atoms) : IsOfChangeset(builder.atoms, n))'
    BY <1>1, <1>8, <1>16, HgAtomStays
  <2>2. ({RevNamed(builder.atoms[n].source) : n \in 1..Len(builder.atoms)} = Passed)'
    BY <1>8, <1>14, <1>15
  <2> QED
    BY <1>8, <1>10, <1>13, <2>1, <2>2 DEF ChangesetsRight
<1>18. (hgServed = PublishedRevs)' /\ Published!IsClosed(Store, hgServed)' /\ C' = C
  <2>1. Published!IsClosed(Store, hgServed)'
    BY <1>1, <1>2, <1>15 DEF Published!IsClosed, Published!ParentRevs, Published!NULL_REV
  <2>2. C' = C
    BY <1>1, ManifestsStay DEF C
  <2> QED
    BY <1>1, <1>2, <1>15, <2>1, <2>2
<1>19. (hgNext \in 0..C)'
  BY <1>1, <1>11, <1>18
<1> QED
  BY <1>1, <1>2, <1>8, <1>17, <1>18, <1>19 DEF HgExactInv, OfHg, HgStages, C

LEMMA HgFinishKeepsExact == KindInv /\ HgExactInv /\ FinishHg => HgExactInv'
PROOF
<1> SUFFICES ASSUME KindInv, HgExactInv, FinishHg, stage' # "failed" PROVE HgExactInv'
  BY DEF HgExactInv, OfHg, HgStages
<1> DEFINE C == Cardinality(DOMAIN Changelog)
<1>1. /\ stage = "hg import" /\ stage' = "done" /\ input' = input /\ hgNext \notin DOMAIN Changelog
      /\ hgNext' = hgNext /\ hgServed' = hgServed
      /\ builder' = [builder EXCEPT !.refs = HgRefs, !.drops = HgLoss, !.flags = {}]
  <2>1. \A why : ~Fail(why)
    BY Moves
  <2> QED
    BY <2>1 DEF FinishHg, Finish, Goto, hgVars
<1>2. /\ input \in Sources /\ input.kind = "hg" /\ input.changelog # {}
      /\ hgServed = PublishedRevs /\ Published!IsClosed(Store, hgServed) /\ ChangesetsRight
      /\ hgNext \in 0..C
  BY <1>1 DEF KindInv, HgExactInv, HgStages
<1>3. C \in Nat /\ DOMAIN Changelog = 0..(C - 1)
  BY <1>2, ChangelogIs
<1> HIDE DEF C
<1>4. hgNext = C
  <2>1. hgNext \in 0..C /\ hgNext \notin 0..(C - 1)
    BY <1>1, <1>2, <1>3
  <2> QED
    BY <1>3, <2>1
<1>5. builder'.atoms = builder.atoms
  <2>1. builder = [atoms |-> builder.atoms, refs |-> {}, drops |-> {}, flags |-> {}]
    BY <1>1 DEF HgExactInv, HgStages
  <2> QED
    BY <1>1, <2>1
<1>6. Passed' = Passed
  BY <1>1 DEF Passed
<1>7. ChangesetsRight' /\ (hgServed = PublishedRevs)' /\ Published!IsClosed(Store, hgServed)' /\ C' = C
  BY <1>1, <1>2, <1>5, <1>6, HgStaysExact DEF C
<1> QED
  BY <1>1, <1>2, <1>4, <1>7 DEF HgExactInv, OfHg, HgStages, C

LEMMA HgExactInvHolds == Spec => []HgExactInv
PROOF
<1>1. HgExactInv /\ KindInv /\ [Next]_vars => HgExactInv'
  <2> SUFFICES ASSUME HgExactInv, KindInv, [Next]_vars PROVE HgExactInv'
    OBVIOUS
  <2>1. CASE HgNext
    BY <2>1, HgOpenKeepsExact, ViewKeepsExact, SkipKeepsExact, ChangesetKeepsExact, HgFinishKeepsExact DEF HgNext
  <2>2. CASE GitNext \/ SvnStep \/ CvsNext \/ VerifyNext
    <3>1. stage' \notin HgStages /\ ~OfHg'
      BY <2>2, GitStays, SvnStays, CvsStays, VerifyStays
      DEF KindInv, OfHg, Stays, GitStages, HgStages, SvnStages, CvsStages, VerifyStages, Ends
    <3> QED
      BY <3>1 DEF HgExactInv, HgStages
  <2>3. CASE Reader \/ Thread \/ Child
    <3>1. stage' \notin HgStages \cup {"done"}
      BY <2>3 DEF Reader, Thread, Child, DecoderReads, ThreadRuns, ChildRuns, During, decoding, HgStages
    <3> QED
      BY <3>1 DEF HgExactInv, OfHg, HgStages
  <2>4. CASE UNCHANGED vars
    <3>1. UNCHANGED <<input, stage, builder, hgServed, hgNext>>
      BY <2>4 DEF vars, decoding, hgVars
    <3>2. Passed' = Passed
      BY <3>1 DEF Passed
    <3>3. /\ ChangesetsRight => ChangesetsRight'
          /\ hgServed = PublishedRevs => (hgServed = PublishedRevs)'
          /\ Published!IsClosed(Store, hgServed) => Published!IsClosed(Store, hgServed)'
          /\ Cardinality(DOMAIN Changelog)' = Cardinality(DOMAIN Changelog)
      BY <3>1, <3>2, HgStaysExact
    <3> QED
      BY <3>1, <3>3 DEF HgExactInv, OfHg, HgStages
  <2> QED
    BY <2>1, <2>2, <2>3, <2>4 DEF Next, Decoder, Verifier
<1> QED
  BY <1>1, HgExactStarts, KindInvHolds, PTL DEF Spec

\* Whatever the repository: what a Mercurial import that is done has made is the
\* published history, each changeset once and behind its parents, with the
\* files of its manifest.
THEOREM HgImportsHistory == Spec => []HgHistoryExact
PROOF
  BY HgExactInvHolds, KindInvHolds, HgExactInvIsEnough, PTL

\* Both decoders of histories that can be verified import exactly the history
\* that the source has.
THEOREM HistoriesAreExact == Spec => []HistoryExact
PROOF
<1>1. GitHistoryExact /\ HgHistoryExact => HistoryExact
  BY DEF HistoryExact
<1> QED
  BY <1>1, GitImportsHistory, HgImportsHistory, PTL

-----------------------------------------------------------------------------
(* Subversion: paths, and what a node may touch.                           *)
NamePaths == Seq(STRING)

LEMMA OneName ==
    ASSUME NEW S, NEW x \in S
    PROVE  <<x>> \in Seq(S) /\ Len(<<x>>) = 1 /\ <<x>>[1] = x
PROOF OBVIOUS

LEMMA FirstNames ==
    ASSUME NEW s \in NamePaths, NEW n \in 1..Len(s)
    PROVE  SubSeq(s, 1, n) \in NamePaths /\ Len(SubSeq(s, 1, n)) = n /\ \A i \in 1..n : SubSeq(s, 1, n)[i] = s[i]
PROOF
<1>1. n \in Nat /\ s \in Seq(STRING)
  BY DEF NamePaths
<1> QED
  BY <1>1 DEF NamePaths

LEMMA PrefixIs ==
    /\ \A d \in NamePaths : Beneath(d, d)
    /\ \A d, s \in NamePaths : d \o s \in NamePaths /\ Beneath(d, d \o s)
    /\ \A d, p \in NamePaths : Beneath(d, p) <=> Len(d) <= Len(p) /\ \A n \in 1..Len(d) : d[n] = p[n]
PROOF
<1>1. ASSUME NEW d \in NamePaths, NEW p \in NamePaths
      PROVE  Beneath(d, p) <=> Len(d) <= Len(p) /\ \A n \in 1..Len(d) : d[n] = p[n]
  <2>1. Len(d) \in Nat /\ Len(p) \in Nat /\ DOMAIN d = 1..Len(d)
    BY DEF NamePaths
  <2>2. SubSeq(d, 1, Len(d)) = [n \in 1..Len(d) |-> d[n]]
    BY <2>1 DEF NamePaths
  <2>3. ASSUME Len(d) <= Len(p) PROVE SubSeq(p, 1, Len(d)) = [n \in 1..Len(d) |-> p[n]]
    BY <2>1, <2>3 DEF NamePaths
  <2> QED
    BY <2>2, <2>3 DEF Beneath, IsPrefix
<1>2. \A d \in NamePaths : Beneath(d, d)
  BY <1>1 DEF NamePaths
<1>3. ASSUME NEW d \in NamePaths, NEW s \in NamePaths PROVE d \o s \in NamePaths /\ Beneath(d, d \o s)
  <2>1. d \o s \in NamePaths /\ Len(d \o s) = Len(d) + Len(s) /\ Len(d) \in Nat /\ Len(s) \in Nat
    BY DEF NamePaths
  <2>2. \A n \in 1..Len(d) : (d \o s)[n] = d[n]
    BY DEF NamePaths
  <2>3. Len(d) <= Len(d \o s)
    BY <2>1
  <2>4. Beneath(d, d \o s)
    BY <1>1, <2>1, <2>2, <2>3
  <2> QED
    BY <2>1, <2>4
<1> QED
  BY <1>1, <1>2, <1>3

LEMMA PrefixesCompare ==
    ASSUME NEW a \in NamePaths, NEW b \in NamePaths, NEW p \in NamePaths, Beneath(a, p), Beneath(b, p)
    PROVE  Beneath(a, b) \/ (Len(b) < Len(a) /\ Beneath(b, a))
PROOF
<1>1. Len(a) \in Nat /\ Len(b) \in Nat /\ Len(p) \in Nat
  BY DEF NamePaths
<1>2. /\ Len(a) <= Len(p) /\ \A n \in 1..Len(a) : a[n] = p[n]
      /\ Len(b) <= Len(p) /\ \A n \in 1..Len(b) : b[n] = p[n]
  BY PrefixIs
<1>3. CASE Len(a) <= Len(b)
  <2>1. \A n \in 1..Len(a) : a[n] = b[n]
    BY <1>1, <1>2, <1>3
  <2> QED
    BY <1>3, <2>1, PrefixIs
<1>4. CASE Len(b) < Len(a)
  <2>1. \A n \in 1..Len(b) : b[n] = a[n]
    BY <1>1, <1>2, <1>4
  <2> QED
    BY <1>1, <1>4, <2>1, PrefixIs
<1> QED
  BY <1>1, <1>3, <1>4

(* A path belongs to the root it lies under, and to no other.              *)
LEMMA RootsAre ==
    ASSUME NEW path \in NamePaths, NEW root \in RootOf(path)
    PROVE  /\ root.prefix \in NamePaths /\ Beneath(root.prefix, path)
           /\ \A p \in NamePaths : Beneath(root.prefix, p) => root \in RootOf(p)
PROOF
<1>1. Len(path) \in Nat /\ (path # <<>> => Len(path) >= 1)
  BY DEF NamePaths
<1>2. CASE path # <<>> /\ path[1] = "trunk"
  <2> DEFINE pre == <<"trunk">>
  <2>1. root = [name |-> "trunk", kind |-> "Branch", prefix |-> pre]
    BY <1>2 DEF RootOf
  <2>2. pre \in NamePaths /\ Len(pre) = 1 /\ pre[1] = "trunk"
    <3>1. path[1] \in STRING
      BY <1>1, <1>2 DEF NamePaths
    <3>2. <<path[1]>> \in Seq(STRING) /\ Len(<<path[1]>>) = 1 /\ <<path[1]>>[1] = path[1]
      BY <3>1, OneName
    <3> QED
      BY <1>2, <3>2 DEF NamePaths
  <2> HIDE DEF pre
  <2>3. Beneath(pre, path)
    <3>1. Len(pre) <= Len(path) /\ \A n \in 1..Len(pre) : pre[n] = path[n]
      BY <1>1, <1>2, <2>2
    <3> QED
      BY <2>2, <3>1, PrefixIs
  <2>4. ASSUME NEW p \in NamePaths, Beneath(pre, p) PROVE root \in RootOf(p)
    <3>1. Len(pre) <= Len(p) /\ \A n \in 1..Len(pre) : pre[n] = p[n]
      BY <2>2, <2>4, PrefixIs
    <3>2. p[1] = "trunk" /\ p # <<>>
      <4>1. p = <<>> => Len(p) = 0
        OBVIOUS
      <4> QED
        BY <2>2, <3>1, <4>1
    <3> QED
      BY <2>1, <3>2 DEF RootOf, pre
  <2> QED
    BY <2>1, <2>2, <2>3, <2>4
<1>3. CASE ~(path # <<>> /\ path[1] = "trunk")
  <2> DEFINE pre == SubSeq(path, 1, 2)
  <2>1. Len(path) >= 2 /\ path[1] \in {"branches", "tags"} /\ path[2] # ""
    BY <1>3 DEF RootOf
  <2>6. Len(path) >= 2
    BY <2>1
  <2>2. root = [name |-> path[2], kind |-> IF path[1] = "tags" THEN "Tag" ELSE "Branch", prefix |-> pre]
    BY <1>3, <2>1 DEF RootOf
  <2>3. pre \in NamePaths /\ Len(pre) = 2 /\ pre[1] = path[1] /\ pre[2] = path[2]
    <3>1. 2 \in 1..Len(path) /\ 1 \in 1..2 /\ 2 \in 1..2
      BY <1>1, <2>6
    <3> QED
      BY <3>1, FirstNames
  <2> HIDE DEF pre
  <2>4. Beneath(pre, path)
    <3>1. Len(pre) <= Len(path) /\ \A n \in 1..Len(pre) : pre[n] = path[n]
      BY <1>1, <2>3, <2>6
    <3> QED
      BY <2>3, <3>1, PrefixIs
  <2>5. ASSUME NEW p \in NamePaths, Beneath(pre, p) PROVE root \in RootOf(p)
    <3> DEFINE first == SubSeq(p, 1, 2)
    <3>1. Len(pre) <= Len(p) /\ \A n \in 1..Len(pre) : pre[n] = p[n]
      BY <2>3, <2>5, PrefixIs
    <3>2. Len(p) >= 2 /\ p[1] = path[1] /\ p[2] = path[2] /\ Len(p) \in Nat
      <4>1. Len(p) \in Nat
        BY DEF NamePaths
      <4> QED
        BY <2>3, <3>1, <4>1
    <3>3. first \in NamePaths /\ Len(first) = 2 /\ first[1] = p[1] /\ first[2] = p[2]
      <4>1. 2 \in 1..Len(p) /\ 1 \in 1..2 /\ 2 \in 1..2
        BY <3>2
      <4> QED
        BY <4>1, FirstNames
    <3> HIDE DEF first
    <3>4. first = pre
      BY <2>3, <3>2, <3>3 DEF NamePaths
    <3>5. p[1] # "trunk" /\ p[1] \in {"branches", "tags"} /\ p[2] # ""
      BY <2>1, <3>2
    <3> QED
      BY <2>2, <3>2, <3>4, <3>5 DEF RootOf, first
  <2> QED
    BY <2>2, <2>3, <2>4, <2>5
<1> QED
  BY <1>2, <1>3

(* Two trees have the same at a path.                                      *)
Agree(one, other, p) == (p \in DOMAIN one <=> p \in DOMAIN other) /\ (p \in DOMAIN one => one[p] = other[p])

LEMMA FilesAgree ==
    /\ \A one, other, p : Agree(one, other, p) => Agree(Files(one), Files(other), p)
    /\ \A t : DOMAIN Files(t) = DOMAIN t /\ IsContents(Files(t))
    /\ Files(EmptyTree) = EmptyTree
PROOF
<1>1. \A t : /\ Files(t) = [p \in DOMAIN t |-> [blob |-> t[p].blob, mode |-> mode_of(t[p].flags)]]
             /\ DOMAIN Files(t) = DOMAIN t
  BY DEF Files
<1>2. \A t : \A p \in DOMAIN t : Files(t)[p] = [blob |-> t[p].blob, mode |-> mode_of(t[p].flags)]
  BY DEF Files
<1>3. \A t : IsContents(Files(t))
  <2> SUFFICES ASSUME NEW t PROVE Files(t) = [p \in DOMAIN Files(t) |-> [blob |-> Files(t)[p].blob, mode |-> Files(t)[p].mode]]
    BY DEF IsContents
  <2>1. \A p \in DOMAIN t : Files(t)[p] = [blob |-> Files(t)[p].blob, mode |-> Files(t)[p].mode]
    <3> TAKE p \in DOMAIN t
    <3>1. Files(t)[p] = [blob |-> t[p].blob, mode |-> mode_of(t[p].flags)]
      BY <1>2
    <3>2. Files(t)[p].blob = t[p].blob /\ Files(t)[p].mode = mode_of(t[p].flags)
      BY <3>1
    <3> QED
      BY <3>1, <3>2
  <2>2. DOMAIN Files(t) = DOMAIN t /\ Files(t) = [p \in DOMAIN t |-> Files(t)[p]]
    BY <1>1
  <2> QED
    BY <2>1, <2>2
<1>4. \A one, other, p : Agree(one, other, p) => Agree(Files(one), Files(other), p)
  BY <1>1, <1>2 DEF Agree
<1>5. Files(EmptyTree) = EmptyTree
  BY DEF Files, EmptyTree
<1> QED
  BY <1>1, <1>3, <1>4, <1>5

(* The operations of a revision lead from one tree to the other, and a     *)
(* path replaced and still there is a replacement.                         *)
LEMMA RevisionOpsLead ==
    ASSUME NEW base, NEW child
    PROVE  LET ops == RevisionOps(base, child) IN
           /\ \A o \in ops :
                 \/ /\ o.path \in DOMAIN child /\ o.kind # "Delete"
                    /\ o.blob = child[o.path].blob /\ o.mode = child[o.path].mode
                 \/ o.path \in DOMAIN base \ DOMAIN child /\ o.kind = "Delete"
           /\ \A p \in DOMAIN child : (\E o \in ops : o.path = p) \/ (p \in DOMAIN base /\ base[p] = child[p])
           /\ \A p \in DOMAIN base \ DOMAIN child : \E o \in ops : o.path = p
           /\ \A p \in Replaced \cap DOMAIN base \cap DOMAIN child : \E o \in ops : o.path = p /\ o.kind = "Replace"
PROOF
<1> DEFINE both == Replaced \cap DOMAIN base \cap DOMAIN child
           diff == DiffOps(base, child, AsStated)
           again == {ReplaceOp(p, child[p].blob, child[p].mode, AsStated) : p \in both}
           ops == RevisionOps(base, child)
<1>1. ops = {o \in diff : o.path \notin both} \cup again
  BY DEF RevisionOps
<1>2. ASSUME NEW p \in both PROVE \E o \in again : o.path = p /\ o.kind = "Replace"
  <2> DEFINE o == ReplaceOp(p, child[p].blob, child[p].mode, AsStated)
  <2>1. o \in again
    OBVIOUS
  <2>2. o.path = p /\ o.kind = "Replace"
    BY DEF ReplaceOp
  <2> QED
    BY <2>1, <2>2
<1>3. \A o \in again : /\ o.path \in both /\ o.kind # "Delete"
                       /\ o.blob = child[o.path].blob /\ o.mode = child[o.path].mode
  BY DEF ReplaceOp
<1>4. /\ \A o \in diff :
            \/ /\ o.path \in DOMAIN child /\ o.kind # "Delete"
               /\ o.blob = child[o.path].blob /\ o.mode = child[o.path].mode
            \/ o.path \in DOMAIN base \ DOMAIN child /\ o.kind = "Delete"
      /\ \A p \in DOMAIN child : (\E o \in diff : o.path = p) \/ (p \in DOMAIN base /\ base[p] = child[p])
      /\ \A p \in DOMAIN base \ DOMAIN child : \E o \in diff : o.path = p
  BY DiffIs
<1>5. both \subseteq Replaced \cap DOMAIN base \cap DOMAIN child /\ Replaced \cap DOMAIN base \cap DOMAIN child \subseteq both
  OBVIOUS
<1> HIDE DEF diff, again, ops, both
<1>6. \A o \in ops :
         \/ /\ o.path \in DOMAIN child /\ o.kind # "Delete"
            /\ o.blob = child[o.path].blob /\ o.mode = child[o.path].mode
         \/ o.path \in DOMAIN base \ DOMAIN child /\ o.kind = "Delete"
  BY <1>1, <1>3, <1>4, <1>5
<1>7. \A p \in DOMAIN child : (\E o \in ops : o.path = p) \/ (p \in DOMAIN base /\ base[p] = child[p])
  BY <1>1, <1>2, <1>4
<1>8. \A p \in DOMAIN base \ DOMAIN child : \E o \in ops : o.path = p
  BY <1>1, <1>4, <1>5
<1>9. \A p \in both : \E o \in ops : o.path = p /\ o.kind = "Replace"
  BY <1>1, <1>2
<1> QED
  BY <1>5, <1>6, <1>7, <1>8, <1>9 DEF ops

-----------------------------------------------------------------------------
(* Subversion: what a revision does to the tree, node by node.             *)
TreeUnder(trees, n) == IF n = 1 THEN EmptyTree ELSE trees[n - 1]

IsReplacedBy(rev, p) ==
    \E x \in ToSet(rev.nodes) :
        /\ x.action = "replace"
        /\ (x.nodeKind = "file" /\ p = x.path) \/ (x.nodeKind = "dir" /\ Beneath(x.path, p))

(* The first nodes of a revision leave alone every path that none of them  *)
(* is about, and show each text they state and do not overwrite.           *)
LeavesAlone(nodes, upto, before, after) ==
    \A p \in NamePaths : (\A k \in 1..upto : ~Beneath(nodes[k].path, p)) => Agree(before, after, p)

LastAbout(nodes, k, upto) == \A j \in (k + 1)..upto : ~Beneath(nodes[j].path, nodes[k].path)

ShowsTexts(nodes, upto, after) ==
    \A k \in 1..upto : StatesText(nodes[k]) /\ LastAbout(nodes, k, upto) => ShowsText(nodes[k], after)

RevisionShown(nodes, upto, before, after) ==
    LeavesAlone(nodes, upto, before, after) /\ ShowsTexts(nodes, upto, after)

IsNode(x) == x.path \in NamePaths /\ \A c \in x.from : c.path \in NamePaths

NodesAre(nodes) == nodes \in Seq(ToSet(nodes)) /\ \A k \in 1..Len(nodes) : IsNode(nodes[k])

LEMMA NothingShown == \A nodes, tree1 : RevisionShown(nodes, 0, tree1, tree1)
PROOF BY DEF RevisionShown, LeavesAlone, ShowsTexts, Agree

LEMMA OneNodeMore ==
    ASSUME NEW nodes, NodesAre(nodes), NEW done \in Nat, done + 1 <= Len(nodes),
           NEW before, NEW middle, NEW after, RevisionShown(nodes, done, before, middle),
           \A p \in NamePaths : ~Beneath(nodes[done + 1].path, p) => Agree(middle, after, p),
           StatesText(nodes[done + 1]) => ShowsText(nodes[done + 1], after)
    PROVE  RevisionShown(nodes, done + 1, before, after)
PROOF
<1>0. Len(nodes) \in Nat /\ \A k \in 1..(done + 1) : nodes[k].path \in NamePaths
  <2>1. Len(nodes) \in Nat
    BY DEF NodesAre
  <2> QED
    BY <2>1 DEF NodesAre, IsNode
<1>1. ASSUME NEW p \in NamePaths, \A k \in 1..(done + 1) : ~Beneath(nodes[k].path, p)
      PROVE  Agree(before, after, p)
  <2>1. Agree(before, middle, p)
    BY <1>1 DEF RevisionShown, LeavesAlone
  <2>2. Agree(middle, after, p)
    <3>1. done + 1 \in 1..(done + 1)
      OBVIOUS
    <3> QED
      BY <1>1, <3>1
  <2> QED
    BY <2>1, <2>2 DEF Agree
<1>2. ASSUME NEW k \in 1..(done + 1), StatesText(nodes[k]), LastAbout(nodes, k, done + 1)
      PROVE  ShowsText(nodes[k], after)
  <2>1. CASE k = done + 1
    BY <1>2, <2>1
  <2>2. CASE k # done + 1
    <3>1. k \in 1..done /\ done + 1 \in (k + 1)..(done + 1)
      BY <2>2
    <3>2. LastAbout(nodes, k, done)
      BY <1>2, <3>1 DEF LastAbout
    <3>3. ShowsText(nodes[k], middle)
      BY <1>2, <3>1, <3>2 DEF RevisionShown, ShowsTexts
    <3>4. ~Beneath(nodes[done + 1].path, nodes[k].path)
      BY <1>2, <3>1 DEF LastAbout
    <3>5. Agree(middle, after, nodes[k].path)
      BY <1>0, <3>4
    <3> QED
      BY <3>3, <3>5 DEF ShowsText, Agree
  <2> QED
    BY <2>1, <2>2
<1> QED
  BY <1>1, <1>2 DEF RevisionShown, LeavesAlone, ShowsTexts

(* An atom is right about its revision when its operations lead from the   *)
(* tree before it to the child.                                            *)
FitsTree(n, atom, rev, trees, child) ==
    /\ atom.parents = IF n = 1 THEN <<>> ELSE <<n - 1>>
    /\ atom.source = rev.number
    /\ After(TreeUnder(trees, n), atom.ops) = child
    /\ DOMAIN child \subseteq NamePaths
    /\ \A c \in atom.copies : c.fromAtom \in 1..(n - 1) /\ c.from \in DOMAIN trees[c.fromAtom]
    /\ \A p \in DOMAIN TreeUnder(trees, n) \cap DOMAIN child :
          IsReplacedBy(rev, p) => \E o \in atom.ops : o.path = p /\ o.kind = "Replace"
    /\ RevisionShown(rev.nodes, Len(rev.nodes), TreeUnder(trees, n), child)

AllFit(atoms, revisions) ==
    /\ atoms \in Seq(ToSet(atoms)) /\ Len(atoms) <= Len(revisions)
    /\ \A n \in 1..Len(atoms) : FitsTree(n, atoms[n], revisions[n], TreesOf(atoms), TreesOf(atoms)[n])

GrowsBy(atoms, draft, child) ==
    /\ \A n \in 1..Len(atoms) : TreesOf(Append(atoms, draft))[n] = TreesOf(atoms)[n]
    /\ TreesOf(Append(atoms, draft))[Len(atoms) + 1] = child

LEMMA OneRevisionMore ==
    ASSUME NEW atoms, NEW revisions, AllFit(atoms, revisions), Len(revisions) \in Nat,
           Len(atoms) < Len(revisions), NEW draft, NEW child,
           FitsTree(Len(atoms) + 1, draft, revisions[Len(atoms) + 1], TreesOf(atoms), child)
    PROVE  AllFit(Append(atoms, draft), revisions) /\ GrowsBy(atoms, draft, child)
PROOF
<1> DEFINE N == Len(atoms)
           more == Append(atoms, draft)
           old == TreesOf(atoms)
           new == TreesOf(more)
           Full == [n \in 1..(N + 1) |-> IF n \in 1..N THEN old[n] ELSE child]
<1>1. /\ atoms \in Seq(ToSet(atoms)) /\ N <= Len(revisions)
      /\ \A n \in 1..N : FitsTree(n, atoms[n], revisions[n], old, old[n])
  BY DEF AllFit
<1>2. /\ more \in Seq(ToSet(more)) /\ N \in Nat /\ Len(more) = N + 1
      /\ DOMAIN atoms = 1..N /\ DOMAIN more = 1..(N + 1)
      /\ more[N + 1] = draft /\ \A n \in 1..N : more[n] = atoms[n]
  BY <1>1, SequenceGrows
<1>3. /\ \A n \in 1..N : Full[n] = old[n] /\ n \in 1..(N + 1)
      /\ Full[N + 1] = child /\ N + 1 \in 1..(N + 1) /\ N + 1 \in Nat /\ N + 1 \notin 1..N
      /\ \A n \in 1..(N + 1) : n \in 1..N \/ n = N + 1
  BY <1>2
<1>4. FitsTree(N + 1, draft, revisions[N + 1], old, child)
  OBVIOUS
<1>5. N < Len(revisions)
  OBVIOUS
<1> HIDE DEF N, more, old, new, Full
<1>6. \A n \in 1..(N + 1) : TreeUnder(Full, n) = TreeUnder(old, n)
  <2>1. \A n \in 1..(N + 1) : n # 1 => n - 1 \in 1..N
    BY <1>2
  <2> QED
    BY <1>3, <2>1 DEF TreeUnder
<1>7. \A n \in 1..(N + 1) : FitsTree(n, more[n], revisions[n], old, Full[n])
  BY <1>1, <1>2, <1>3, <1>4
<1>8. ASSUME NEW n \in 1..(N + 1)
      PROVE  /\ more[n].parents = <<>> => After(EmptyTree, more[n].ops) = Full[n]
             /\ more[n].parents # <<>> => /\ more[n].parents[1] \in 1..(n - 1)
                                          /\ After(Full[more[n].parents[1]], more[n].ops) = Full[n]
  <2>1. /\ more[n].parents = IF n = 1 THEN <<>> ELSE <<n - 1>>
        /\ After(TreeUnder(Full, n), more[n].ops) = Full[n]
    BY <1>6, <1>7 DEF FitsTree
  <2>2. CASE n = 1
    BY <2>1, <2>2 DEF TreeUnder
  <2>3. CASE n # 1
    <3>1. more[n].parents = <<n - 1>> /\ <<n - 1>> # <<>> /\ <<n - 1>>[1] = n - 1
      BY <2>1, <2>3
    <3>2. n - 1 \in 1..(n - 1)
      BY <1>2, <2>3
    <3> QED
      BY <2>1, <2>3, <3>1, <3>2 DEF TreeUnder
  <2> QED
    BY <2>2, <2>3
<1>9. \A n \in 1..(N + 1) : new[n] = Full[n]
  <2> DEFINE M == N + 1
  <2>1. M \in Nat /\ DOMAIN more = 1..M
    BY <1>2
  <2>2. \A n \in 1..M :
           LET atom == more[n] IN
           /\ atom.parents = <<>> => After(EmptyTree, atom.ops) = Full[n]
           /\ atom.parents # <<>> => /\ atom.parents[1] \in 1..(n - 1)
                                     /\ After(Full[atom.parents[1]], atom.ops) = Full[n]
    BY <1>8
  <2> HIDE DEF M
  <2>3. \A n \in 1..M : TreesOf(more)[n] = Full[n]
    BY <2>1, <2>2, ReplayGives
  <2> QED
    BY <2>3 DEF M, new
<1>10. \A n \in 1..(N + 1) : FitsTree(n, more[n], revisions[n], new, new[n])
  <2> TAKE n \in 1..(N + 1)
  <2>1. FitsTree(n, more[n], revisions[n], old, new[n])
    BY <1>7, <1>9
  <2>2. TreeUnder(new, n) = TreeUnder(old, n)
    <3>1. n # 1 => n - 1 \in 1..N
      BY <1>2
    <3> QED
      BY <1>3, <1>9, <3>1 DEF TreeUnder
  <2>3. \A k \in 1..(n - 1) : new[k] = old[k]
    <3>1. \A k \in 1..(n - 1) : k \in 1..N
      BY <1>2
    <3> QED
      BY <1>3, <1>9, <3>1
  <2> QED
    BY <2>1, <2>2, <2>3 DEF FitsTree
<1>11. Len(more) <= Len(revisions)
  BY <1>2, <1>5
<1> QED
  BY <1>2, <1>3, <1>9, <1>10, <1>11 DEF AllFit, GrowsBy, N, more, old, new

(* The trees kept for copies are those of the revisions that were needed.  *)
IsKept(trees, atoms, needed) ==
    /\ DOMAIN trees = {r \in needed : IsNamed(atoms, r)}
    /\ \A r \in DOMAIN trees : Files(trees[r]) = TreesOf(atoms)[NamedLast(atoms, r)]

LEMMA OneTreeMore ==
    ASSUME NEW atoms, NEW revisions, AllFit(atoms, revisions), Len(revisions) \in Nat,
           Len(atoms) < Len(revisions), NEW draft, NEW now,
           FitsTree(Len(atoms) + 1, draft, revisions[Len(atoms) + 1], TreesOf(atoms), Files(now)),
           NEW needed, NEW trees, IsKept(trees, atoms, needed)
    PROVE  LET one == draft.source IN
           IsKept(IF one \in needed THEN Overlaid([r \in {one} |-> now], trees) ELSE trees,
                  Append(atoms, draft), needed)
PROOF
<1> DEFINE N == Len(atoms)
           one == draft.source
           more == Append(atoms, draft)
           old == TreesOf(atoms)
           new == TreesOf(more)
           after == IF one \in needed THEN Overlaid([r \in {one} |-> now], trees) ELSE trees
<1>1. /\ \A n \in 1..N : new[n] = old[n]
      /\ new[N + 1] = Files(now)
  <2>1. GrowsBy(atoms, draft, Files(now))
    BY OneRevisionMore
  <2> QED
    BY <2>1 DEF GrowsBy
<1>2. atoms \in Seq(ToSet(atoms)) /\ DOMAIN atoms = 1..N
  BY DEF AllFit
<1>3. \A r : /\ IsNamed(more, r) <=> (IsNamed(atoms, r) \/ one = r)
             /\ one = r => NamedLast(more, r) = N + 1
             /\ one # r /\ IsNamed(atoms, r) => NamedLast(more, r) = NamedLast(atoms, r)
  BY <1>2, LastNamedGrows
<1>4. \A r : IsNamed(atoms, r) => NamedLast(atoms, r) \in 1..N
  BY <1>2, LastNamed
<1>5. /\ DOMAIN trees = {r \in needed : IsNamed(atoms, r)}
      /\ \A r \in DOMAIN trees : Files(trees[r]) = old[NamedLast(atoms, r)]
  BY DEF IsKept
<1> HIDE DEF N, one, more, old, new
<1>6. CASE one \in needed
  <2>1. /\ DOMAIN after = DOMAIN trees \cup {one} /\ after[one] = now
        /\ \A r \in DOMAIN trees : r # one => after[r] = trees[r]
    BY <1>6 DEF Overlaid
  <2> HIDE DEF after
  <2>2. DOMAIN after = {r \in needed : IsNamed(more, r)}
    BY <1>3, <1>5, <1>6, <2>1
  <2>3. \A r \in DOMAIN after : Files(after[r]) = new[NamedLast(more, r)]
    BY <1>1, <1>3, <1>4, <1>5, <2>1
  <2> QED
    BY <2>2, <2>3 DEF IsKept, more, new, after, one
<1>7. CASE one \notin needed
  <2>1. after = trees
    BY <1>7
  <2> HIDE DEF after
  <2>2. DOMAIN after = {r \in needed : IsNamed(more, r)}
    BY <1>3, <1>5, <1>7, <2>1
  <2>3. \A r \in DOMAIN after : Files(after[r]) = new[NamedLast(more, r)]
    BY <1>1, <1>3, <1>4, <1>5, <1>7, <2>1
  <2> QED
    BY <2>2, <2>3 DEF IsKept, more, new, after, one
<1> QED
  BY <1>6, <1>7

(* The heads: for each root the last revision that touched it.             *)
Touched(rev) == UNION {RootOf(x.path) : x \in ToSet(rev.nodes)}

IsHeads(last, revisions, N) ==
    /\ IsFiniteSet(DOMAIN last)
    /\ DOMAIN last = UNION {Touched(revisions[n]) : n \in 1..N}
    /\ \A r \in DOMAIN last : last[r] \in 1..N /\ \A n \in (last[r] + 1)..N : r \notin Touched(revisions[n])

LEMMA TouchedIsFinite == ASSUME NEW rev, NodesAre(rev.nodes) PROVE IsFiniteSet(Touched(rev))
PROOF
<1> DEFINE f == [k \in 1..Len(rev.nodes) |-> RootOf(rev.nodes[k].path)]
           S == {f[k] : k \in 1..Len(rev.nodes)}
<1>1. Len(rev.nodes) \in Nat /\ DOMAIN rev.nodes = 1..Len(rev.nodes)
  BY DEF NodesAre
<1>2. IsFiniteSet(1..Len(rev.nodes))
  BY <1>1, FS_Interval
<1>3. f \in Surjection(1..Len(rev.nodes), S)
  BY DEF Surjection
<1>4. IsFiniteSet(S)
  <2> HIDE DEF f, S
  <2> QED
    BY <1>2, <1>3, FS_Surjection
<1>5. \A path : IsFiniteSet(RootOf(path))
  <2> TAKE path
  <2>1. RootOf(path) = {} \/ \E r : RootOf(path) = {r}
    BY DEF RootOf
  <2> QED
    <3>1. IsFiniteSet({}) /\ \A r : IsFiniteSet({r})
      BY FS_EmptySet, FS_Singleton
    <3> QED
      BY <2>1, <3>1
<1>6. \A T \in S : IsFiniteSet(T)
  BY <1>5
<1>7. Touched(rev) = UNION S
  BY <1>1 DEF Touched, ToSet
<1> HIDE DEF S
<1> QED
  BY <1>4, <1>6, <1>7, FS_UNION

LEMMA OneHeadMore ==
    ASSUME NEW last, NEW revisions, NEW N \in Nat, IsHeads(last, revisions, N),
           NodesAre(revisions[N + 1].nodes)
    PROVE  IsHeads(Overlaid([r \in Touched(revisions[N + 1]) |-> N + 1], last), revisions, N + 1)
PROOF
<1> DEFINE T == Touched(revisions[N + 1])
           more == Overlaid([r \in T |-> N + 1], last)
<1>1. IsFiniteSet(T)
  BY TouchedIsFinite
<1>2. /\ IsFiniteSet(DOMAIN last)
      /\ DOMAIN last = UNION {Touched(revisions[n]) : n \in 1..N}
      /\ \A r \in DOMAIN last : last[r] \in 1..N /\ \A n \in (last[r] + 1)..N : r \notin Touched(revisions[n])
  BY DEF IsHeads
<1>3. /\ DOMAIN more = T \cup DOMAIN last
      /\ \A r \in T : more[r] = N + 1
      /\ \A r \in DOMAIN last \ T : more[r] = last[r]
  BY DEF Overlaid
<1> HIDE DEF more
<1>4. IsFiniteSet(DOMAIN more)
  <2>1. IsFiniteSet(T \cup DOMAIN last)
    BY <1>1, <1>2, FS_Union
  <2> QED
    BY <1>3, <2>1
<1>5. DOMAIN more = UNION {Touched(revisions[n]) : n \in 1..(N + 1)}
  <2>1. 1..(N + 1) = 1..N \cup {N + 1}
    OBVIOUS
  <2>2. UNION {Touched(revisions[n]) : n \in 1..N \cup {N + 1}} = (UNION {Touched(revisions[n]) : n \in 1..N}) \cup T
    OBVIOUS
  <2> QED
    BY <1>2, <1>3, <2>1, <2>2
<1>6. ASSUME NEW r \in DOMAIN more
      PROVE  more[r] \in 1..(N + 1) /\ \A n \in (more[r] + 1)..(N + 1) : r \notin Touched(revisions[n])
  <2>1. CASE r \in T
    <3>1. N + 1 \in 1..(N + 1) /\ (N + 1 + 1)..(N + 1) = {}
      OBVIOUS
    <3> QED
      BY <1>3, <2>1, <3>1
  <2>2. CASE r \notin T
    <3>1. more[r] = last[r] /\ last[r] \in 1..N /\ \A n \in (last[r] + 1)..N : r \notin Touched(revisions[n])
      BY <1>2, <1>3, <2>2
    <3>2. last[r] \in 1..(N + 1) /\ \A n \in (last[r] + 1)..(N + 1) : n \in (last[r] + 1)..N \/ n = N + 1
      BY <3>1
    <3> QED
      BY <2>2, <3>1, <3>2
  <2> QED
    BY <2>1, <2>2
<1> QED
  BY <1>4, <1>5, <1>6 DEF IsHeads, more

-----------------------------------------------------------------------------
(* Subversion: one turn of the loop over a revision's nodes.               *)
NodeNow == Revision.nodes[applied + 1]
KeyNow == EntriesSet(NodeNow.props)
FilesNow == IF NodeNow.action \in {"delete", "replace"} THEN remove_subtree(tree, NodeNow.path) ELSE tree

(* A copy is of a file of a tree that was kept.                            *)
IsOfKept(c) == \E r \in DOMAIN kept : c.fromAtom = AtomOfRevision(r) /\ c.from \in DOMAIN kept[r]

LEMMA ApplyNodeIs ==
    ASSUME ApplyNode, stage' # "failed"
    PROVE  /\ stage = "svn apply" /\ stage' = "svn apply" /\ input' = input /\ builder' = builder
           /\ applied' = applied + 1 /\ UNCHANGED <<dump, live, kept, heads>>
           /\ NextAtom <= Len(dump.revisions) /\ applied < Len(Revision.nodes)
           /\ svnLoss' = [svnLoss EXCEPT !.properties = @ \cup LossOf(KeyNow)]
           /\ \/ ~StatesText(NodeNow) /\ tree' = FilesNow /\ copied' = copied
              \/ /\ NodeNow.nodeKind = "dir" /\ CopyFault(NodeNow.from, FALSE) = NoFailure
                 /\ tree' = Overlaid(Expanded(Expansion(NodeNow)), FilesNow)
                 /\ copied' = copied \cup {CopyRecord(m.from, m.rev, m.to) : m \in Expansion(NodeNow)}
              \/ /\ apply_file(NodeNow, FilesNow).fault = NoFailure
                 /\ tree' = Overlaid([q \in {NodeNow.path} |-> OneOf(apply_file(NodeNow, FilesNow).entry)], FilesNow)
                 /\ copied' = copied \cup {CopyRecord(c.path, c.rev, NodeNow.path) : c \in NodeNow.from}
PROOF
<1>0. \A why : ~Fail(why)
  BY Moves
<1>1. /\ stage = "svn apply" /\ NextAtom <= Len(dump.revisions) /\ applied < Len(Revision.nodes)
      /\ UNCHANGED <<dump, live, kept, heads>>
  BY DEF ApplyNode, Applying
<1> DEFINE isFile == NodeNow.nodeKind = "file" \/ (NodeNow.nodeKind = "none" /\ NodeNow.path \in DOMAIN FilesNow)
           Done(after, copies) ==
              /\ tree' = after /\ copied' = copied \cup copies
              /\ applied' = applied + 1
              /\ svnLoss' = [svnLoss EXCEPT !.properties = @ \cup LossOf(KeyNow)]
              /\ Goto("svn apply") /\ UNCHANGED builder
<1>2. \/ /\ NodeNow.action = "delete" \/ (NodeNow.nodeKind = "none" /\ ~isFile)
         /\ Done(FilesNow, {})
      \/ /\ NodeNow.action # "delete" /\ NodeNow.nodeKind = "dir"
         /\ CopyFault(NodeNow.from, FALSE) = NoFailure
         /\ Done(Overlaid(Expanded(Expansion(NodeNow)), FilesNow),
                 {CopyRecord(m.from, m.rev, m.to) : m \in Expansion(NodeNow)})
      \/ /\ apply_file(NodeNow, FilesNow).fault = NoFailure
         /\ Done(Overlaid([q \in {NodeNow.path} |-> OneOf(apply_file(NodeNow, FilesNow).entry)], FilesNow),
                 {CopyRecord(c.path, c.rev, NodeNow.path) : c \in NodeNow.from})
  BY <1>0 DEF ApplyNode, NodeNow, KeyNow, FilesNow
<1>3. \A after, copies : Done(after, copies) =>
         /\ tree' = after /\ copied' = copied \cup copies /\ applied' = applied + 1
         /\ svnLoss' = [svnLoss EXCEPT !.properties = @ \cup LossOf(KeyNow)]
         /\ stage' = "svn apply" /\ input' = input /\ builder' = builder
  BY DEF Goto
<1> HIDE DEF Done
<1>4. CASE /\ NodeNow.action = "delete" \/ (NodeNow.nodeKind = "none" /\ ~isFile)
           /\ Done(FilesNow, {})
  <2>1. ~StatesText(NodeNow)
    BY <1>4 DEF StatesText
  <2>2. copied \cup {} = copied
    OBVIOUS
  <2> QED
    BY <1>1, <1>3, <1>4, <2>1, <2>2
<1>5. CASE /\ NodeNow.action # "delete" /\ NodeNow.nodeKind = "dir"
           /\ CopyFault(NodeNow.from, FALSE) = NoFailure
           /\ Done(Overlaid(Expanded(Expansion(NodeNow)), FilesNow),
                   {CopyRecord(m.from, m.rev, m.to) : m \in Expansion(NodeNow)})
  BY <1>1, <1>3, <1>5
<1>6. CASE /\ apply_file(NodeNow, FilesNow).fault = NoFailure
           /\ Done(Overlaid([q \in {NodeNow.path} |-> OneOf(apply_file(NodeNow, FilesNow).entry)], FilesNow),
                   {CopyRecord(c.path, c.rev, NodeNow.path) : c \in NodeNow.from})
  BY <1>1, <1>3, <1>6
<1> QED
  BY <1>2, <1>4, <1>5, <1>6

(* A file that is made has the text its node states.                       *)
LEMMA FileShows ==
    ASSUME NEW node, NEW found, apply_file(node, found).fault = NoFailure, NEW t,
           t = Overlaid([q \in {node.path} |-> OneOf(apply_file(node, found).entry)], found)
    PROVE  /\ CopyFault(node.from, TRUE) = NoFailure
           /\ StatesText(node) => ShowsText(node, Files(t))
PROOF
<1> DEFINE source == {kept[c.rev][c.path] : c \in node.from}
           existing == {found[p] : p \in {node.path} \cap DOMAIN found}
           inherited == IF source # {} THEN source ELSE existing
           base == DeltaBase(source, existing, node.action)
           baseText == IF base = {} THEN "" ELSE svn_text(OneOf(base))
           flags == FlagsMade(node, base, inherited)
           made == TextMade(node, baseText, inherited)
           fault == FileFault(node, source, base, baseText, flags, made)
<1>1. apply_file(node, found) = FileMade(node, fault, flags, made)
  BY DEF apply_file
<1> HIDE DEF source, existing, inherited, base, baseText, flags, made, fault
<1>2. fault = NoFailure
  BY <1>1 DEF FileMade
<1>3. /\ CopyFault(node.from, TRUE) = NoFailure
      /\ node.text # {} => \A s \in node.sums.content : s = made.text
      /\ "svn:special" \in flags => IsLink(made.text)
  BY <1>2 DEF fault, FileFault, NoFailure
<1>4. apply_file(node, found).entry = {[blob |-> blob_for(made.text, flags), flags |-> flags]}
  BY <1>1, <1>2 DEF FileMade
<1>5. OneOf(apply_file(node, found).entry) = [blob |-> blob_for(made.text, flags), flags |-> flags]
  BY <1>4 DEF OneOf
<1>6. node.path \in DOMAIN t /\ t[node.path] = [blob |-> blob_for(made.text, flags), flags |-> flags]
  BY <1>5 DEF Overlaid
<1>7. /\ node.path \in DOMAIN Files(t)
      /\ Files(t)[node.path] = [blob |-> blob_for(made.text, flags), mode |-> mode_of(flags)]
  BY <1>6 DEF Files
<1>8. ASSUME StatesText(node), NEW stated \in node.sums.content
      PROVE  IF Files(t)[node.path].mode = "symlink"
             THEN IsLink(stated) /\ Files(t)[node.path].blob = SubSeq(stated, 6, Len(stated))
             ELSE Files(t)[node.path].blob = stated
  <2>1. stated = made.text
    BY <1>3, <1>8 DEF StatesText
  <2>2. Files(t)[node.path].blob = blob_for(made.text, flags) /\ Files(t)[node.path].mode = mode_of(flags)
    BY <1>7
  <2>3. CASE "svn:special" \in flags
    <3>1. mode_of(flags) = "symlink" /\ blob_for(made.text, flags) = SubSeq(made.text, 6, Len(made.text))
      BY <2>3 DEF mode_of, blob_for
    <3> QED
      BY <1>3, <2>1, <2>2, <2>3, <3>1
  <2>4. CASE "svn:special" \notin flags
    <3>1. mode_of(flags) # "symlink" /\ blob_for(made.text, flags) = made.text
      BY <2>4 DEF mode_of, blob_for
    <3> QED
      BY <2>1, <2>2, <3>1
  <2> QED
    BY <2>3, <2>4
<1> QED
  BY <1>3, <1>7, <1>8 DEF ShowsText

LEMMA OverlaidAgrees ==
    /\ \A new, old : DOMAIN Overlaid(new, old) = DOMAIN new \cup DOMAIN old
    /\ \A new, old, p : p \notin DOMAIN new => Agree(old, Overlaid(new, old), p)
PROOF BY DEF Overlaid, Agree

LEMMA SubtreeAgrees ==
    ASSUME NEW found, NEW path
    PROVE  /\ DOMAIN remove_subtree(found, path) \subseteq DOMAIN found
           /\ \A p : ~Beneath(path, p) => Agree(found, remove_subtree(found, path), p)
PROOF
<1> DEFINE S == {p \in DOMAIN found : ~Beneath(path, p)}
<1>1. remove_subtree(found, path) = [p \in S |-> found[p]]
  BY DEF remove_subtree, Restrict
<1> QED
  BY <1>1 DEF Agree

(* What a directory is copied to lies beneath it.                          *)
LEMMA ExpansionIs ==
    ASSUME NEW node, IsNode(node), CopyFault(node.from, FALSE) = NoFailure,
           \A r \in DOMAIN kept : DOMAIN kept[r] \subseteq NamePaths
    PROVE  /\ \A m \in Expansion(node) : /\ m.to \in NamePaths /\ Beneath(node.path, m.to)
                                         /\ m.rev \in DOMAIN kept /\ m.from \in DOMAIN kept[m.rev]
           /\ DOMAIN Expanded(Expansion(node)) = {m.to : m \in Expansion(node)}
PROOF
<1>1. DOMAIN Expanded(Expansion(node)) = {m.to : m \in Expansion(node)}
  BY DEF Expanded
<1>2. \A c \in node.from : c.rev \in DOMAIN kept
  BY DEF CopyFault, NoFailure
<1>3. ASSUME NEW c \in node.from, NEW p \in DOMAIN kept[c.rev], Beneath(c.path, p)
      PROVE  /\ node.path \o SubSeq(p, Len(c.path) + 1, Len(p)) \in NamePaths
             /\ Beneath(node.path, node.path \o SubSeq(p, Len(c.path) + 1, Len(p)))
  <2> DEFINE rest == SubSeq(p, Len(c.path) + 1, Len(p))
  <2>1. p \in NamePaths /\ c.path \in NamePaths /\ node.path \in NamePaths
    BY <1>2, <1>3 DEF IsNode
  <2>2. Len(c.path) <= Len(p) /\ Len(c.path) \in Nat /\ Len(p) \in Nat
    BY <1>3, <2>1, PrefixIs DEF NamePaths
  <2>3. rest \in NamePaths
    BY <2>1, <2>2 DEF NamePaths
  <2> HIDE DEF rest
  <2> QED
    BY <2>1, <2>3, PrefixIs DEF rest
<1>4. ASSUME NEW m \in Expansion(node)
      PROVE  /\ m.to \in NamePaths /\ Beneath(node.path, m.to)
             /\ m.rev \in DOMAIN kept /\ m.from \in DOMAIN kept[m.rev]
  <2>1. PICK c \in node.from : \E p \in DOMAIN kept[c.rev] :
             /\ Beneath(c.path, p)
           /\ m = [from |-> p, rev |-> c.rev, to |-> node.path \o SubSeq(p, Len(c.path) + 1, Len(p))]
    BY DEF Expansion
  <2>3. PICK p \in DOMAIN kept[c.rev] :
           /\ Beneath(c.path, p)
           /\ m = [from |-> p, rev |-> c.rev, to |-> node.path \o SubSeq(p, Len(c.path) + 1, Len(p))]
    BY <2>1
  <2>2. m.from = p /\ m.rev = c.rev /\ m.to = node.path \o SubSeq(p, Len(c.path) + 1, Len(p))
    BY <2>3
  <2> QED
    BY <1>2, <1>3, <2>3, <2>2
<1> QED
  BY <1>1, <1>4

LEMMA NodeTouches ==
    ASSUME ApplyNode, stage' # "failed", IsNode(NodeNow), DOMAIN tree \subseteq NamePaths,
           \A r \in DOMAIN kept : DOMAIN kept[r] \subseteq NamePaths
    PROVE  /\ DOMAIN tree' \subseteq NamePaths
           /\ \A p \in NamePaths : ~Beneath(NodeNow.path, p) => Agree(Files(tree), Files(tree'), p)
           /\ StatesText(NodeNow) => ShowsText(NodeNow, Files(tree'))
           /\ \A c \in copied' : c \in copied \/ IsOfKept(c)
PROOF
<1> DEFINE node == NodeNow
<1>0. node.path \in NamePaths
  BY DEF IsNode
<1>1. /\ DOMAIN FilesNow \subseteq NamePaths
      /\ \A p : ~Beneath(node.path, p) => Agree(tree, FilesNow, p)
  <2>1. CASE FilesNow = tree
    BY <2>1 DEF Agree
  <2>2. CASE FilesNow = remove_subtree(tree, node.path)
    BY <2>2, SubtreeAgrees
  <2> QED
    BY <2>1, <2>2 DEF FilesNow
<1>2. SUFFICES /\ DOMAIN tree' \subseteq NamePaths
               /\ \A p \in NamePaths : ~Beneath(node.path, p) => Agree(tree, tree', p)
               /\ StatesText(node) => ShowsText(node, Files(tree'))
               /\ \A c \in copied' : c \in copied \/ IsOfKept(c)
  BY FilesAgree
<1>3. ASSUME NEW new, \A q \in DOMAIN new : q \in NamePaths /\ Beneath(node.path, q), tree' = Overlaid(new, FilesNow)
      PROVE  /\ DOMAIN tree' \subseteq NamePaths
             /\ \A p \in NamePaths : ~Beneath(node.path, p) => Agree(tree, tree', p)
  <2>1. DOMAIN tree' \subseteq NamePaths
    BY <1>1, <1>3, OverlaidAgrees
  <2>2. ASSUME NEW p \in NamePaths, ~Beneath(node.path, p) PROVE Agree(tree, tree', p)
    <3>1. p \notin DOMAIN new
      BY <1>3, <2>2
    <3>2. Agree(FilesNow, tree', p) /\ Agree(tree, FilesNow, p)
      BY <1>1, <1>3, <2>2, <3>1, OverlaidAgrees
    <3> QED
      BY <3>2 DEF Agree
  <2> QED
    BY <2>1, <2>2
<1>4. \A from, rev, to : CopyRecord(from, rev, to).from = from /\ CopyRecord(from, rev, to).fromAtom = AtomOfRevision(rev)
  BY DEF CopyRecord
<1>5. CASE ~StatesText(node) /\ tree' = FilesNow /\ copied' = copied
  BY <1>1, <1>5
<1>6. CASE /\ node.nodeKind = "dir" /\ CopyFault(node.from, FALSE) = NoFailure
           /\ tree' = Overlaid(Expanded(Expansion(node)), FilesNow)
           /\ copied' = copied \cup {CopyRecord(m.from, m.rev, m.to) : m \in Expansion(node)}
  <2>1. /\ \A m \in Expansion(node) : /\ m.to \in NamePaths /\ Beneath(node.path, m.to)
                                      /\ m.rev \in DOMAIN kept /\ m.from \in DOMAIN kept[m.rev]
        /\ DOMAIN Expanded(Expansion(node)) = {m.to : m \in Expansion(node)}
    BY <1>6, ExpansionIs
  <2>2. \A q \in DOMAIN Expanded(Expansion(node)) : q \in NamePaths /\ Beneath(node.path, q)
    BY <2>1
  <2>3. ~StatesText(node)
    BY <1>6 DEF StatesText
  <2>4. ASSUME NEW c \in copied' PROVE c \in copied \/ IsOfKept(c)
    <3>1. SUFFICES ASSUME NEW m \in Expansion(node), c = CopyRecord(m.from, m.rev, m.to) PROVE IsOfKept(c)
      BY <1>6, <2>4
    <3> QED
      BY <1>4, <2>1, <3>1 DEF IsOfKept
  <2> HIDE DEF node
  <2> QED
    BY <1>3, <1>6, <2>2, <2>3, <2>4
<1>7. CASE /\ apply_file(node, FilesNow).fault = NoFailure
           /\ tree' = Overlaid([q \in {node.path} |-> OneOf(apply_file(node, FilesNow).entry)], FilesNow)
           /\ copied' = copied \cup {CopyRecord(c.path, c.rev, node.path) : c \in node.from}
  <2>1. CopyFault(node.from, TRUE) = NoFailure /\ (StatesText(node) => ShowsText(node, Files(tree')))
    BY <1>7, FileShows
  <2>2. \A c \in node.from : c.rev \in DOMAIN kept /\ c.path \in DOMAIN kept[c.rev]
    BY <2>1 DEF CopyFault, NoFailure
  <2>3. ASSUME NEW c \in copied' PROVE c \in copied \/ IsOfKept(c)
    <3>1. SUFFICES ASSUME NEW d \in node.from, c = CopyRecord(d.path, d.rev, node.path) PROVE IsOfKept(c)
      BY <1>7, <2>3
    <3> QED
      BY <1>4, <2>2, <3>1 DEF IsOfKept
  <2> DEFINE new == [q \in {node.path} |-> OneOf(apply_file(node, FilesNow).entry)]
  <2>4. \A q \in DOMAIN new : q \in NamePaths /\ Beneath(node.path, q)
    BY <1>0, PrefixIs
  <2>5. tree' = Overlaid(new, FilesNow)
    BY <1>7
  <2> HIDE DEF new, node
  <2> QED
    BY <1>3, <2>1, <2>3, <2>4, <2>5
<1> QED
  BY <1>5, <1>6, <1>7, ApplyNodeIs

-----------------------------------------------------------------------------
(* Subversion: the invariant.                                              *)
RevisionIs(rev) == rev = [number |-> rev.number, date |-> rev.date, nodes |-> rev.nodes] /\ NodesAre(rev.nodes)

DumpIs ==
    /\ dump = [at |-> dump.at, version |-> dump.version, revisions |-> dump.revisions]
    /\ dump.at \in Nat /\ dump.revisions \in Seq(ToSet(dump.revisions))
    /\ \A n \in 1..Len(dump.revisions) : RevisionIs(dump.revisions[n])

BuilderIs ==
    builder = [atoms |-> builder.atoms, refs |-> builder.refs, drops |-> builder.drops, flags |-> builder.flags]

LossIs ==
    /\ svnLoss = [properties |-> svnLoss.properties, emptyDirs |-> svnLoss.emptyDirs, dates |-> svnLoss.dates]
    /\ svnLoss.properties \subseteq {"svn:mergeinfo", "workflow", "custom"}

NodeTurns ==
    NextAtom <= Len(dump.revisions) =>
        /\ applied \in 0..Len(Revision.nodes)
        /\ RevisionShown(Revision.nodes, applied, Files(live), Files(tree))

CopiesRight == \A c \in copied : c.fromAtom \in 1..Len(builder.atoms) /\ c.from \in DOMAIN ReplayedTrees[c.fromAtom]

TreesRight ==
    /\ AllFit(builder.atoms, dump.revisions)
    /\ Files(live) = TreeUnder(ReplayedTrees, NextAtom)
    /\ DOMAIN tree \subseteq NamePaths
    /\ IsKept(kept, builder.atoms, Needed)
    /\ NodeTurns /\ CopiesRight
    /\ input.refs => IsHeads(heads, dump.revisions, Len(builder.atoms))

TreesIdle ==
    /\ builder = NewBuilder
    /\ applied = 0 /\ live = EmptyTree /\ tree = EmptyTree /\ copied = {}
    /\ kept = EmptyTree /\ heads = EmptyTree /\ svnLoss = NoSvnLoss

OfSvn == stage = "done" /\ input.kind = "svn"

RefsRight == ~RootsCollide /\ builder.refs = SvnRefs /\ builder.drops = SvnDrops

SvnInv ==
    /\ input.kind = "svn" => program = input.program
    /\ stage \in SvnStages => DumpIs
    /\ stage \in SvnStages \ {"svn apply"} => TreesIdle
    /\ stage = "svn apply" => BuilderIs /\ LossIs /\ TreesRight
    /\ OfSvn => DumpIs /\ LossIs /\ TreesRight /\ Len(builder.atoms) = Len(dump.revisions) /\ RefsRight

LEMMA DumpStays ==
    ASSUME dump' = dump
    PROVE  (DumpIs => DumpIs') /\ Needed' = Needed
PROOF BY DEF DumpIs, Needed

LEMMA TreesStay ==
    ASSUME builder'.atoms = builder.atoms, dump' = dump, input' = input,
           applied' = applied, live' = live, tree' = tree, copied' = copied, kept' = kept, heads' = heads
    PROVE  (TreesRight => TreesRight') /\ (LiveRoots' = LiveRoots) /\ (SvnRefs' = SvnRefs) /\ (RootsCollide' <=> RootsCollide)
PROOF
<1>1. ReplayedTrees' = ReplayedTrees /\ NextAtom' = NextAtom /\ Needed' = Needed
  BY DumpStays DEF ReplayedTrees, NextAtom
<1>2. Revision' = Revision
  BY <1>1 DEF Revision
<1>3. LiveRoots' = LiveRoots
  BY DEF LiveRoots
<1> QED
  BY <1>1, <1>2, <1>3 DEF TreesRight, NodeTurns, CopiesRight, SvnRefs, RootsCollide

LEMMA SvnStarts == Init => SvnInv
PROOF
<1> SUFFICES ASSUME Init PROVE SvnInv
  OBVIOUS
<1>1. PICK source \in Sources :
         /\ DecodingInit(source, Begin(source.kind)) /\ SvnIdle
         /\ CaptureInit(IF source.kind = "svn" THEN source.program ELSE NoProgram)
  BY DEF Init
<1>2. source.kind \in {"git", "hg", "svn", "cvs", "artifact"}
  BY SourceKinds
<1>3. stage = Begin(source.kind) /\ input = source /\ builder = NewBuilder
  BY <1>1 DEF DecodingInit
<1>4. stage \notin {"svn apply", "done"}
  BY <1>2, <1>3 DEF Begin
<1>5. DumpIs
  <2>1. dump = [at |-> 0, version |-> {}, revisions |-> <<>>]
    BY <1>1 DEF SvnIdle
  <2>2. dump.revisions = <<>> /\ dump.at = 0 /\ dump.version = {}
    BY <2>1
  <2>3. <<>> \in Seq(ToSet(<<>>)) /\ Len(<<>>) = 0
    OBVIOUS
  <2> QED
    BY <2>1, <2>2, <2>3 DEF DumpIs
<1>6. TreesIdle
  BY <1>1, <1>3 DEF SvnIdle, TreesIdle
<1>7. input.kind = "svn" => program = input.program
  BY <1>1, <1>3 DEF CaptureInit
<1> QED
  BY <1>4, <1>5, <1>6, <1>7 DEF SvnInv, OfSvn

(* A capture leaves everything as it is.                                   *)
LEMMA CaptureKeepsSvn ==
    ASSUME SvnInv, UNCHANGED <<decoding, svnVars>>, program' = program
    PROVE  SvnInv'
PROOF
<1>1. /\ input' = input /\ stage' = stage /\ builder' = builder /\ dump' = dump /\ svnLoss' = svnLoss
      /\ applied' = applied /\ live' = live /\ tree' = tree /\ copied' = copied /\ kept' = kept /\ heads' = heads
  BY DEF decoding, svnVars, treeVars
<1>2. /\ DumpIs => DumpIs'
      /\ TreesRight => TreesRight'
      /\ SvnRefs' = SvnRefs /\ LiveRoots' = LiveRoots /\ (RootsCollide' <=> RootsCollide)
  BY <1>1, DumpStays, TreesStay
<1>3. SvnDrops' = SvnDrops
  BY <1>1, <1>2 DEF SvnDrops
<1>4. (BuilderIs => BuilderIs') /\ (LossIs => LossIs') /\ (TreesIdle => TreesIdle') /\ (RefsRight => RefsRight')
  BY <1>1, <1>2, <1>3 DEF BuilderIs, LossIs, TreesIdle, RefsRight
<1> QED
  BY <1>1, <1>2, <1>4 DEF SvnInv, OfSvn

LEMMA LoadKeepsSvn == SvnInv /\ (LoadDump \/ Captured) /\ program' = program => SvnInv'
PROOF
<1> SUFFICES ASSUME SvnInv, LoadDump \/ Captured, program' = program, stage' # "failed" PROVE SvnInv'
  <2>1. LoadDump \/ Captured => input' = input
    BY Moves DEF LoadDump, Captured
  <2> QED
    BY <2>1 DEF SvnInv, OfSvn, SvnStages
<1>1. /\ stage \in {"svn load", "svn capture"} /\ stage' \in {"svn capture", "svn parse"}
      /\ input' = input /\ builder' = builder /\ UNCHANGED svnVars
  <2>1. \A why : ~Fail(why)
    BY Moves
  <2> QED
    BY <2>1 DEF LoadDump, Captured, Goto
<1>2. DumpIs' /\ TreesIdle'
  BY <1>1, DumpStays DEF SvnInv, SvnStages, TreesIdle, svnVars, treeVars
<1> QED
  BY <1>1, <1>2 DEF SvnInv, OfSvn, SvnStages

LEMMA RecordsAre ==
    ASSUME KindInv, CaptureInv, SvnInv, stage = "svn parse"
    PROVE  Len(Records) \in Nat /\ \A n \in 1..Len(Records) : IsRecord(Records[n])
PROOF
<1>1. input \in Sources /\ input.kind = "svn" /\ program = input.program
  BY DEF KindInv, SvnStages, SvnInv
<1>2. IsDump(input)
  BY <1>1, SourceDumps
<1>3. CASE input.place = "dumpfile"
  <2>1. Records = input.dump /\ input.dump \in Seq(ToSet(input.dump))
    BY <1>2, <1>3 DEF Records, IsDump
  <2>2. Len(input.dump) \in Nat /\ \A n \in 1..Len(input.dump) : input.dump[n] \in ToSet(input.dump)
    BY <2>1, SequenceOf
  <2> QED
    BY <1>2, <2>1, <2>2 DEF IsDump
<1>4. CASE input.place # "dumpfile"
  <2>1. Records = stdout /\ stdout \in Seq(Items(program))
    BY <1>4 DEF Records, CaptureInv, Sane
  <2>2. \A x \in Items(program) : IsRecord(x)
    BY <1>1, <1>2 DEF IsDump, Items
  <2>3. Len(stdout) \in Nat /\ \A n \in 1..Len(stdout) : stdout[n] \in Items(program)
    BY <2>1, SequenceOf
  <2> QED
    BY <2>1, <2>2, <2>3
<1> QED
  BY <1>3, <1>4

LEMMA ParseKeepsSvn ==
    KindInv /\ CaptureInv /\ SvnInv /\ ParseRecord /\ program' = program => SvnInv'
PROOF
<1> SUFFICES ASSUME KindInv, CaptureInv, SvnInv, ParseRecord, program' = program PROVE SvnInv'
  OBVIOUS
<1> DEFINE rec == Records[dump.at + 1]
<1>0. input' = input /\ stage = "svn parse" /\ stage' \in {"svn parse", "failed"}
  BY Moves DEF ParseRecord
<1>1. CASE stage' = "failed"
  BY <1>0, <1>1 DEF SvnInv, OfSvn, SvnStages
<1>2. CASE stage' # "failed"
  <2>0. DumpIs /\ TreesIdle
    BY <1>0 DEF SvnInv, SvnStages
  <2>1. /\ dump.at < Len(Records) /\ RecordFault(rec) = NoFailure
        /\ dump' = [dump EXCEPT !.at = @ + 1,
                                !.version = IF rec.rec = "format" THEN {rec.version} ELSE @,
                                !.revisions = WithRecord(@, rec)]
        /\ builder' = builder /\ UNCHANGED treeVars
    <3>1. \A why : ~Fail(why)
      BY <1>2, Moves
    <3> QED
      BY <3>1 DEF ParseRecord
  <2>2. dump.at \in Nat /\ dump.at + 1 \in Nat /\ dump.at + 1 \in 1..Len(Records)
    <3>1. Len(Records) \in Nat
      BY <1>0, RecordsAre
    <3>2. dump.at \in Nat /\ dump.at < Len(Records)
      BY <2>0, <2>1 DEF DumpIs
    <3> QED
      BY <3>1, <3>2
  <2>3. IsRecord(rec)
    BY <1>0, <2>2, RecordsAre
  <2> HIDE DEF rec
  <2> DEFINE old == dump.revisions
             last == Len(old)
             fresh == [number |-> rec.number, date |-> rec.date, nodes |-> <<>>]
             new == WithRecord(old, rec)
  <2>4. /\ dump' = [at |-> dump'.at, version |-> dump'.version, revisions |-> dump'.revisions]
        /\ dump'.at = dump.at + 1 /\ dump'.revisions = new
    <3>1. dump = [at |-> dump.at, version |-> dump.version, revisions |-> dump.revisions]
      BY <2>0 DEF DumpIs
    <3> QED
      BY <2>1, <3>1
  <2>5. old \in Seq(ToSet(old)) /\ \A n \in 1..last : RevisionIs(old[n])
    BY <2>0 DEF DumpIs
  <2>6. last \in Nat /\ DOMAIN old = 1..last
    BY <2>5
  <2>7. new \in Seq(ToSet(new)) /\ \A n \in 1..Len(new) : RevisionIs(new[n])
    <3>1. CASE rec.rec = "revision"
      <4>1. new = Append(old, fresh)
        BY <3>1 DEF WithRecord
      <4>2. RevisionIs(fresh)
        <5>1. fresh.nodes = <<>> /\ <<>> \in Seq(ToSet(<<>>)) /\ Len(<<>>) = 0
          OBVIOUS
        <5> QED
          BY <5>1 DEF RevisionIs, NodesAre
      <4>3. /\ Append(old, fresh) \in Seq(ToSet(Append(old, fresh))) /\ Len(Append(old, fresh)) = last + 1
            /\ Append(old, fresh)[last + 1] = fresh /\ \A n \in 1..last : Append(old, fresh)[n] = old[n]
        BY <2>5, SequenceGrows
      <4>4. \A n \in 1..(last + 1) : n \in 1..last \/ n = last + 1
        BY <2>6
      <4> HIDE DEF fresh, new, old, last
      <4> QED
        BY <2>5, <4>1, <4>2, <4>3, <4>4
    <3>2. CASE rec.rec = "node"
      <4>1. new = [old EXCEPT ![last].nodes = Append(@, rec)]
        BY <3>2 DEF WithRecord
      <4>2. last \in 1..last
        <5>1. old # <<>>
          BY <2>1, <3>2 DEF RecordFault, NoFailure, rec
        <5> QED
          BY <2>5, <5>1
      <4>3. old[last] = [number |-> old[last].number, date |-> old[last].date, nodes |-> old[last].nodes]
            /\ NodesAre(old[last].nodes)
        BY <2>5, <4>2 DEF RevisionIs
      <4> DEFINE was == old[last].nodes
                 now == Append(was, rec)
                 rev == [number |-> old[last].number, date |-> old[last].date, nodes |-> now]
      <4>4. new = [n \in 1..last |-> IF n = last THEN rev ELSE old[n]]
        <5>1. [old[last] EXCEPT !.nodes = Append(@, rec)] = rev
          BY <4>3
        <5>2. new = [n \in DOMAIN old |-> IF n = last THEN [old[last] EXCEPT !.nodes = Append(@, rec)] ELSE old[n]]
          BY <4>1
        <5> QED
          BY <2>6, <5>1, <5>2
      <4>5. NodesAre(now)
        <5>1. was \in Seq(ToSet(was)) /\ \A k \in 1..Len(was) : IsNode(was[k])
          BY <4>3 DEF NodesAre
        <5>2. /\ now \in Seq(ToSet(now)) /\ Len(now) = Len(was) + 1 /\ Len(was) \in Nat
              /\ now[Len(was) + 1] = rec /\ \A k \in 1..Len(was) : now[k] = was[k]
          BY <5>1, SequenceGrows
        <5>3. IsNode(rec)
          BY <2>3, <3>2 DEF IsRecord, IsNode, NamePaths
        <5>4. \A k \in 1..(Len(was) + 1) : k \in 1..Len(was) \/ k = Len(was) + 1
          BY <5>2
        <5> HIDE DEF was, now
        <5> QED
          BY <5>1, <5>2, <5>3, <5>4 DEF NodesAre
      <4>6. RevisionIs(rev)
        <5> HIDE DEF now
        <5> QED
          BY <4>5 DEF RevisionIs
      <4> HIDE DEF rev, new, old, last
      <4>7. Len(new) = last /\ DOMAIN new = 1..last /\ new \in Seq(ToSet(new))
        <5>1. \A n \in 1..last : new[n] \in ToSet(new)
          BY <4>4 DEF ToSet
        <5> QED
          BY <2>6, <4>4, <5>1
      <4>8. \A n \in 1..last : RevisionIs(new[n])
        BY <2>5, <4>4, <4>6
      <4> QED
        BY <4>7, <4>8
    <3>3. CASE rec.rec \notin {"revision", "node"}
      <4>1. new = old
        BY <3>3 DEF WithRecord
      <4> QED
        BY <2>5, <4>1
    <3> QED
      BY <3>1, <3>2, <3>3
  <2> HIDE DEF new
  <2>8. DumpIs'
    BY <2>2, <2>4, <2>7 DEF DumpIs
  <2>9. TreesIdle'
    BY <2>0, <2>1 DEF TreesIdle, treeVars
  <2> QED
    BY <1>0, <1>2, <2>8, <2>9 DEF SvnInv, OfSvn, SvnStages
<1> QED
  BY <1>1, <1>2

LEMMA ParsedKeepsSvn == SvnInv /\ DumpParsed /\ program' = program => SvnInv'
PROOF
<1> SUFFICES ASSUME SvnInv, DumpParsed, program' = program, stage' # "failed" PROVE SvnInv'
  <2>1. DumpParsed => input' = input
    BY Moves DEF DumpParsed
  <2> QED
    BY <2>1 DEF SvnInv, OfSvn, SvnStages
<1>1. /\ stage = "svn parse" /\ stage' = "svn apply" /\ input' = input /\ builder' = builder /\ UNCHANGED svnVars
  <2>1. \A why : ~Fail(why)
    BY Moves
  <2> QED
    BY <2>1 DEF DumpParsed, Goto
<1>2. DumpIs /\ TreesIdle
  BY <1>1 DEF SvnInv, SvnStages
<1>3. /\ builder.atoms = <<>> /\ live = EmptyTree /\ tree = EmptyTree /\ copied = {} /\ applied = 0
      /\ kept = EmptyTree /\ heads = EmptyTree /\ svnLoss = NoSvnLoss /\ NextAtom = 1 /\ Len(builder.atoms) = 0
      /\ builder = [atoms |-> builder.atoms, refs |-> builder.refs, drops |-> builder.drops, flags |-> builder.flags]
  BY <1>2 DEF TreesIdle, NewBuilder, NextAtom
<1>4. DOMAIN EmptyTree = {}
  BY DEF EmptyTree
<1>5. TreesRight
  <2>1. AllFit(builder.atoms, dump.revisions)
    <3>1. <<>> \in Seq(ToSet(<<>>)) /\ Len(<<>>) = 0 /\ Len(dump.revisions) \in Nat
      BY <1>2 DEF DumpIs
    <3> QED
      BY <1>3, <3>1 DEF AllFit
  <2>2. Files(live) = TreeUnder(ReplayedTrees, NextAtom)
    BY <1>3, FilesAgree DEF TreeUnder
  <2>3. IsKept(kept, builder.atoms, Needed)
    <3>1. \A r : ~IsNamed(<<>>, r)
      BY DEF IsNamed
    <3> QED
      BY <1>3, <1>4, <3>1 DEF IsKept
  <2>4. NodeTurns
    <3>1. ASSUME NextAtom <= Len(dump.revisions) PROVE Len(Revision.nodes) \in Nat
      <4>1. 1 \in 1..Len(dump.revisions) /\ Revision = dump.revisions[1]
        BY <1>2, <1>3, <3>1 DEF DumpIs, Revision
      <4> QED
        BY <1>2, <4>1 DEF DumpIs, RevisionIs, NodesAre
    <3>2. RevisionShown(Revision.nodes, applied, Files(live), Files(tree))
      BY <1>3, NothingShown
    <3> QED
      BY <1>3, <3>1, <3>2 DEF NodeTurns
  <2>5. IsHeads(heads, dump.revisions, Len(builder.atoms))
    <3>1. UNION {Touched(dump.revisions[n]) : n \in 1..0} = {}
      OBVIOUS
    <3> QED
      BY <1>3, <1>4, <3>1, FS_EmptySet DEF IsHeads
  <2> QED
    BY <1>3, <1>4, <2>1, <2>2, <2>3, <2>4, <2>5 DEF TreesRight, CopiesRight
<1>6. TreesRight' /\ DumpIs'
  BY <1>1, <1>2, <1>5, TreesStay, DumpStays DEF svnVars, treeVars
<1>7. BuilderIs' /\ LossIs'
  BY <1>1, <1>3 DEF BuilderIs, LossIs, NoSvnLoss, svnVars, treeVars
<1> QED
  BY <1>1, <1>6, <1>7 DEF SvnInv, OfSvn, SvnStages

(* What was kept is what the atoms replay to, and the current revision is  *)
(* a list of nodes.                                                        *)
LEMMA KeptIs ==
    ASSUME TreesRight
    PROVE  \A r \in DOMAIN kept : /\ AtomOfRevision(r) \in 1..Len(builder.atoms)
                                  /\ DOMAIN kept[r] = DOMAIN ReplayedTrees[AtomOfRevision(r)]
                                  /\ DOMAIN kept[r] \subseteq NamePaths
PROOF
<1> TAKE r \in DOMAIN kept
<1>1. AtomOfRevision(r) = NamedLast(builder.atoms, r)
  BY DEF AtomOfRevision, NamedLast
<1>2. /\ AllFit(builder.atoms, dump.revisions) /\ IsKept(kept, builder.atoms, Needed)
  BY DEF TreesRight
<1>3. builder.atoms \in Seq(ToSet(builder.atoms)) /\ DOMAIN builder.atoms = 1..Len(builder.atoms)
  BY <1>2 DEF AllFit
<1>4. IsNamed(builder.atoms, r) /\ Files(kept[r]) = ReplayedTrees[NamedLast(builder.atoms, r)]
  BY <1>2 DEF IsKept, ReplayedTrees
<1>5. AtomOfRevision(r) \in 1..Len(builder.atoms)
  BY <1>1, <1>3, <1>4, LastNamed
<1>6. DOMAIN ReplayedTrees[AtomOfRevision(r)] \subseteq NamePaths
  BY <1>2, <1>5 DEF AllFit, FitsTree, ReplayedTrees
<1>7. DOMAIN Files(kept[r]) = DOMAIN kept[r]
  BY FilesAgree
<1> QED
  BY <1>1, <1>4, <1>5, <1>6, <1>7

LEMMA RevisionNow ==
    ASSUME DumpIs, TreesRight, NextAtom <= Len(dump.revisions)
    PROVE  /\ NextAtom = Len(builder.atoms) + 1 /\ Len(builder.atoms) \in Nat /\ Len(dump.revisions) \in Nat
           /\ NextAtom \in 1..Len(dump.revisions)
           /\ RevisionIs(Revision) /\ NodesAre(Revision.nodes) /\ Len(Revision.nodes) \in Nat
           /\ applied \in 0..Len(Revision.nodes)
           /\ RevisionShown(Revision.nodes, applied, Files(live), Files(tree))
PROOF
<1>1. Len(builder.atoms) \in Nat /\ Len(dump.revisions) \in Nat
  BY DEF TreesRight, AllFit, DumpIs
<1>2. NextAtom \in 1..Len(dump.revisions) /\ NextAtom = Len(builder.atoms) + 1
  BY <1>1 DEF NextAtom
<1>3. RevisionIs(Revision)
  BY <1>2 DEF DumpIs, Revision
<1> QED
  BY <1>1, <1>2, <1>3 DEF RevisionIs, NodesAre, TreesRight, NodeTurns

LEMMA NodeKeepsSvn == SvnInv /\ ApplyNode /\ program' = program => SvnInv'
PROOF
<1> SUFFICES ASSUME SvnInv, ApplyNode, program' = program, stage' # "failed" PROVE SvnInv'
  <2>1. ApplyNode => input' = input
    BY Moves DEF ApplyNode
  <2> QED
    BY <2>1 DEF SvnInv, OfSvn, SvnStages
<1>1. /\ stage = "svn apply" /\ stage' = "svn apply" /\ input' = input /\ builder' = builder
      /\ applied' = applied + 1 /\ UNCHANGED <<dump, live, kept, heads>>
      /\ NextAtom <= Len(dump.revisions) /\ applied < Len(Revision.nodes)
      /\ svnLoss' = [svnLoss EXCEPT !.properties = @ \cup LossOf(KeyNow)]
  BY ApplyNodeIs
<1>2. DumpIs /\ BuilderIs /\ LossIs /\ TreesRight
  BY <1>1 DEF SvnInv, SvnStages
<1>3. /\ NodesAre(Revision.nodes) /\ Len(Revision.nodes) \in Nat
      /\ applied \in 0..Len(Revision.nodes)
      /\ RevisionShown(Revision.nodes, applied, Files(live), Files(tree))
  BY <1>1, <1>2, RevisionNow
<1>4. applied \in Nat /\ applied + 1 <= Len(Revision.nodes) /\ applied + 1 \in 1..Len(Revision.nodes)
      /\ applied + 1 \in 0..Len(Revision.nodes)
  <2> DEFINE L == Len(Revision.nodes)
  <2>1. L \in Nat /\ applied \in 0..L /\ applied < L
    BY <1>1, <1>3
  <2> HIDE DEF L
  <2>2. applied \in Nat /\ applied + 1 <= L /\ applied + 1 \in 1..L /\ applied + 1 \in 0..L
    BY <2>1
  <2> QED
    BY <2>2 DEF L
<1>5. IsNode(NodeNow)
  BY <1>3, <1>4 DEF NodesAre, NodeNow
<1>6. \A r \in DOMAIN kept : /\ AtomOfRevision(r) \in 1..Len(builder.atoms)
                             /\ DOMAIN kept[r] = DOMAIN ReplayedTrees[AtomOfRevision(r)]
                             /\ DOMAIN kept[r] \subseteq NamePaths
  BY <1>2, KeptIs
<1>7. /\ DOMAIN tree' \subseteq NamePaths
      /\ \A p \in NamePaths : ~Beneath(NodeNow.path, p) => Agree(Files(tree), Files(tree'), p)
      /\ StatesText(NodeNow) => ShowsText(NodeNow, Files(tree'))
      /\ \A c \in copied' : c \in copied \/ IsOfKept(c)
  BY <1>2, <1>5, <1>6, NodeTouches DEF TreesRight
<1>8. RevisionShown(Revision.nodes, applied + 1, Files(live), Files(tree'))
  BY <1>3, <1>4, <1>7, OneNodeMore DEF NodeNow
<1>9. ReplayedTrees' = ReplayedTrees /\ NextAtom' = NextAtom /\ Needed' = Needed /\ Revision' = Revision /\ DumpIs'
  BY <1>1, <1>2, DumpStays DEF ReplayedTrees, NextAtom, Revision
<1>10. NodeTurns'
  BY <1>1, <1>4, <1>8, <1>9 DEF NodeTurns
<1>11. CopiesRight'
  <2>1. \A c : IsOfKept(c) => c.fromAtom \in 1..Len(builder.atoms) /\ c.from \in DOMAIN ReplayedTrees[c.fromAtom]
    BY <1>6 DEF IsOfKept
  <2> QED
    BY <1>1, <1>2, <1>7, <1>9, <2>1 DEF TreesRight, CopiesRight
<1>12. TreesRight'
  BY <1>1, <1>2, <1>7, <1>9, <1>10, <1>11 DEF TreesRight
<1>13. LossIs'
  <2>1. \A keys : LossOf(keys) \subseteq {"svn:mergeinfo", "workflow", "custom"}
    BY DEF LossOf
  <2>2. svnLoss = [properties |-> svnLoss.properties, emptyDirs |-> svnLoss.emptyDirs, dates |-> svnLoss.dates]
        /\ svnLoss.properties \subseteq {"svn:mergeinfo", "workflow", "custom"}
    BY <1>2 DEF LossIs
  <2>3. svnLoss' = [properties |-> svnLoss.properties \cup LossOf(KeyNow), emptyDirs |-> svnLoss.emptyDirs,
                    dates |-> svnLoss.dates]
    BY <1>1, <2>2
  <2> QED
    BY <2>1, <2>2, <2>3 DEF LossIs
<1> QED
  BY <1>1, <1>2, <1>9, <1>12, <1>13 DEF SvnInv, OfSvn, SvnStages, BuilderIs

(* The draft of a revision, and that it fits.                              *)
SvnDraft ==
    [parents |-> IF NextAtom = 1 THEN <<>> ELSE <<NextAtom - 1>>,
     ops |-> RevisionOps(Files(live), Files(tree)), copies |-> copied,
     meta |-> [time |-> Revision.date = "parses"],
     source |-> Revision.number, status |-> AsStated]

LEMMA DraftFits ==
    ASSUME DumpIs, TreesRight, NextAtom <= Len(dump.revisions), applied = Len(Revision.nodes)
    PROVE  FitsTree(NextAtom, SvnDraft, Revision, ReplayedTrees, Files(tree))
PROOF
<1>1. /\ NextAtom = Len(builder.atoms) + 1 /\ Len(builder.atoms) \in Nat
      /\ RevisionShown(Revision.nodes, Len(Revision.nodes), Files(live), Files(tree))
  BY RevisionNow
<1>2. Files(live) = TreeUnder(ReplayedTrees, NextAtom) /\ DOMAIN tree \subseteq NamePaths /\ CopiesRight
  BY DEF TreesRight
<1> DEFINE ops == RevisionOps(Files(live), Files(tree))
<1>3. /\ SvnDraft.parents = IF NextAtom = 1 THEN <<>> ELSE <<NextAtom - 1>>
      /\ SvnDraft.ops = ops /\ SvnDraft.copies = copied /\ SvnDraft.source = Revision.number
  BY DEF SvnDraft
<1>4. /\ LeadsTo(Files(live), Files(tree), ops)
      /\ \A p \in Replaced \cap DOMAIN Files(live) \cap DOMAIN Files(tree) : \E o \in ops : o.path = p /\ o.kind = "Replace"
  BY RevisionOpsLead DEF LeadsTo
<1>5. IsContents(Files(tree)) /\ DOMAIN Files(tree) = DOMAIN tree /\ DOMAIN Files(live) = DOMAIN live
  BY FilesAgree
<1> HIDE DEF ops
<1>6. After(TreeUnder(ReplayedTrees, NextAtom), ops) = Files(tree)
  BY <1>2, <1>4, <1>5, OpsMakeChild
<1>7. \A c \in copied : c.fromAtom \in 1..(NextAtom - 1) /\ c.from \in DOMAIN ReplayedTrees[c.fromAtom]
  <2>1. NextAtom - 1 = Len(builder.atoms)
    BY <1>1
  <2> QED
    BY <1>2, <2>1 DEF CopiesRight
<1>8. ASSUME NEW p \in DOMAIN TreeUnder(ReplayedTrees, NextAtom) \cap DOMAIN Files(tree), IsReplacedBy(Revision, p)
      PROVE  \E o \in ops : o.path = p /\ o.kind = "Replace"
  <2>1. p \in DOMAIN live /\ p \in DOMAIN tree /\ p \in DOMAIN Files(live)
    BY <1>2, <1>5
  <2>2. p \in Replaced
    BY <1>8, <2>1 DEF IsReplacedBy, Replaced
  <2> QED
    BY <1>4, <2>1, <2>2
<1> QED
  BY <1>1, <1>2, <1>3, <1>5, <1>6, <1>7, <1>8 DEF FitsTree

LEMMA EndKeepsSvn == SvnInv /\ EndRevision /\ program' = program => SvnInv'
PROOF
<1> SUFFICES ASSUME SvnInv, EndRevision, program' = program PROVE SvnInv'
  OBVIOUS
<1> DEFINE touched == IF input.refs THEN UNION {RootOf(n.path) : n \in ToSet(Revision.nodes)} ELSE {}
           N == Len(builder.atoms)
           more == Append(builder.atoms, SvnDraft)
<1>1. /\ stage = "svn apply" /\ stage' = "svn apply" /\ input' = input /\ dump' = dump
      /\ NextAtom <= Len(dump.revisions) /\ applied = Len(Revision.nodes)
      /\ builder' = WithAtom(builder, SvnDraft)
      /\ heads' = Overlaid([r \in touched |-> NextAtom], heads)
      /\ kept' = (IF Revision.number \in Needed THEN Overlaid([r \in {Revision.number} |-> tree], kept) ELSE kept)
      /\ live' = tree /\ copied' = {} /\ applied' = 0 /\ tree' = tree
  BY DEF EndRevision, Goto, SvnDraft
<1>2. svnLoss' = [svnLoss EXCEPT !.emptyDirs = svnLoss'.emptyDirs, !.dates = svnLoss'.dates]
  <2>1. PICK empty, dates : svnLoss' = [svnLoss EXCEPT !.emptyDirs = empty, !.dates = dates]
    BY DEF EndRevision
  <2>2. svnLoss = [properties |-> svnLoss.properties, emptyDirs |-> svnLoss.emptyDirs, dates |-> svnLoss.dates]
    BY <1>1 DEF SvnInv, LossIs
  <2> QED
    BY <2>1, <2>2
<1>3. DumpIs /\ BuilderIs /\ LossIs /\ TreesRight
  BY <1>1 DEF SvnInv, SvnStages
<1>4. /\ NextAtom = N + 1 /\ N \in Nat /\ Len(dump.revisions) \in Nat /\ N < Len(dump.revisions)
      /\ NodesAre(Revision.nodes) /\ Revision = dump.revisions[N + 1]
  <2>1. /\ NextAtom = N + 1 /\ N \in Nat /\ Len(dump.revisions) \in Nat /\ NodesAre(Revision.nodes)
        /\ NextAtom \in 1..Len(dump.revisions)
    BY <1>1, <1>3, RevisionNow
  <2> QED
    BY <2>1 DEF Revision
<1>5. AllFit(builder.atoms, dump.revisions) /\ IsKept(kept, builder.atoms, Needed)
      /\ (input.refs => IsHeads(heads, dump.revisions, N)) /\ DOMAIN tree \subseteq NamePaths
  BY <1>3 DEF TreesRight
<1>6. FitsTree(N + 1, SvnDraft, dump.revisions[N + 1], TreesOf(builder.atoms), Files(tree))
  BY <1>1, <1>3, <1>4, DraftFits DEF ReplayedTrees
<1>7. /\ builder' = [atoms |-> more, refs |-> builder.refs, drops |-> builder.drops, flags |-> builder.flags]
      /\ builder'.atoms = more
  BY <1>1, <1>3 DEF BuilderIs, WithAtom
<1>8. Len(more) = N + 1
  BY <1>5 DEF AllFit
<1> HIDE DEF N, more, touched
<1>9. /\ AllFit(more, dump.revisions)
      /\ TreesOf(more)[N + 1] = Files(tree)
  <2>1. AllFit(builder.atoms, dump.revisions) /\ Len(dump.revisions) \in Nat
        /\ Len(builder.atoms) < Len(dump.revisions)
    BY <1>4, <1>5 DEF N
  <2>2. FitsTree(Len(builder.atoms) + 1, SvnDraft, dump.revisions[Len(builder.atoms) + 1],
                 TreesOf(builder.atoms), Files(tree))
    BY <1>6 DEF N
  <2>3. AllFit(Append(builder.atoms, SvnDraft), dump.revisions) /\ GrowsBy(builder.atoms, SvnDraft, Files(tree))
    BY <2>1, <2>2, OneRevisionMore
  <2> QED
    BY <2>3 DEF N, more, GrowsBy
<1>10. IsKept(kept', more, Needed)
  <2>1. SvnDraft.source = Revision.number
    BY DEF SvnDraft
  <2>2. AllFit(builder.atoms, dump.revisions) /\ Len(dump.revisions) \in Nat
        /\ Len(builder.atoms) < Len(dump.revisions) /\ IsKept(kept, builder.atoms, Needed)
    BY <1>4, <1>5 DEF N
  <2>3. FitsTree(Len(builder.atoms) + 1, SvnDraft, dump.revisions[Len(builder.atoms) + 1],
                 TreesOf(builder.atoms), Files(tree))
    BY <1>6 DEF N
  <2>4. IsKept(IF SvnDraft.source \in Needed THEN Overlaid([r \in {SvnDraft.source} |-> tree], kept) ELSE kept,
               Append(builder.atoms, SvnDraft), Needed)
    BY <2>2, <2>3, OneTreeMore
  <2> QED
    BY <1>1, <2>1, <2>4 DEF more
<1>11. input.refs => IsHeads(heads', dump.revisions, N + 1)
  <2>1. input.refs => touched = Touched(dump.revisions[N + 1])
    BY <1>4 DEF touched, Touched
  <2> QED
    BY <1>1, <1>4, <1>5, <2>1, OneHeadMore
<1>12. /\ NextAtom' = N + 1 + 1 /\ Len(builder.atoms)' = N + 1 /\ ReplayedTrees' = TreesOf(more)
       /\ DumpIs' /\ Needed' = Needed /\ Revision' = dump.revisions[N + 1 + 1]
  BY <1>1, <1>3, <1>7, <1>8, DumpStays DEF NextAtom, ReplayedTrees, Revision
<1>13. (Files(live) = TreeUnder(ReplayedTrees, NextAtom))'
  <2>1. TreeUnder(TreesOf(more), N + 1 + 1) = TreesOf(more)[N + 1]
    <3> DEFINE k == N + 1 + 1
    <3>1. k # 1 /\ k - 1 = N + 1
      BY <1>4
    <3> HIDE DEF k
    <3>2. TreeUnder(TreesOf(more), k) = TreesOf(more)[k - 1]
      BY <3>1 DEF TreeUnder
    <3> QED
      BY <3>1, <3>2 DEF k
  <2>2. Files(live)' = Files(tree)
    BY <1>1 DEF Files
  <2> QED
    BY <1>9, <1>12, <2>1, <2>2
<1>14. NodeTurns'
  <2>1. ASSUME NextAtom' <= Len(dump.revisions) PROVE Len(Revision'.nodes) \in Nat
    <3>1. N + 1 + 1 \in 1..Len(dump.revisions)
      BY <1>4, <1>12, <2>1
    <3> QED
      BY <1>3, <1>12, <3>1 DEF DumpIs, RevisionIs, NodesAre
  <2>2. \A nodes : RevisionShown(nodes, 0, Files(tree), Files(tree))
    BY NothingShown
  <2>3. Files(live)' = Files(tree) /\ Files(tree)' = Files(tree)
    BY <1>1 DEF Files
  <2>4. 0 \in Nat /\ \A k \in Nat : 0 \in 0..k
    OBVIOUS
  <2> QED
    BY <1>1, <2>1, <2>2, <2>3, <2>4 DEF NodeTurns
<1>15. CopiesRight'
  BY <1>1 DEF CopiesRight
<1>16. TreesRight'
  BY <1>1, <1>5, <1>7, <1>9, <1>10, <1>11, <1>12, <1>13, <1>14, <1>15 DEF TreesRight
<1>17. LossIs' /\ BuilderIs'
  <2>1. svnLoss = [properties |-> svnLoss.properties, emptyDirs |-> svnLoss.emptyDirs, dates |-> svnLoss.dates]
        /\ svnLoss.properties \subseteq {"svn:mergeinfo", "workflow", "custom"}
    BY <1>3 DEF LossIs
  <2>2. svnLoss' = [properties |-> svnLoss.properties, emptyDirs |-> svnLoss'.emptyDirs, dates |-> svnLoss'.dates]
    BY <1>2, <2>1
  <2>3. svnLoss'.properties = svnLoss.properties
    BY <2>2
  <2> QED
    BY <1>7, <2>1, <2>2, <2>3 DEF LossIs, BuilderIs
<1> QED
  BY <1>1, <1>12, <1>16, <1>17 DEF SvnInv, OfSvn, SvnStages

LEMMA FinishKeepsSvn == SvnInv /\ FinishSvn /\ program' = program => SvnInv'
PROOF
<1> SUFFICES ASSUME SvnInv, FinishSvn, program' = program, stage' # "failed" PROVE SvnInv'
  <2>1. FinishSvn => input' = input
    BY Moves DEF FinishSvn
  <2> QED
    BY <2>1 DEF SvnInv, OfSvn, SvnStages
<1>1. /\ stage = "svn apply" /\ stage' = "done" /\ input' = input /\ NextAtom > Len(dump.revisions)
      /\ ~RootsCollide /\ UNCHANGED svnVars
      /\ builder' = [builder EXCEPT !.refs = SvnRefs, !.drops = SvnDrops, !.flags = SvnFlags]
  <2>1. \A why : ~Fail(why)
    BY Moves
  <2> QED
    BY <2>1 DEF FinishSvn, Finish, Goto
<1>2. DumpIs /\ BuilderIs /\ LossIs /\ TreesRight
  BY <1>1 DEF SvnInv, SvnStages
<1>3. builder'.atoms = builder.atoms /\ builder'.refs = SvnRefs /\ builder'.drops = SvnDrops
  BY <1>1, <1>2 DEF BuilderIs
<1>4. Len(builder.atoms) = Len(dump.revisions)
  <2> DEFINE N == Len(builder.atoms)
             L == Len(dump.revisions)
  <2>1. N \in Nat /\ L \in Nat /\ N <= L
    BY <1>2 DEF DumpIs, TreesRight, AllFit
  <2>2. N + 1 > L
    BY <1>1 DEF NextAtom
  <2> HIDE DEF N, L
  <2>3. N = L
    BY <2>1, <2>2
  <2> QED
    BY <2>3 DEF N, L
<1>5. TreesRight' /\ LiveRoots' = LiveRoots /\ SvnRefs' = SvnRefs /\ (RootsCollide' <=> RootsCollide) /\ DumpIs'
  BY <1>1, <1>2, <1>3, TreesStay, DumpStays DEF svnVars, treeVars
<1>6. SvnDrops' = SvnDrops /\ LossIs'
  BY <1>1, <1>2, <1>5 DEF SvnDrops, LossIs, svnVars, treeVars
<1>7. dump' = dump
  BY <1>1 DEF svnVars
<1> QED
  BY <1>1, <1>2, <1>3, <1>4, <1>5, <1>6, <1>7 DEF SvnInv, OfSvn, SvnStages, RefsRight

LEMMA ProgramStays ==
    /\ Reader \/ Thread \/ Child => UNCHANGED <<decoding, svnVars>> /\ program' = program
    /\ Decoder \/ Verifier \/ UNCHANGED vars => program' = program
PROOF
<1>1. ReaderStep => program' = program
  BY DEF ReaderStep, Spawn, ReadOutput, Kill, Wait, Join
<1>2. DrainerStep => program' = program
  BY DEF DrainerStep, Drain, DrainerEnds
<1>3. ChildStep => program' = program
  BY DEF ChildStep, Write, Exit
<1>4. Reader \/ Thread \/ Child => UNCHANGED <<decoding, svnVars>> /\ program' = program
  BY <1>1, <1>2, <1>3 DEF Reader, Thread, Child, DecoderReads, ThreadRuns, ChildRuns, During
<1>5. Decoder \/ Verifier \/ UNCHANGED vars => UNCHANGED captureVars
  BY DEF Decoder, Verifier, SvnStep, vars
<1>6. UNCHANGED captureVars => program' = program
  BY DEF captureVars
<1> QED
  BY <1>4, <1>5, <1>6

LEMMA SvnInvHolds == Spec => []SvnInv
PROOF
<1>1. SvnInv /\ KindInv /\ CaptureInv /\ [Next]_vars => SvnInv'
  <2> SUFFICES ASSUME SvnInv, KindInv, CaptureInv, [Next]_vars PROVE SvnInv'
    OBVIOUS
  <2>1. CASE SvnStep /\ program' = program
    BY <2>1, LoadKeepsSvn, ParseKeepsSvn, ParsedKeepsSvn, NodeKeepsSvn, EndKeepsSvn, FinishKeepsSvn DEF SvnStep
  <2>2. CASE (GitNext \/ HgNext \/ CvsNext \/ VerifyNext) /\ program' = program
    <3>1. stage' \notin SvnStages /\ ~OfSvn' /\ input' = input
      BY <2>2, GitStays, HgStays, CvsStays, VerifyStays
      DEF KindInv, OfSvn, Stays, GitStages, HgStages, SvnStages, CvsStages, VerifyStages, Ends
    <3> QED
      BY <2>2, <3>1 DEF SvnInv, SvnStages
  <2>3. CASE Reader \/ Thread \/ Child
    BY <2>3, ProgramStays, CaptureKeepsSvn
  <2>4. CASE UNCHANGED vars
    <3>1. UNCHANGED <<decoding, svnVars>> /\ program' = program
      BY <2>4, ProgramStays DEF vars
    <3> QED
      BY <3>1, CaptureKeepsSvn
  <2> QED
    BY <2>1, <2>2, <2>3, <2>4, ProgramStays DEF Next, Decoder, Verifier
<1> QED
  BY <1>1, SvnStarts, KindInvHolds, CaptureInvHolds, PTL DEF Spec

LEMMA SvnTreesFollow == SvnInv => SvnTreesExact
PROOF
<1> SUFFICES ASSUME SvnInv, stage = "svn apply" PROVE SvnTreesExact
  BY DEF SvnTreesExact
<1> DEFINE N == Len(builder.atoms)
           trees == ReplayedTrees
<1>1. DumpIs /\ TreesRight
  BY DEF SvnInv, SvnStages
<1>2. /\ builder.atoms \in Seq(ToSet(builder.atoms)) /\ N <= Len(dump.revisions)
      /\ \A n \in 1..N : FitsTree(n, builder.atoms[n], dump.revisions[n], trees, trees[n])
      /\ Files(live) = TreeUnder(trees, NextAtom)
      /\ IsKept(kept, builder.atoms, Needed)
  BY <1>1 DEF TreesRight, AllFit, ReplayedTrees
<1>3. N \in Nat /\ DOMAIN builder.atoms = 1..N /\ (builder.atoms = <<>> <=> N = 0) /\ Len(dump.revisions) \in Nat
  <2>1. dump.revisions \in Seq(ToSet(dump.revisions))
    BY <1>1 DEF DumpIs
  <2>2. builder.atoms \in Seq(ToSet(builder.atoms))
    BY <1>2
  <2>3. Len(dump.revisions) \in Nat
    BY <2>1, SequenceShape
  <2> QED
    BY <2>2, <2>3, SequenceShape
<1>10. NextAtom = N + 1
  BY DEF NextAtom
<1> HIDE DEF trees, N
<1>30. /\ \E next : next = N + 1 /\ (next = 1 <=> N = 0) /\ next - 1 = N
       /\ \A k \in 1..N : k \in 1..Len(dump.revisions) /\ (k > 1 => k # 1) /\ \A j \in 1..(k - 1) : j < k
  BY <1>2, <1>3, CountsTo
<1>4. Files(live) = IF builder.atoms = <<>> THEN EmptyTree ELSE trees[N]
  <2>1. PICK next : next = N + 1 /\ (next = 1 <=> N = 0) /\ next - 1 = N
    BY <1>30, Zenon
  <2>2. Files(live) = TreeUnder(trees, next)
    BY <1>2, <1>10, <2>1, Zenon
  <2>3. builder.atoms = <<>> <=> N = 0
    BY <1>3
  <2> QED
    BY <2>1, <2>2, <2>3, Zenon DEF TreeUnder
<1>5. DOMAIN kept = {r \in Needed : HasAtom(r)}
  BY <1>2 DEF IsKept, HasAtom, IsNamed
<1>6. \A r \in DOMAIN kept : Files(kept[r]) = trees[AtomOfRevision(r)]
  <2>1. \A r : AtomOfRevision(r) = NamedLast(builder.atoms, r)
    BY DEF AtomOfRevision, NamedLast
  <2> QED
    BY <1>2, <2>1 DEF IsKept, ReplayedTrees, trees
<1>7. \A n \in 1..N : \A c \in builder.atoms[n].copies : c.fromAtom < n /\ c.from \in DOMAIN trees[c.fromAtom]
  <2> TAKE n \in 1..N
  <2>1. \A c \in builder.atoms[n].copies : c.fromAtom \in 1..(n - 1) /\ c.from \in DOMAIN trees[c.fromAtom]
    BY <1>2 DEF FitsTree
  <2>2. \A k \in 1..(n - 1) : k < n
    BY <1>30
  <2> QED
    BY <2>1, <2>2
<1>8. ASSUME NEW n \in 1..N, NEW p \in DOMAIN trees[n], n > 1, p \in DOMAIN trees[n - 1],
             IsReplacedBy(dump.revisions[n], p)
      PROVE  \E o \in builder.atoms[n].ops : o.path = p /\ o.kind = "Replace"
  <2>1. TreeUnder(trees, n) = trees[n - 1]
    <3>1. n # 1
      BY <1>8, <1>30
    <3> QED
      BY <3>1 DEF TreeUnder
  <2>2. \A q \in DOMAIN TreeUnder(trees, n) \cap DOMAIN trees[n] :
           IsReplacedBy(dump.revisions[n], q) => \E o \in builder.atoms[n].ops : o.path = q /\ o.kind = "Replace"
    BY <1>2 DEF FitsTree
  <2> QED
    BY <1>8, <2>1, <2>2
<1>9. ASSUME NEW n \in 1..N, NEW k \in DOMAIN dump.revisions[n].nodes, StatesText(dump.revisions[n].nodes[k]),
             \A j \in (k + 1)..Len(dump.revisions[n].nodes) :
                ~Beneath(dump.revisions[n].nodes[j].path, dump.revisions[n].nodes[k].path)
      PROVE  ShowsText(dump.revisions[n].nodes[k], trees[n])
  <2> DEFINE nodes == dump.revisions[n].nodes
  <2>1. n \in 1..Len(dump.revisions)
    BY <1>9, <1>30
  <2>2. DOMAIN nodes = 1..Len(nodes)
    <3>1. NodesAre(nodes)
      BY <1>1, <2>1 DEF DumpIs, RevisionIs
    <3> QED
      BY <3>1, SequenceShape DEF NodesAre
  <2>3. ShowsTexts(nodes, Len(nodes), trees[n])
    BY <1>2 DEF FitsTree, RevisionShown
  <2> HIDE DEF nodes
  <2> QED
    BY <1>9, <2>2, <2>3 DEF ShowsTexts, LastAbout, nodes
<1>11. \A n \in 1..N : \A p \in DOMAIN trees[n] :
          (n > 1 /\ p \in DOMAIN trees[n - 1] /\ IsReplacedBy(dump.revisions[n], p))
              => \E o \in builder.atoms[n].ops : o.path = p /\ o.kind = "Replace"
  BY <1>8
<1>12. \A n \in 1..N :
          LET nodes == dump.revisions[n].nodes IN
          \A k \in DOMAIN nodes :
             (StatesText(nodes[k]) /\ \A j \in (k + 1)..Len(nodes) : ~Beneath(nodes[j].path, nodes[k].path))
                 => ShowsText(nodes[k], trees[n])
  BY <1>9
<1>13. DOMAIN builder.atoms = 1..N
  BY <1>3
<1>14. \A n \in DOMAIN builder.atoms :
          /\ \A c \in builder.atoms[n].copies : c.fromAtom < n /\ c.from \in DOMAIN trees[c.fromAtom]
          /\ \A p \in DOMAIN trees[n] :
                (n > 1 /\ p \in DOMAIN trees[n - 1] /\ IsReplacedBy(dump.revisions[n], p))
                    => \E o \in builder.atoms[n].ops : o.path = p /\ o.kind = "Replace"
  BY <1>7, <1>11, <1>13
<1>15. \A n \in DOMAIN builder.atoms :
          LET nodes == dump.revisions[n].nodes IN
          \A k \in DOMAIN nodes :
             (StatesText(nodes[k]) /\ \A j \in (k + 1)..Len(nodes) : ~Beneath(nodes[j].path, nodes[k].path))
                 => ShowsText(nodes[k], trees[n])
  BY <1>12, <1>13
<1> QED
  BY <1>4, <1>5, <1>6, <1>14, <1>15 DEF SvnTreesExact, IsReplacedBy, trees, N

\* Whatever the dump, with whatever copies, replacements and deletions in whatever
\* order: a Subversion import records of each revision the difference that
\* leads to its tree, keeps for copies the trees it should, copies from files that were
\* there, says of what is replaced that it is, and shows the texts the dump states.
THEOREM SvnTreesAreExact == Spec => []SvnTreesExact
PROOF
  BY SvnInvHolds, SvnTreesFollow, PTL

-----------------------------------------------------------------------------
(* Subversion: the refs of the roots.                                      *)

(* What a root's part of a tree is.                                        *)
PartOf(t, root) == [p \in {q \in DOMAIN t : Beneath(root.prefix, q)} |-> t[p]]

IsFromAbove(nodes, root) ==
    \E x \in ToSet(nodes) : Len(x.path) < Len(root.prefix) /\ Beneath(x.path, root.prefix)

(* A revision that neither touches a root nor is about what is above it    *)
(* leaves the root's part alone.                                           *)
LEMMA PartStays ==
    ASSUME NEW nodes, NodesAre(nodes), NEW before, NEW after, LeavesAlone(nodes, Len(nodes), before, after),
           DOMAIN before \subseteq NamePaths, DOMAIN after \subseteq NamePaths,
           NEW path \in NamePaths, NEW root \in RootOf(path),
           \A k \in 1..Len(nodes) : root \notin RootOf(nodes[k].path),
           ~IsFromAbove(nodes, root)
    PROVE  PartOf(after, root) = PartOf(before, root)
PROOF
<1>1. /\ root.prefix \in NamePaths
      /\ \A p \in NamePaths : Beneath(root.prefix, p) => root \in RootOf(p)
  BY RootsAre
<1>2. DOMAIN nodes = 1..Len(nodes) /\ \A k \in 1..Len(nodes) : nodes[k].path \in NamePaths
  BY DEF NodesAre, IsNode
<1>3. ASSUME NEW p \in NamePaths, Beneath(root.prefix, p) PROVE Agree(before, after, p)
  <2>1. ASSUME NEW k \in 1..Len(nodes), Beneath(nodes[k].path, p) PROVE FALSE
    <3>1. Beneath(root.prefix, nodes[k].path)
          \/ (Len(nodes[k].path) < Len(root.prefix) /\ Beneath(nodes[k].path, root.prefix))
      BY <1>1, <1>2, <1>3, <2>1, PrefixesCompare
    <3>2. ~Beneath(root.prefix, nodes[k].path)
      BY <1>1, <1>2
    <3>3. nodes[k] \in ToSet(nodes)
      BY <1>2 DEF ToSet
    <3> QED
      BY <3>1, <3>2, <3>3 DEF IsFromAbove
  <2> QED
    BY <2>1 DEF LeavesAlone
<1>4. {q \in DOMAIN after : Beneath(root.prefix, q)} = {q \in DOMAIN before : Beneath(root.prefix, q)}
  BY <1>3 DEF Agree
<1>5. \A q \in {q \in DOMAIN before : Beneath(root.prefix, q)} : after[q] = before[q]
  BY <1>3 DEF Agree
<1> QED
  BY <1>4, <1>5 DEF PartOf

AllAlone(revisions, trees, count) ==
    \A n \in 1..count : /\ NodesAre(revisions[n].nodes)
                        /\ DOMAIN trees[n] \subseteq NamePaths
                        /\ LeavesAlone(revisions[n].nodes, Len(revisions[n].nodes), TreeUnder(trees, n), trees[n])

StaysBelow(revisions, root, after, count) == \A n \in (after + 1)..count : ~IsFromAbove(revisions[n].nodes, root)

(* The head of a root is where the root last was as it is at the end.      *)
LEMMA HeadShows ==
    ASSUME NEW N \in Nat, NEW revisions, NEW trees, NEW last, IsHeads(last, revisions, N),
           AllAlone(revisions, trees, N),
           NEW root \in DOMAIN last,
           StaysBelow(revisions, root, last[root], N)
    PROVE  last[root] \in 1..N /\ PartOf(trees[last[root]], root) = PartOf(trees[N], root)
PROOF
<1> USE DEF AllAlone, StaysBelow
<1> DEFINE head == last[root]
<1>1. /\ DOMAIN last = UNION {Touched(revisions[n]) : n \in 1..N}
      /\ head \in 1..N /\ \A n \in (head + 1)..N : root \notin Touched(revisions[n])
  BY DEF IsHeads
<1>2. PICK path \in NamePaths : root \in RootOf(path)
  <2>1. PICK n \in 1..N : root \in Touched(revisions[n])
    BY <1>1
  <2>2. PICK x \in ToSet(revisions[n].nodes) : root \in RootOf(x.path)
    BY <2>1 DEF Touched
  <2>3. x.path \in NamePaths
    <3> DEFINE nodes == revisions[n].nodes
    <3>1. NodesAre(nodes)
      OBVIOUS
    <3>2. PICK k \in DOMAIN nodes : x = nodes[k]
      BY <2>2 DEF ToSet
    <3> HIDE DEF nodes
    <3> QED
      BY <3>1, <3>2 DEF NodesAre, IsNode
  <2> QED
    BY <2>2, <2>3
<1> HIDE DEF head
<1> DEFINE M == N - head
           T == {i \in 0..M : PartOf(trees[head + i], root) = PartOf(trees[head], root)}
<1>3. M \in Nat /\ head + M = N /\ head + 0 = head /\ head \in Nat
  BY <1>1
<1>4. 0 \in T
  BY <1>3
<1>5. ASSUME NEW i \in 0..(M - 1), i \in T PROVE i + 1 \in T
  <2> DEFINE n == head + i + 1
  <2>1. n \in (head + 1)..N /\ n \in 1..N /\ n # 1 /\ n - 1 = head + i /\ n = head + (i + 1)
        /\ head + i \in 1..N /\ i + 1 \in 0..M
    BY <1>1, <1>3
  <2> HIDE DEF n
  <2>2. PartOf(trees[head + i], root) = PartOf(trees[head], root)
    BY <1>5
  <2>3. TreeUnder(trees, n) = trees[head + i]
    BY <2>1 DEF TreeUnder
  <2> DEFINE nodes == revisions[n].nodes
  <2>4. /\ NodesAre(nodes) /\ LeavesAlone(nodes, Len(nodes), trees[head + i], trees[n])
        /\ DOMAIN trees[n] \subseteq NamePaths /\ DOMAIN trees[head + i] \subseteq NamePaths
    BY <2>1, <2>3
  <2>5. ~IsFromAbove(nodes, root)
    BY <2>1 DEF head
  <2>6. \A k \in 1..Len(nodes) : root \notin RootOf(nodes[k].path)
    <3>1. root \notin Touched(revisions[n])
      BY <1>1, <2>1
    <3>2. \A k \in 1..Len(nodes) : nodes[k] \in ToSet(nodes)
      BY <2>4 DEF NodesAre, ToSet
    <3> QED
      BY <3>1, <3>2 DEF Touched
  <2> HIDE DEF nodes
  <2>7. PartOf(trees[n], root) = PartOf(trees[head + i], root)
    BY <1>2, <2>4, <2>5, <2>6, PartStays
  <2> QED
    BY <2>1, <2>2, <2>7
<1> HIDE DEF T, M
<1>6. M \in T
  <2>1. 0..M \subseteq T
    BY <1>3, <1>4, <1>5, BoundedInduction
  <2>2. M \in 0..M
    BY <1>3
  <2> QED
    BY <2>1, <2>2
<1>7. PartOf(trees[head + M], root) = PartOf(trees[head], root)
  BY <1>6 DEF T
<1> QED
  BY <1>1, <1>3, <1>7 DEF head

(* What was lost is counted once, unless there is none.                    *)
LEMMA DropsTell ==
    ASSUME NEW what, NEW count
    PROVE  /\ Drop(what, count).what = what /\ Drop(what, count).count = count
           /\ \A x \in DropIfAny(what, count) : x = Drop(what, count) /\ x.what = what
PROOF
<1>1. Drop(what, count).what = what /\ Drop(what, count).count = count
  BY DEF Drop
<1>2. \A x \in DropIfAny(what, count) : x = Drop(what, count)
  BY Zenon DEF DropIfAny
<1> QED
  BY <1>1, <1>2, Zenon

LEMMA SomeIfAny ==
    ASSUME NEW what, NEW count \in Nat
    PROVE  DropIfAny(what, count) = IF count = 0 THEN {} ELSE {Drop(what, count)}
PROOF
<1>1. count > 0 <=> count # 0
  OBVIOUS
<1> QED
  BY <1>1, Zenon DEF DropIfAny

DropsWith(properties, empty, lost, dates) ==
    {Drop("framing", 1)}
    \cup {Drop(what, 1) : what \in properties}
    \cup DropIfAny("empty directories", empty)
    \cup DropIfAny("deleted or moved roots", lost)
    \cup DropIfAny("dates", dates)

CountsLost(drops, counts) == {d.count : d \in {x \in drops : x.what = "deleted or moved roots"}} = counts

LEMMA LostAreCounted ==
    ASSUME NEW properties, "deleted or moved roots" \notin properties, NEW empty, NEW dates, NEW lost \in Nat
    PROVE  CountsLost(DropsWith(properties, empty, lost, dates), {lost} \ {0})
PROOF
<1> USE DEF CountsLost, DropsWith
<1> DEFINE some == DropIfAny("deleted or moved roots", lost)
           told == {x \in {Drop("framing", 1)}
                        \cup {Drop(what, 1) : what \in properties}
                        \cup DropIfAny("empty directories", empty)
                        \cup some
                        \cup DropIfAny("dates", dates) : x.what = "deleted or moved roots"}
<1>1. some = IF lost = 0 THEN {} ELSE {Drop("deleted or moved roots", lost)}
  BY SomeIfAny
<1> HIDE DEF some
<1>2. told = some
  <2>1. \A x \in DropIfAny("empty directories", empty) : x.what = "empty directories"
    BY DropsTell, Zenon
  <2>2. \A x \in DropIfAny("dates", dates) : x.what = "dates"
    BY DropsTell, Zenon
  <2>3. \A x \in some : x.what = "deleted or moved roots"
    BY DropsTell, Zenon DEF some
  <2>4. ASSUME NEW x \in {Drop(what, 1) : what \in properties} PROVE x.what \in properties
    <3>1. PICK what \in properties : x = Drop(what, 1)
      OBVIOUS
    <3> QED
      BY <3>1, DropsTell, Zenon
  <2>5. Drop("framing", 1).what = "framing"
    BY DropsTell, Zenon
  <2> QED
    BY <2>1, <2>2, <2>3, <2>4, <2>5
<1>3. CASE lost = 0
  <2>1. some = {}
    BY <1>1, <1>3, Zenon
  <2> HIDE DEF told
  <2> QED
    BY <1>2, <1>3, <2>1 DEF told, some
<1>4. CASE lost # 0
  <2>1. some = {Drop("deleted or moved roots", lost)}
    BY <1>1, <1>4, Zenon
  <2>2. Drop("deleted or moved roots", lost).count = lost
    BY DropsTell, Zenon
  <2> HIDE DEF told
  <2>3. {d.count : d \in told} = {lost}
    BY <1>2, <2>1, <2>2
  <2> QED
    BY <1>4, <2>3 DEF told, some
<1> QED
  BY <1>3, <1>4

LEMMA SvnRefsFollow == KindInv /\ SvnInv => SvnRefsShowRoots
PROOF
<1> SUFFICES ASSUME KindInv, SvnInv, stage = "done", input.kind = "svn", input.refs, dump.revisions # <<>>
             PROVE  SvnRefsShowRoots
  BY DEF SvnRefsShowRoots
<1> DEFINE trees == ReplayedTrees
           last == Len(builder.atoms)
           Nodes(n) == ToSet(dump.revisions[n].nodes)
           touched == UNION {UNION {RootOf(x.path) : x \in Nodes(n)} : n \in 1..last}
           Part(n, root) == [p \in {q \in DOMAIN trees[n] : Beneath(root.prefix, q)} |-> trees[n][p]]
           NamedBy(root) == {r \in builder.refs : r.kind = root.kind /\ r.name = root.name}
           alive == {root \in touched : DOMAIN Part(last, root) # {}}
           fromAbove(root, n) == \E x \in Nodes(n) : Len(x.path) < Len(root.prefix) /\ Beneath(x.path, root.prefix)
<1>1. DumpIs /\ LossIs /\ TreesRight /\ last = Len(dump.revisions) /\ ~RootsCollide
      /\ builder.refs = SvnRefs /\ builder.drops = SvnDrops
  BY DEF SvnInv, OfSvn, RefsRight
<1>2. /\ IsHeads(heads, dump.revisions, last)
      /\ Files(live) = TreeUnder(trees, NextAtom)
      /\ \A n \in 1..last : FitsTree(n, builder.atoms[n], dump.revisions[n], trees, trees[n])
  BY <1>1 DEF TreesRight, AllFit, ReplayedTrees
<1>3. last \in Nat /\ last # 0 /\ NextAtom = last + 1
  <2>1. dump.revisions \in Seq(ToSet(dump.revisions)) /\ Len(dump.revisions) \in Nat
    BY <1>1 DEF DumpIs
  <2>2. Len(dump.revisions) # 0
    BY <2>1
  <2> QED
    BY <1>1, <2>1, <2>2 DEF NextAtom
<1> HIDE DEF last, trees
<1>4. \A n, root : Part(n, root) = PartOf(trees[n], root)
  BY DEF PartOf
<1>5. touched = DOMAIN heads
  BY <1>2 DEF IsHeads, Touched
<1>6. Files(live) = trees[last]
  <2>1. last + 1 # 1 /\ last + 1 - 1 = last
    BY <1>3
  <2> QED
    BY <1>2, <1>3, <2>1 DEF TreeUnder
<1>7. LiveRoots = alive
  <2>1. DOMAIN trees[last] = DOMAIN live
    BY <1>6, FilesAgree
  <2>2. \A root : IsLive(live, root.prefix) <=> DOMAIN Part(last, root) # {}
    BY <2>1 DEF IsLive
  <2> HIDE DEF Part, touched
  <2> QED
    BY <1>5, <2>2 DEF LiveRoots
<1>8. \A root \in alive : heads[root] \in 1..last
                          /\ ((\A n \in (heads[root] + 1)..last : ~fromAbove(root, n))
                                  => Part(heads[root], root) = Part(last, root))
  <2> TAKE root \in alive
  <2>1. root \in DOMAIN heads
    BY <1>5
  <2>2. heads[root] \in 1..last
    BY <1>2, <2>1 DEF IsHeads
  <2>3. AllAlone(dump.revisions, trees, last)
    <3>1. \A n \in 1..last : NodesAre(dump.revisions[n].nodes)
      BY <1>1 DEF DumpIs, RevisionIs
    <3> QED
      BY <1>2, <3>1 DEF FitsTree, RevisionShown, AllAlone
  <2>4. \A n : fromAbove(root, n) <=> IsFromAbove(dump.revisions[n].nodes, root)
    BY DEF IsFromAbove
  <2>5. ASSUME \A n \in (heads[root] + 1)..last : ~fromAbove(root, n)
        PROVE  PartOf(trees[heads[root]], root) = PartOf(trees[last], root)
    <3>1. StaysBelow(dump.revisions, root, heads[root], last)
      BY <2>4, <2>5, Zenon DEF StaysBelow
    <3>2. IsHeads(heads, dump.revisions, last) /\ last \in Nat
      BY <1>2, <1>3
    <3> QED
      BY <2>1, <2>3, <3>1, <3>2, HeadShows
  <2> QED
    BY <1>4, <2>2, <2>5
<1> HIDE DEF alive, touched, Part, fromAbove
<1> DEFINE RefTo(root) == Ref(root.kind, root.name, heads[root], Derived("ReconstructedBranch"), <<>>)
<1>9. builder.refs = {RefTo(root) : root \in alive}
  BY <1>1, <1>7 DEF SvnRefs
<1>10. \A root : RefTo(root).kind = root.kind /\ RefTo(root).name = root.name /\ RefTo(root).target = heads[root]
  BY DEF Ref
<1>11. \A one, other \in alive : one.kind = other.kind /\ one.name = other.name => one = other
  BY <1>1, <1>7 DEF RootsCollide
<1> HIDE DEF RefTo
<1>12. ASSUME NEW root \in alive
       PROVE  RefTo(root) \in builder.refs /\ NamedBy(root) = {RefTo(root)} /\ RefTo(root) \in NamedBy(root)
  <2>1. RefTo(root) \in NamedBy(root) /\ RefTo(root) \in builder.refs
    BY <1>9, <1>10
  <2>2. \A r \in NamedBy(root) : r = RefTo(root)
    BY <1>9, <1>10, <1>11
  <2> QED
    BY <2>1, <2>2
<1>13. \A root \in alive : \E r \in builder.refs :
          /\ NamedBy(root) = {r}
          /\ (\A n \in (r.target + 1)..last : ~fromAbove(root, n)) => Part(r.target, root) = Part(last, root)
  <2> TAKE root \in alive
  <2> HIDE DEF NamedBy
  <2>1. RefTo(root) \in builder.refs /\ NamedBy(root) = {RefTo(root)} /\ RefTo(root).target = heads[root]
    BY <1>10, <1>12
  <2>2. (\A n \in (RefTo(root).target + 1)..last : ~fromAbove(root, n))
            => Part(RefTo(root).target, root) = Part(last, root)
    BY <1>8, <2>1
  <2> QED
    BY <2>1, <2>2
<1>14. \A r \in builder.refs : \E root \in alive : r \in NamedBy(root)
  BY <1>9, <1>12
<1>15. \A one, other \in alive : NamedBy(one) = NamedBy(other) => one = other
  <2> TAKE one \in alive, other \in alive
  <2>1. NamedBy(one) = {RefTo(one)} /\ NamedBy(other) = {RefTo(other)}
    BY <1>12
  <2> HIDE DEF NamedBy
  <2>2. NamedBy(one) = NamedBy(other) => RefTo(one) = RefTo(other)
    BY <2>1
  <2> QED
    BY <1>10, <1>11, <2>2
<1>16. {d.count : d \in {x \in builder.drops : x.what = "deleted or moved roots"}}
          = {Cardinality(touched \ alive)} \ {0}
  <2> DEFINE lost == Cardinality(DOMAIN heads \ LiveRoots)
  <2>1. lost = Cardinality(touched \ alive)
    BY <1>5, <1>7
  <2>2. lost \in Nat
    <3>1. IsFiniteSet(DOMAIN heads)
      BY <1>2 DEF IsHeads
    <3>2. IsFiniteSet(DOMAIN heads \ LiveRoots)
      BY <3>1, FS_Subset
    <3> QED
      BY <3>2, FS_CardinalityType
  <2> HIDE DEF lost
  <2>3. builder.drops = DropsWith(svnLoss.properties, svnLoss.emptyDirs, lost, svnLoss.dates)
    BY <1>1 DEF SvnDrops, DropsWith, lost
  <2>4. svnLoss.properties \subseteq {"svn:mergeinfo", "workflow", "custom"}
    BY <1>1 DEF LossIs
  <2>5. "deleted or moved roots" \notin svnLoss.properties
    BY <2>4
  <2>6. CountsLost(builder.drops, {lost} \ {0})
    <3>1. CountsLost(DropsWith(svnLoss.properties, svnLoss.emptyDirs, lost, svnLoss.dates), {lost} \ {0})
      BY <2>2, <2>5, LostAreCounted, Zenon
    <3> QED
      BY <2>3, <3>1, Zenon
  <2> QED
    BY <2>1, <2>6, Zenon DEF CountsLost
<1> QED
  BY <1>13, <1>14, <1>15, <1>16 DEF SvnRefsShowRoots, last, trees, touched, Part, NamedBy, alive, fromAbove

\* Whatever the dump: when a Subversion import with refs is done, each root of the
\* layout that was touched and still has files has one ref of its own, which names
\* where the root was last as it is, and the other roots are counted.
THEOREM SvnRefsAreTheirRoots == Spec => []SvnRefsShowRoots
PROOF
  BY SvnInvHolds, KindInvHolds, SvnRefsFollow, PTL
=============================================================================
