--------------------------- MODULE CommandsProofs ---------------------------
(***************************************************************************)
(* For any number of invocations, files and names: temporary files are     *)
(* never shared, only a kill leaves one, what a transform puts at its      *)
(* output was accepted from what brygge read, exit codes tell what landed, *)
(* and the outputs are atomic in the sense of AtomicOutput.                *)
(*                                                                         *)
(* What holds of an invocation speaks of its own variables and of its own  *)
(* temporary file only.  So a step has to be looked at for the invocation  *)
(* that takes it, and one lemma carries the others over.                   *)
(***************************************************************************)
EXTENDS Commands, TLAPS

OwnsTemp(p) ==
    \/ pc[p] \in {"write", "sync", "judge", "rename"}
    \/ pc[p] \in {"spawn", "plugin"} /\ Cmd(p) = "transform"

(* Which command is where, and when it owns a temporary file.              *)
Stage(p) ==
    /\ pc[p] \in {"write", "sync", "settle", "report"} => Cmd(p) = "decode"
    /\ pc[p] \in {"verify", "spawn", "plugin", "orphaned"} => Cmd(p) # "decode"
    /\ pc[p] \in {"read", "judge"} => Cmd(p) = "transform"
    /\ pc[p] \in {"create", "rename"} => Cmd(p) # "encode"
    /\ pc[p] \in {"start", "create", "settle", "report", "verify", "read", "done"} => mine[p] = {}
    /\ Cmd(p) = "encode" => mine[p] = {}
    /\ OwnsTemp(p) => mine[p] # {}

(* What it has read, and what its temporary file holds of it.              *)
Holds(p) ==
    /\ \A t \in mine[p] : temp[t].data # Nothing
    /\ (Cmd(p) = "decode" /\ pc[p] \in {"create", "write", "sync", "rename", "settle", "report"}) =>
          input[p] \in Decoded
    /\ (Cmd(p) = "transform"
          /\ pc[p] \in {"create", "spawn", "plugin", "judge", "rename", "orphaned"}) =>
          input[p] \in Artifacts \ Twins
    /\ \A t \in mine[p] :
          /\ (Cmd(p) = "decode" /\ pc[p] \in {"sync", "rename"}) => temp[t].data = input[p]
          /\ (Cmd(p) = "decode" /\ pc[p] = "rename") => temp[t].synced
          /\ (Cmd(p) = "transform" /\ pc[p] = "rename") =>
                temp[t].data \in Sound /\ <<input[p], temp[t].data>> \in Accepts
          /\ (Cmd(p) = "transform" /\ p \in Library /\ temp[t].data # Partial) =>
                \E x \in seen[p] : <<x, temp[t].data>> \in Accepts

(* What it has put at its output, and what it says of it.                  *)
Told(p) ==
    /\ pc[p] \notin {"settle", "report", "done", "crashed"} => landed[p] = {}
    /\ pc[p] # "done" => exit[p] = {}
    /\ (Cmd(p) = "decode" /\ pc[p] \in {"settle", "report"}) => landed[p] = {input[p]}
    /\ Cmd(p) = "transform" => \A data \in landed[p] :
          /\ pc[p] = "done"
          /\ data \in Sound /\ <<input[p], data>> \in Accepts /\ input[p] \notin Twins
          /\ (p \in Library /\ seen[p] # {}) => seen[p] = {input[p]}
    /\ (Cmd(p) # "encode" /\ pc[p] = "done") => \A code \in exit[p] :
          IF landed[p] # {}
          THEN \A a \in landed[p] : code = LossClass[a] \/ (Cmd(p) = "decode" /\ code = FAILURE)
          ELSE code \in {FAILURE, USAGE, FLOOR_REFUSAL, VERIFY_FAILED} \cup PluginCodes

Sane(p) == Stage(p) /\ Holds(p) /\ Told(p)

(* Only a transform's output may not have reached the disk.                *)
UnsyncedIsTransforms ==
    \A f \in Files : (~file[f].synced \/ ~disk[f].synced) => f \in OutsOf("transform")

IInv ==
    /\ TypeOK
    /\ \A p \in Jobs : Sane(p)
    /\ TempsAreApart
    /\ OnlyCrashesLeaveTemps
    /\ UnsyncedIsTransforms

-----------------------------------------------------------------------------
(* The typing facts the steps below rest on.                               *)

LEMMA JobTyped ==
    ASSUME TypeOK, NEW p \in Jobs
    PROVE  /\ job[p] \in [cmd : {"decode", "transform", "encode"}, artifact : Files, out : Files]
           /\ Cmd(p) \in {"decode", "transform", "encode"}
           /\ job[p].artifact \in Files /\ job[p].out \in Files
<1>1. job[p] \in [cmd : {"decode", "transform", "encode"}, artifact : Files, out : Files]
  BY CommandAssumptions DEF TypeOK
<1> QED
  BY <1>1 DEF Cmd

LEMMA NameTyped ==
    ASSUME TypeOK, NEW p \in Jobs
    PROVE  TempName(p) \in TempNames
  BY JobTyped DEF TypeOK, TempName, TempNames

LEMMA MissingIsAFile ==
    /\ Missing \in FileState /\ Missing.data = Nothing /\ Missing.synced
    /\ [data |-> Partial, synced |-> FALSE] \in FileState
    /\ [data |-> Partial, synced |-> FALSE].data # Nothing
    /\ [data |-> Partial, synced |-> FALSE].data = Partial
  BY CommandAssumptions DEF Missing, FileState, Contents

LEMMA SaneHolds ==
    ASSUME IInv, NEW p \in Jobs
    PROVE  TypeOK /\ Sane(p) /\ Stage(p) /\ Holds(p) /\ Told(p) /\ mine[p] \subseteq TempNames
<1>1. TypeOK /\ Sane(p)
  BY DEF IInv
<1>2. mine[p] \in {{}} \cup {{t} : t \in TempNames}
  BY <1>1 DEF TypeOK
<1> QED
  BY <1>1, <1>2 DEF Sane

(* An invocation that owns a temporary file owns one, and Held is it.      *)
LEMMA HeldIs ==
    ASSUME TypeOK, NEW p \in Jobs, mine[p] # {}
    PROVE  \E t \in TempNames : mine[p] = {t} /\ Held(p) = temp[t] /\ temp[t] \in FileState
<1>1. PICK t \in TempNames : mine[p] = {t}
  BY DEF TypeOK
<1>2. {temp[u] : u \in mine[p]} = {temp[t]}
  BY <1>1
<1>3. Held(p) = temp[t]
  BY <1>2 DEF Held
<1> QED
  BY <1>1, <1>3 DEF TypeOK

-----------------------------------------------------------------------------
(* What a step of p may do to anything that is not p's.                    *)
Frame(p) ==
    /\ \A q \in Jobs \ {p} :
          /\ pc'[q] = pc[q] /\ mine'[q] = mine[q] /\ input'[q] = input[q]
          /\ seen'[q] = seen[q] /\ landed'[q] = landed[q] /\ exit'[q] = exit[q]
    /\ \/ mine'[p] = mine[p]
       \/ mine'[p] = {}
       \/ mine[p] = {} /\ \E t \in TempNames : temp[t] = Missing /\ mine'[p] = {t}
    /\ \A t \in TempNames : t \notin mine[p] /\ t \notin mine'[p] => temp'[t] = temp[t]
    /\ \A t \in mine[p] : t \in mine'[p] \/ temp'[t] = Missing
    /\ UNCHANGED job

(* The frame suffices for every invocation but p, and for what relates     *)
(* them.                                                                   *)
LEMMA FrameKeepsOthers ==
    ASSUME IInv, TypeOK', NEW p \in Jobs, Frame(p), Sane(p)'
    PROVE  (\A q \in Jobs : Sane(q))' /\ TempsAreApart' /\ OnlyCrashesLeaveTemps'
<1>1. \A q \in Jobs : \A t \in mine[q] : t \in TempNames /\ temp[t] # Missing
  <2> SUFFICES ASSUME NEW q \in Jobs, NEW t \in mine[q] PROVE t \in TempNames /\ temp[t] # Missing
    OBVIOUS
  <2>1. temp[t].data # Nothing
    BY DEF IInv, Sane, Holds
  <2>2. mine[q] \in {{}} \cup {{u} : u \in TempNames}
    BY DEF IInv, TypeOK
  <2> QED
    BY <2>1, <2>2, MissingIsAFile
<1>2. TempsAreApart'
  <2> SUFFICES ASSUME NEW q \in Jobs, NEW r \in Jobs, q # r PROVE mine'[q] \cap mine'[r] = {}
    BY DEF TempsAreApart
  <2>1. mine[q] \cap mine[r] = {}
    BY DEF IInv, TempsAreApart
  <2>2. CASE q # p /\ r # p
    BY <2>1, <2>2 DEF Frame
  <2>3. CASE q = p
    BY <2>1, <2>3, <1>1 DEF Frame
  <2>4. CASE r = p
    BY <2>1, <2>4, <1>1 DEF Frame
  <2> QED
    BY <2>2, <2>3, <2>4
<1>3. ASSUME NEW q \in Jobs \ {p}, NEW t \in mine[q]
      PROVE  temp'[t] = temp[t]
  <2>1. t \in TempNames /\ t \notin mine[p] /\ t \in mine'[q]
    BY <1>1 DEF IInv, TempsAreApart, Frame
  <2>2. t \notin mine'[p]
    BY <2>1, <1>2 DEF TempsAreApart
  <2> QED
    BY <2>1, <2>2 DEF Frame
<1>4. (\A q \in Jobs : Sane(q))'
  <2> SUFFICES ASSUME NEW q \in Jobs \ {p} PROVE Sane(q)'
    OBVIOUS
  <2>1. Sane(q) /\ job' = job /\ mine'[q] = mine[q] /\ pc'[q] = pc[q] /\ input'[q] = input[q]
        /\ seen'[q] = seen[q] /\ landed'[q] = landed[q] /\ exit'[q] = exit[q]
    BY DEF IInv, Frame
  <2>2. Stage(q)'
    BY <2>1 DEF Sane, Stage, OwnsTemp, Cmd
  <2>3. Holds(q)'
    BY <2>1, <1>3, ZenonT(40) DEF Sane, Holds, Cmd
  <2>4. Told(q)'
    BY <2>1 DEF Sane, Told, Cmd
  <2> QED
    BY <2>2, <2>3, <2>4 DEF Sane
<1>5. OnlyCrashesLeaveTemps'
  <2> SUFFICES ASSUME NEW t \in TempNames, temp'[t] # Missing
               PROVE  \E q \in Jobs : t \in mine'[q] /\ pc'[q] # "done"
    BY DEF OnlyCrashesLeaveTemps, Missing
  <2>1. mine'[p] # {} => pc'[p] # "done"
    BY DEF Sane, Stage
  <2>2. CASE t \in mine'[p]
    BY <2>1, <2>2
  <2>3. CASE t \notin mine'[p]
    <3>1. t \notin mine[p] /\ temp'[t] = temp[t]
      BY <2>3 DEF Frame
    <3>2. PICK q \in Jobs : t \in mine[q] /\ pc[q] # "done"
      BY <3>1 DEF IInv, OnlyCrashesLeaveTemps
    <3> QED
      BY <3>1, <3>2 DEF Frame
  <2> QED
    BY <2>2, <2>3
<1> QED
  BY <1>2, <1>4, <1>5
-----------------------------------------------------------------------------
(* The shapes of a step: to return, to give up, to create, to go on.       *)
Keeps(p) == TypeOK' /\ Frame(p) /\ Sane(p)'

Refusals == {FAILURE, USAGE, FLOOR_REFUSAL, VERIFY_FAILED} \cup PluginCodes

LEMMA RefusalsAreCodes == Refusals \subseteq ExitCodes /\ CLEAN \in ExitCodes
  BY DEF Refusals, ExitCodes

LEMMA ReturnKeeps ==
    ASSUME IInv, NEW p \in Jobs, UNCHANGED job, NEW code \in ExitCodes, ReturnOnly(p, code),
           mine[p] = {}, landed[p] = {}, Cmd(p) = "encode" \/ code \in Refusals
    PROVE  Keeps(p)
<1>1. TypeOK /\ Sane(p)
  BY DEF IInv
<1>2. TypeOK'
  BY <1>1 DEF TypeOK, ReturnOnly, Return, Goto, files, Ended
<1>3. Frame(p)
  BY <1>1 DEF TypeOK, ReturnOnly, Return, Goto, files, Frame
<1>4. pc'[p] = "done" /\ exit'[p] = {code} /\ landed'[p] = {} /\ mine'[p] = {} /\ Cmd(p)' = Cmd(p)
  BY <1>1 DEF TypeOK, ReturnOnly, Return, Goto, Cmd
<1>5. Sane(p)'
  BY <1>1, <1>4, RefusalsAreCodes DEF Sane, Stage, Holds, Told, OwnsTemp, Refusals
<1> QED
  BY <1>2, <1>3, <1>5 DEF Keeps

LEMMA AbandonKeeps ==
    ASSUME IInv, NEW p \in Jobs, UNCHANGED job, NEW code \in ExitCodes, Abandon(p, code),
           landed[p] = {}, Cmd(p) = "encode" \/ code \in Refusals
    PROVE  Keeps(p)
<1>1. TypeOK /\ Sane(p)
  BY DEF IInv
<1>2. TypeOK'
  BY <1>1, MissingIsAFile DEF TypeOK, Abandon, Return, Goto, Ended
<1>3. Frame(p)
  <2>1. mine[p] \subseteq TempNames
    BY <1>1 DEF TypeOK
  <2> QED
    BY <1>1, <2>1 DEF TypeOK, Abandon, Return, Goto, Frame
<1>4. pc'[p] = "done" /\ exit'[p] = {code} /\ landed'[p] = {} /\ mine'[p] = {} /\ Cmd(p)' = Cmd(p)
  BY <1>1 DEF TypeOK, Abandon, Return, Goto, Cmd
<1>5. Sane(p)'
  BY <1>1, <1>4, RefusalsAreCodes DEF Sane, Stage, Holds, Told, OwnsTemp, Refusals
<1> QED
  BY <1>2, <1>3, <1>5 DEF Keeps

(* A step that moves p's program counter and what it has read, nothing     *)
(* else; what is left to show is what is now true of p.                    *)
LEMMA GoOnKeeps ==
    ASSUME IInv, NEW p \in Jobs, UNCHANGED job,
           NEW step \in {"create", "sync", "rename", "settle", "report", "verify", "read", "spawn",
                         "plugin", "judge", "orphaned", "crashed"},
           Goto(p, step), UNCHANGED <<file, temp, stamp, attempt, mine, landed, exit, losses>>,
           disk' \in {disk, file},
           NEW in \in Artifacts \cup {Nothing}, input' = [input EXCEPT ![p] = in],
           UNCHANGED seen
    PROVE  /\ TypeOK' /\ Frame(p)
           /\ pc'[p] = step /\ input'[p] = in /\ Cmd(p)' = Cmd(p)
<1>1. TypeOK
  BY DEF IInv
<1>2. TypeOK'
  BY <1>1 DEF TypeOK, Goto, Ended
<1>3. Frame(p)
  BY <1>1 DEF TypeOK, Goto, Frame
<1> QED
  BY <1>1, <1>2, <1>3 DEF TypeOK, Goto, Cmd

LEMMA CreateKeeps ==
    ASSUME IInv, NEW p \in Jobs, UNCHANGED job, NEW step \in {"write", "spawn"},
           Create(p, step), ~Taken(p), pc[p] = "create",
           step = "write" <=> Cmd(p) = "decode"
    PROVE  Keeps(p)
<1>1. TypeOK /\ Sane(p) /\ TempName(p) \in TempNames
  BY NameTyped DEF IInv
<1>2. TypeOK'
  <2>1. temp' \in [TempNames -> FileState]
    BY <1>1, MissingIsAFile DEF TypeOK, Create
  <2>2. mine' \in [Jobs -> {{}} \cup {{t} : t \in TempNames}]
    BY <1>1 DEF TypeOK, Create
  <2> QED
    BY <1>1, <2>1, <2>2 DEF TypeOK, Create, Goto, Ended
<1>3. /\ pc'[p] = step /\ mine[p] = {} /\ mine'[p] = {TempName(p)} /\ Cmd(p)' = Cmd(p)
      /\ temp'[TempName(p)] = [data |-> Partial, synced |-> FALSE]
      /\ temp[TempName(p)] = Missing
  BY <1>1 DEF TypeOK, Create, Goto, Cmd, Sane, Stage, Taken
<1>4. Frame(p)
  BY <1>1, <1>3 DEF TypeOK, Create, Goto, Frame
<1>5. Stage(p)'
  BY <1>1, <1>3, JobTyped DEF Sane, Stage, OwnsTemp
<1>6. Holds(p)'
  BY <1>1, <1>3, MissingIsAFile DEF Sane, Holds, Create, Stage
<1>7. Told(p)'
  BY <1>1, <1>3 DEF Sane, Told, Create
<1> QED
  BY <1>2, <1>4, <1>5, <1>6, <1>7 DEF Keeps, Sane

-----------------------------------------------------------------------------
(* decode.                                                                 *)

LEMMA DecodeKeeps ==
    ASSUME IInv, NEW p \in Jobs, UNCHANGED job, Decode(p)
    PROVE  Keeps(p)
<1>1. /\ TypeOK /\ Sane(p) /\ pc[p] = "start" /\ Cmd(p) = "decode"
      /\ mine[p] = {} /\ landed[p] = {} /\ exit[p] = {}
  BY DEF IInv, Sane, Stage, Told, Decode
<1>2. CASE \E code \in {FAILURE, USAGE, FLOOR_REFUSAL} : ReturnOnly(p, code)
  BY <1>1, <1>2, ReturnKeeps, RefusalsAreCodes DEF Refusals
<1>3. ASSUME NEW a \in Decoded, input' = [input EXCEPT ![p] = a], Goto(p, "create"),
             UNCHANGED <<files, stamp, attempt, mine, seen, landed, exit, losses>>
      PROVE  Keeps(p)
  <2>1. TypeOK' /\ Frame(p) /\ pc'[p] = "create" /\ input'[p] = a /\ Cmd(p)' = Cmd(p)
    <3>1. TypeOK'
      BY <1>1, <1>3, CommandAssumptions DEF TypeOK, Goto, files, Ended
    <3>2. Frame(p)
      BY <1>1, <1>3 DEF TypeOK, Goto, files, Frame
    <3> QED
      BY <1>1, <1>3, <3>1, <3>2 DEF TypeOK, Goto, Cmd
  <2>2. Sane(p)'
    BY <1>1, <1>3, <2>1 DEF Sane, Stage, Holds, Told, OwnsTemp
  <2> QED
    BY <2>1, <2>2 DEF Keeps
<1> QED
  BY <1>2, <1>3 DEF Decode

LEMMA CreateDecodeTempKeeps ==
    ASSUME IInv, NEW p \in Jobs, UNCHANGED job, CreateDecodeTemp(p)
    PROVE  Keeps(p)
<1>1. pc[p] = "create" /\ Cmd(p) = "decode" /\ mine[p] = {} /\ landed[p] = {}
  BY DEF IInv, Sane, Stage, Told, CreateDecodeTemp
<1>2. CASE ~Taken(p) /\ Create(p, "write")
  BY <1>1, <1>2, CreateKeeps
<1>3. CASE ReturnOnly(p, FAILURE)
  BY <1>1, <1>3, ReturnKeeps, RefusalsAreCodes DEF Refusals
<1> QED
  BY <1>2, <1>3 DEF CreateDecodeTemp

LEMMA WriteBodyKeeps ==
    ASSUME IInv, NEW p \in Jobs, UNCHANGED job, WriteBody(p)
    PROVE  Keeps(p)
<1>1. /\ TypeOK /\ Sane(p) /\ pc[p] = "write" /\ Cmd(p) = "decode" /\ landed[p] = {}
      /\ exit[p] = {} /\ mine[p] # {} /\ input[p] \in Decoded /\ mine[p] \subseteq TempNames
  BY SaneHolds DEF Stage, Holds, Told, OwnsTemp, WriteBody
<1>2. CASE Abandon(p, FAILURE)
  BY <1>1, <1>2, AbandonKeeps, RefusalsAreCodes DEF Refusals
<1>3. CASE /\ Write(p, input[p])
           /\ Goto(p, "sync")
           /\ UNCHANGED <<file, disk, stamp, attempt, mine, input, seen, landed, exit, losses>>
  <2>1. input[p] \in Artifacts /\ input[p] # Nothing
        /\ [data |-> input[p], synced |-> FALSE] \in FileState
    BY <1>1, CommandAssumptions DEF FileState, Contents
  <2>2. TypeOK'
    BY <1>1, <1>3, <2>1 DEF TypeOK, Goto, Ended, Write
  <2>3. Frame(p)
    BY <1>1, <1>3 DEF TypeOK, Goto, Frame, Write
  <2>4. pc'[p] = "sync" /\ Cmd(p)' = Cmd(p) /\ input'[p] = input[p] /\ mine'[p] = mine[p]
        /\ \A t \in mine[p] : temp'[t].data = input[p]
    BY <1>1, <1>3 DEF TypeOK, Goto, Cmd, Write
  <2>5. Sane(p)'
    BY <1>1, <1>3, <2>1, <2>4 DEF Sane, Stage, Holds, Told, OwnsTemp
  <2> QED
    BY <2>2, <2>3, <2>5 DEF Keeps
<1> QED
  BY <1>2, <1>3 DEF WriteBody

LEMMA SyncBodyKeeps ==
    ASSUME IInv, NEW p \in Jobs, UNCHANGED job, SyncBody(p)
    PROVE  Keeps(p)
<1>1. /\ TypeOK /\ Sane(p) /\ pc[p] = "sync" /\ Cmd(p) = "decode" /\ landed[p] = {}
      /\ exit[p] = {} /\ mine[p] # {} /\ input[p] \in Decoded /\ mine[p] \subseteq TempNames
  BY SaneHolds DEF Stage, Holds, Told, OwnsTemp, SyncBody
<1>2. CASE Abandon(p, FAILURE)
  BY <1>1, <1>2, AbandonKeeps, RefusalsAreCodes DEF Refusals
<1>3. CASE /\ SyncAll(p)
           /\ Goto(p, "rename")
           /\ UNCHANGED <<file, disk, stamp, attempt, mine, input, seen, landed, exit, losses>>
  <2>1. \A t \in TempNames : [temp[t] EXCEPT !.synced = TRUE] \in FileState
    BY <1>1 DEF TypeOK, FileState
  <2>2. TypeOK'
    BY <1>1, <1>3, <2>1 DEF TypeOK, Goto, Ended, SyncAll
  <2>3. Frame(p)
    BY <1>1, <1>3 DEF TypeOK, Goto, Frame, SyncAll
  <2>4. pc'[p] = "rename" /\ Cmd(p)' = Cmd(p) /\ input'[p] = input[p] /\ mine'[p] = mine[p]
        /\ \A t \in mine[p] : temp'[t].data = temp[t].data /\ temp'[t].synced
    BY <1>1, <1>3 DEF TypeOK, Goto, Cmd, SyncAll, FileState
  <2>5. Sane(p)'
    BY <1>1, <1>3, <2>4 DEF Sane, Stage, Holds, Told, OwnsTemp
  <2> QED
    BY <2>2, <2>3, <2>5 DEF Keeps
<1> QED
  BY <1>2, <1>3 DEF SyncBody

LEMMA LandTyped ==
    ASSUME IInv, NEW p \in Jobs, mine[p] # {}, Land(p)
    PROVE  /\ file' \in [Files -> FileState] /\ temp' \in [TempNames -> FileState]
           /\ mine' = [mine EXCEPT ![p] = {}]
           /\ landed' \in [Jobs -> {{}} \cup {{d} : d \in Contents}]
           /\ \A t \in TempNames : t \notin mine[p] => temp'[t] = temp[t]
           /\ \A t \in mine[p] : temp'[t] = Missing
           /\ landed'[p] = {Held(p).data} /\ Held(p).data \in Contents
<1>1. TypeOK /\ mine[p] \subseteq TempNames /\ job[p].out \in Files
  BY SaneHolds, JobTyped
<1>2. PICK t \in TempNames : mine[p] = {t} /\ Held(p) = temp[t] /\ temp[t] \in FileState
  BY <1>1, HeldIs
<1>3. Held(p).data \in Contents
  BY <1>2 DEF FileState
<1>4. landed' \in [Jobs -> {{}} \cup {{d} : d \in Contents}]
  BY <1>1, <1>3 DEF TypeOK, Land
<1>5. file' \in [Files -> FileState] /\ temp' \in [TempNames -> FileState]
  BY <1>1, <1>2, MissingIsAFile DEF TypeOK, Land
<1> QED
  BY <1>1, <1>3, <1>4, <1>5 DEF TypeOK, Land

LEMMA RenameDecodeKeeps ==
    ASSUME IInv, NEW p \in Jobs, UNCHANGED job, RenameDecode(p)
    PROVE  Keeps(p)
<1>1. /\ TypeOK /\ Sane(p) /\ pc[p] = "rename" /\ Cmd(p) = "decode" /\ landed[p] = {}
      /\ exit[p] = {} /\ mine[p] # {} /\ input[p] \in Decoded /\ mine[p] \subseteq TempNames
  BY SaneHolds DEF Stage, Holds, Told, OwnsTemp, RenameDecode
<1>2. CASE Abandon(p, FAILURE)
  BY <1>1, <1>2, AbandonKeeps, RefusalsAreCodes DEF Refusals
<1>3. CASE /\ Land(p)
           /\ Goto(p, "settle")
           /\ UNCHANGED <<disk, stamp, attempt, input, seen, exit, losses>>
  <2>1. TypeOK'
    BY <1>1, <1>3, LandTyped DEF TypeOK, Goto, Ended
  <2>2. Frame(p)
    BY <1>1, <1>3, LandTyped DEF TypeOK, Goto, Frame, Land
  <2>3. PICK t \in TempNames : mine[p] = {t} /\ Held(p) = temp[t]
    BY <1>1, HeldIs
  <2>4. temp[t].data = input[p]
    BY <1>1, <2>3 DEF Sane, Holds
  <2>5. pc'[p] = "settle" /\ Cmd(p)' = Cmd(p) /\ input'[p] = input[p] /\ mine'[p] = {}
        /\ landed'[p] = {input[p]} /\ exit'[p] = {}
    BY <1>1, <1>3, <2>3, <2>4, LandTyped, ZenonT(40) DEF TypeOK, Goto, Cmd
  <2>6. Sane(p)'
    BY <1>1, <2>5 DEF Sane, Stage, Holds, Told, OwnsTemp
  <2> QED
    BY <2>1, <2>2, <2>6 DEF Keeps
<1> QED
  BY <1>2, <1>3 DEF RenameDecode

LEMMA SyncDirectoryKeeps ==
    ASSUME IInv, NEW p \in Jobs, UNCHANGED job, SyncDirectory(p)
    PROVE  Keeps(p)
<1>1. /\ TypeOK /\ Sane(p) /\ pc[p] = "settle" /\ Cmd(p) = "decode" /\ mine[p] = {}
      /\ exit[p] = {} /\ input[p] \in Decoded /\ landed[p] = {input[p]}
      /\ input[p] \in Artifacts
  BY SaneHolds, CommandAssumptions DEF Stage, Holds, Told, SyncDirectory
<1>2. input' = [input EXCEPT ![p] = input[p]]
  BY <1>1 DEF TypeOK, SyncDirectory
<1>3. TypeOK' /\ Frame(p) /\ pc'[p] = "report" /\ input'[p] = input[p] /\ Cmd(p)' = Cmd(p)
  BY <1>1, <1>2, GoOnKeeps DEF SyncDirectory
<1>4. Sane(p)'
  BY <1>1, <1>3 DEF Sane, Stage, Holds, Told, OwnsTemp, SyncDirectory
<1> QED
  BY <1>3, <1>4 DEF Keeps

LEMMA ReportKeeps ==
    ASSUME IInv, NEW p \in Jobs, UNCHANGED job, Report(p)
    PROVE  Keeps(p)
<1>1. /\ TypeOK /\ Sane(p) /\ pc[p] = "report" /\ Cmd(p) = "decode" /\ mine[p] = {}
      /\ input[p] \in Artifacts /\ landed[p] = {input[p]}
  BY SaneHolds, CommandAssumptions DEF Stage, Holds, Told, Report
<1>2. PICK code \in {LossClass[input[p]], FAILURE} : ReturnOnly(p, code)
  BY DEF Report
<1>3. code \in ExitCodes
  BY <1>1, CommandAssumptions DEF ExitCodes
<1>4. TypeOK'
  BY <1>1, <1>2, <1>3 DEF TypeOK, ReturnOnly, Return, Goto, files, Ended
<1>5. Frame(p)
  BY <1>1, <1>2 DEF TypeOK, ReturnOnly, Return, Goto, files, Frame
<1>6. pc'[p] = "done" /\ exit'[p] = {code} /\ landed'[p] = {input[p]} /\ mine'[p] = {}
      /\ Cmd(p)' = Cmd(p)
  BY <1>1, <1>2 DEF TypeOK, ReturnOnly, Return, Goto, Cmd
<1>7. Sane(p)'
  BY <1>1, <1>6 DEF Sane, Stage, Holds, Told, OwnsTemp
<1> QED
  BY <1>4, <1>5, <1>7 DEF Keeps

-----------------------------------------------------------------------------
(* transform and encode, up to their plugin.                               *)

LEMMA StartPluginKeeps ==
    ASSUME IInv, NEW p \in Jobs, UNCHANGED job, StartPlugin(p)
    PROVE  Keeps(p)
<1>1. /\ TypeOK /\ Sane(p) /\ pc[p] = "start" /\ Cmd(p) # "decode" /\ mine[p] = {}
      /\ landed[p] = {} /\ exit[p] = {} /\ input[p] \in Artifacts \cup {Nothing}
  BY SaneHolds DEF TypeOK, Stage, Told, StartPlugin
<1>2. CASE ReturnOnly(p, USAGE)
  BY <1>1, <1>2, ReturnKeeps, RefusalsAreCodes DEF Refusals
<1>3. CASE /\ Goto(p, "verify")
           /\ UNCHANGED <<files, stamp, attempt, mine, input, seen, landed, exit, losses>>
  <2>1. input' = [input EXCEPT ![p] = input[p]]
    BY <1>1, <1>3 DEF TypeOK
  <2>2. TypeOK' /\ Frame(p) /\ pc'[p] = "verify" /\ input'[p] = input[p] /\ Cmd(p)' = Cmd(p)
    BY <1>1, <1>3, <2>1, GoOnKeeps DEF files
  <2>3. Sane(p)'
    BY <1>1, <1>3, <2>2 DEF Sane, Stage, Holds, Told, OwnsTemp
  <2> QED
    BY <2>2, <2>3 DEF Keeps
<1> QED
  BY <1>2, <1>3 DEF StartPlugin

LEMMA VerifyKeeps ==
    ASSUME IInv, NEW p \in Jobs, UNCHANGED job, Verify(p)
    PROVE  Keeps(p)
<1>1. /\ TypeOK /\ Sane(p) /\ pc[p] = "verify" /\ Cmd(p) # "decode" /\ mine[p] = {}
      /\ landed[p] = {} /\ exit[p] = {} /\ input[p] \in Artifacts \cup {Nothing}
      /\ Cmd(p) \in {"transform", "encode"}
  BY SaneHolds, JobTyped DEF TypeOK, Stage, Told, Verify
<1>2. CASE ReturnOnly(p, FAILURE) \/ ReturnOnly(p, VERIFY_FAILED)
  BY <1>1, <1>2, ReturnKeeps, RefusalsAreCodes DEF Refusals
<1>3. CASE /\ Goto(p, IF Cmd(p) = "transform" THEN "read" ELSE "spawn")
           /\ UNCHANGED <<files, stamp, attempt, mine, input, seen, landed, exit, losses>>
  <2>1. input' = [input EXCEPT ![p] = input[p]]
    BY <1>1, <1>3 DEF TypeOK
  <2> DEFINE step == IF Cmd(p) = "transform" THEN "read" ELSE "spawn"
  <2>2. TypeOK' /\ Frame(p) /\ pc'[p] = step /\ input'[p] = input[p] /\ Cmd(p)' = Cmd(p)
    BY <1>1, <1>3, <2>1, GoOnKeeps DEF files
  <2>3. Sane(p)'
    BY <1>1, <1>3, <2>2 DEF Sane, Stage, Holds, Told, OwnsTemp
  <2> QED
    BY <2>2, <2>3 DEF Keeps
<1> QED
  BY <1>2, <1>3 DEF Verify

LEMMA ReadInputKeeps ==
    ASSUME IInv, NEW p \in Jobs, UNCHANGED job, ReadInput(p)
    PROVE  Keeps(p)
<1>1. /\ TypeOK /\ Sane(p) /\ pc[p] = "read" /\ Cmd(p) = "transform" /\ mine[p] = {}
      /\ landed[p] = {} /\ exit[p] = {}
  BY SaneHolds DEF Stage, Told, ReadInput
<1>2. CASE ReturnOnly(p, FAILURE) \/ ReturnOnly(p, VERIFY_FAILED)
  BY <1>1, <1>2, ReturnKeeps, RefusalsAreCodes DEF Refusals
<1>3. ASSUME NEW data \in Artifacts \ Twins, input' = [input EXCEPT ![p] = data],
             Goto(p, "create"),
             UNCHANGED <<files, stamp, attempt, mine, seen, landed, exit, losses>>
      PROVE  Keeps(p)
  <2>1. TypeOK' /\ Frame(p) /\ pc'[p] = "create" /\ input'[p] = data /\ Cmd(p)' = Cmd(p)
    BY <1>1, <1>3, GoOnKeeps DEF files
  <2>2. Sane(p)'
    BY <1>1, <1>3, <2>1 DEF Sane, Stage, Holds, Told, OwnsTemp
  <2> QED
    BY <2>1, <2>2 DEF Keeps
<1> QED
  BY <1>2, <1>3 DEF ReadInput

LEMMA CreateTransformTempKeeps ==
    ASSUME IInv, NEW p \in Jobs, UNCHANGED job, CreateTransformTemp(p)
    PROVE  Keeps(p)
<1>1. /\ TypeOK /\ Sane(p) /\ pc[p] = "create" /\ Cmd(p) = "transform" /\ mine[p] = {}
      /\ landed[p] = {} /\ exit[p] = {}
  BY SaneHolds DEF Stage, Told, CreateTransformTemp
<1>2. CASE ~Taken(p) /\ Create(p, "spawn")
  BY <1>1, <1>2, CreateKeeps
<1>3. CASE ReturnOnly(p, FAILURE)
  BY <1>1, <1>3, ReturnKeeps, RefusalsAreCodes DEF Refusals
<1>4. CASE /\ AttemptsLeft(p)
           /\ NextAttempt(p)
           /\ UNCHANGED <<files, pc, stamp, mine, input, seen, landed, exit, losses>>
  <2>1. attempt[p] + 1 \in 0..(MaxAttempts - 1)
    BY <1>1, <1>4, CommandAssumptions DEF TypeOK, AttemptsLeft
  <2>2. TypeOK'
    BY <1>1, <1>4, <2>1 DEF TypeOK, NextAttempt, files, Ended
  <2>3. Frame(p) /\ Cmd(p)' = Cmd(p)
    BY <1>4 DEF Frame, files, Cmd
  <2>4. Sane(p)'
    BY <1>1, <1>4, <2>3 DEF Sane, Stage, Holds, Told, OwnsTemp, files
  <2> QED
    BY <2>2, <2>3, <2>4 DEF Keeps
<1> QED
  BY <1>2, <1>3, <1>4 DEF CreateTransformTemp

LEMMA SpawnKeeps ==
    ASSUME IInv, NEW p \in Jobs, UNCHANGED job, Spawn(p)
    PROVE  Keeps(p)
<1>1. /\ TypeOK /\ Sane(p) /\ pc[p] = "spawn" /\ Cmd(p) # "decode"
      /\ landed[p] = {} /\ exit[p] = {} /\ input[p] \in Artifacts \cup {Nothing}
  BY SaneHolds DEF TypeOK, Stage, Told, Spawn
<1>2. CASE Abandon(p, FAILURE)
  BY <1>1, <1>2, AbandonKeeps, RefusalsAreCodes DEF Refusals
<1>3. CASE /\ Goto(p, "plugin")
           /\ UNCHANGED <<files, stamp, attempt, mine, input, seen, landed, exit, losses>>
  <2>1. input' = [input EXCEPT ![p] = input[p]]
    BY <1>1, <1>3 DEF TypeOK
  <2>2. TypeOK' /\ Frame(p) /\ pc'[p] = "plugin" /\ input'[p] = input[p] /\ Cmd(p)' = Cmd(p)
    BY <1>1, <1>3, <2>1, GoOnKeeps DEF files
  <2>3. Sane(p)'
    BY <1>1, <1>3, <2>2 DEF Sane, Stage, Holds, Told, OwnsTemp, files
  <2> QED
    BY <2>2, <2>3 DEF Keeps
<1> QED
  BY <1>2, <1>3 DEF Spawn

LEMMA CrashKeeps ==
    ASSUME IInv, NEW p \in Jobs, UNCHANGED job, Crash(p)
    PROVE  Keeps(p)
<1>1. /\ TypeOK /\ Sane(p) /\ pc[p] \notin Ended /\ exit[p] = {}
      /\ input[p] \in Artifacts \cup {Nothing}
      /\ UNCHANGED <<files, stamp, attempt, mine, input, seen, landed, exit, losses>>
  BY SaneHolds DEF TypeOK, Told, Crash, Ended
<1> DEFINE step == IF pc[p] = "plugin" THEN "orphaned" ELSE "crashed"
<1>2. input' = [input EXCEPT ![p] = input[p]]
  BY <1>1 DEF TypeOK
<1>3. TypeOK' /\ Frame(p) /\ pc'[p] = step /\ input'[p] = input[p] /\ Cmd(p)' = Cmd(p)
  BY <1>1, <1>2, GoOnKeeps DEF files, Crash
<1>4. Cmd(p) = "transform" => landed[p] = {}
  BY <1>1 DEF Sane, Told, Ended
<1>5. Sane(p)'
  BY <1>1, <1>3, <1>4 DEF Sane, Stage, Holds, Told, OwnsTemp, files, Ended
<1> QED
  BY <1>3, <1>5 DEF Keeps

-----------------------------------------------------------------------------
(* The plugin.                                                             *)

LEMMA PluginReadsKeeps ==
    ASSUME IInv, NEW p \in Jobs, UNCHANGED job, PluginReads(p)
    PROVE  Keeps(p)
<1>1. /\ TypeOK /\ Sane(p) /\ pc[p] \in {"plugin", "orphaned"} /\ landed[p] = {}
      /\ seen[p] = {} /\ file[job[p].artifact].data \in Contents
  BY SaneHolds, JobTyped DEF TypeOK, Told, PluginReads, FileState
<1>2. TypeOK'
  BY <1>1 DEF TypeOK, PluginReads, files, Ended
<1>3. Frame(p) /\ Cmd(p)' = Cmd(p)
  BY <1>1 DEF TypeOK, PluginReads, files, Frame, Cmd
<1>4. Sane(p)'
  BY <1>1, <1>3 DEF Sane, Stage, Holds, Told, OwnsTemp, PluginReads, files
<1> QED
  BY <1>2, <1>3, <1>4 DEF Keeps

LEMMA PluginWritesKeeps ==
    ASSUME IInv, NEW p \in Jobs, UNCHANGED job, PluginWrites(p)
    PROVE  Keeps(p)
<1>1. /\ TypeOK /\ Sane(p) /\ pc[p] \in {"plugin", "orphaned"} /\ Cmd(p) = "transform"
      /\ landed[p] = {} /\ mine[p] \subseteq TempNames
      /\ UNCHANGED <<file, disk, pc, stamp, attempt, mine, input, seen, landed, exit, losses>>
  BY SaneHolds DEF Told, PluginWrites
<1>2. PICK data \in Artifacts \cup {Partial} :
          /\ (p \in Library /\ data # Partial) => \E x \in seen[p] : <<x, data>> \in Accepts
          /\ Write(p, data)
  BY DEF PluginWrites
<1>3. data # Nothing /\ [data |-> data, synced |-> FALSE] \in FileState
  BY CommandAssumptions DEF FileState, Contents
<1>4. temp' \in [TempNames -> FileState] /\ \A t \in mine[p] : temp'[t].data = data
  BY <1>1, <1>2, <1>3 DEF TypeOK, Write
<1>5. TypeOK'
  BY <1>1, <1>4 DEF TypeOK, Ended
<1>6. Frame(p) /\ Cmd(p)' = Cmd(p)
  BY <1>1, <1>2 DEF TypeOK, Write, Frame, Cmd
<1>7. Sane(p)'
  BY <1>1, <1>2, <1>3, <1>4, <1>6 DEF Sane, Stage, Holds, Told, OwnsTemp
<1> QED
  BY <1>5, <1>6, <1>7 DEF Keeps

LEMMA PluginEndsKeeps ==
    ASSUME IInv, NEW p \in Jobs, UNCHANGED job, PluginEnds(p)
    PROVE  Keeps(p)
<1>1. /\ TypeOK /\ Sane(p) /\ pc[p] = "plugin" /\ Cmd(p) # "decode"
      /\ landed[p] = {} /\ exit[p] = {} /\ input[p] \in Artifacts \cup {Nothing}
      /\ Cmd(p) = "encode" => mine[p] = {}
  BY SaneHolds DEF TypeOK, Stage, Told, PluginEnds
<1>2. CASE Cmd(p) = "encode" /\ ReturnOnly(p, CLEAN)
  BY <1>1, <1>2, ReturnKeeps, RefusalsAreCodes
<1>3. CASE \E code \in PluginCodes \cup {FAILURE} : Abandon(p, code)
  BY <1>1, <1>3, AbandonKeeps, RefusalsAreCodes DEF Refusals
<1>4. CASE /\ Cmd(p) = "transform"
           /\ Goto(p, "judge")
           /\ UNCHANGED <<files, stamp, attempt, mine, input, seen, landed, exit, losses>>
  <2>1. input' = [input EXCEPT ![p] = input[p]]
    BY <1>1, <1>4 DEF TypeOK
  <2>2. TypeOK' /\ Frame(p) /\ pc'[p] = "judge" /\ input'[p] = input[p] /\ Cmd(p)' = Cmd(p)
    BY <1>1, <1>4, <2>1, GoOnKeeps DEF files
  <2>3. Sane(p)'
    BY <1>1, <1>4, <2>2 DEF Sane, Stage, Holds, Told, OwnsTemp, files
  <2> QED
    BY <2>2, <2>3 DEF Keeps
<1> QED
  BY <1>2, <1>3, <1>4 DEF PluginEnds

LEMMA JudgeKeeps ==
    ASSUME IInv, NEW p \in Jobs, UNCHANGED job, Judge(p)
    PROVE  Keeps(p)
<1>1. /\ TypeOK /\ Sane(p) /\ pc[p] = "judge" /\ Cmd(p) = "transform" /\ mine[p] # {}
      /\ landed[p] = {} /\ exit[p] = {} /\ input[p] \in Artifacts \cup {Nothing}
  BY SaneHolds DEF TypeOK, Stage, Told, OwnsTemp, Judge
<1>2. CASE Refuse(p)
  BY <1>1, <1>2, AbandonKeeps, RefusalsAreCodes DEF Refusals, Refuse
<1>3. CASE /\ Held(p).data \in Sound
           /\ CheckAccepts(input[p], Held(p).data)
           /\ Goto(p, "rename")
           /\ UNCHANGED <<files, stamp, attempt, mine, input, seen, landed, exit, losses>>
  <2>1. input' = [input EXCEPT ![p] = input[p]]
    BY <1>1, <1>3 DEF TypeOK
  <2>2. TypeOK' /\ Frame(p) /\ pc'[p] = "rename" /\ input'[p] = input[p] /\ Cmd(p)' = Cmd(p)
    BY <1>1, <1>3, <2>1, GoOnKeeps DEF files
  <2>3. PICK t \in TempNames : mine[p] = {t} /\ Held(p) = temp[t]
    BY <1>1, HeldIs
  <2>4. temp[t].data \in Sound /\ <<input[p], temp[t].data>> \in Accepts
    BY <1>3, <2>3 DEF CheckAccepts
  <2>5. Sane(p)'
    BY <1>1, <1>3, <2>2, <2>3, <2>4 DEF Sane, Stage, Holds, Told, OwnsTemp, files
  <2> QED
    BY <2>2, <2>5 DEF Keeps
<1> QED
  BY <1>2, <1>3 DEF Judge

LEMMA RenameTransformKeeps ==
    ASSUME IInv, NEW p \in Jobs, UNCHANGED job, RenameTransform(p)
    PROVE  Keeps(p)
<1>1. /\ TypeOK /\ Sane(p) /\ pc[p] = "rename" /\ Cmd(p) = "transform" /\ landed[p] = {}
      /\ exit[p] = {} /\ mine[p] # {} /\ input[p] \in Artifacts \ Twins
      /\ mine[p] \subseteq TempNames
  BY SaneHolds DEF Stage, Holds, Told, OwnsTemp, RenameTransform
<1>2. CASE RenameFailed(p)
  BY <1>1, <1>2, AbandonKeeps, RefusalsAreCodes DEF Refusals, RenameFailed
<1>3. CASE /\ Land(p)
           /\ Return(p, LossClass[Held(p).data])
           /\ UNCHANGED <<disk, stamp, attempt, input, seen, losses>>
  <2>1. PICK t \in TempNames : mine[p] = {t} /\ Held(p) = temp[t]
    BY <1>1, HeldIs
  <2> DEFINE data == temp[t].data
  <2>2. data \in Sound /\ data \in Artifacts /\ <<input[p], data>> \in Accepts /\ data # Partial
    BY <1>1, <2>1, CommandAssumptions DEF Sane, Holds
  <2>3. (p \in Library /\ seen[p] # {}) => seen[p] = {input[p]}
    <3> SUFFICES ASSUME p \in Library, seen[p] # {} PROVE seen[p] = {input[p]}
      OBVIOUS
    <3>1. PICK x \in seen[p] : <<x, data>> \in Accepts
      BY <1>1, <2>1, <2>2 DEF Sane, Holds
    <3>2. x = input[p]
      BY <2>2, <3>1, CommandAssumptions
    <3>3. seen[p] = {x}
      BY <1>1, <3>1 DEF TypeOK
    <3> QED
      BY <3>2, <3>3
  <2>4. LossClass[data] \in ExitCodes
    BY <2>2, CommandAssumptions DEF ExitCodes
  <2>5. TypeOK'
    BY <1>1, <1>3, <2>1, <2>4, LandTyped DEF TypeOK, Return, Goto, Ended
  <2>6. Frame(p)
    BY <1>1, <1>3, LandTyped DEF TypeOK, Return, Goto, Frame, Land
  <2>7. /\ pc'[p] = "done" /\ Cmd(p)' = Cmd(p) /\ input'[p] = input[p] /\ mine'[p] = {}
        /\ landed'[p] = {data} /\ exit'[p] = {LossClass[data]} /\ seen'[p] = seen[p]
    <3>1. pc'[p] = "done" /\ exit'[p] = {LossClass[data]}
      BY <1>1, <1>3, <2>1 DEF TypeOK, Return, Goto
    <3>2. mine'[p] = {} /\ landed'[p] = {data}
      BY <1>1, <1>3, <2>1, LandTyped, ZenonT(40) DEF TypeOK
    <3> QED
      BY <1>3, <3>1, <3>2 DEF Cmd
  <2>8. Sane(p)'
    BY <1>1, <2>2, <2>3, <2>7 DEF Sane, Stage, Holds, Told, OwnsTemp
  <2> QED
    BY <2>5, <2>6, <2>8 DEF Keeps
<1> QED
  BY <1>2, <1>3 DEF RenameTransform

-----------------------------------------------------------------------------
(* What reaches the disk.  Of the steps of an invocation only the renames  *)
(* and the directory sync touch an output.                                 *)
TouchesNoOutput(p) == UNCHANGED <<file, disk>>

LandsAt(p) ==
    /\ mine[p] # {} /\ pc[p] = "rename" /\ Cmd(p) \in {"decode", "transform"}
    /\ file' = [file EXCEPT ![job[p].out] = Held(p)]
    /\ disk' = disk

Settles == file' = file /\ disk' \in {disk, file}

LEMMA StepOnOutputs ==
    ASSUME IInv, NEW p \in Jobs, Step(p) \/ PluginStep(p) \/ Crash(p)
    PROVE  TouchesNoOutput(p) \/ LandsAt(p) \/ Settles
<1>1. CASE RenameDecode(p) \/ RenameTransform(p)
  BY <1>1, SaneHolds
     DEF RenameDecode, RenameTransform, RenameFailed, Abandon, Land, LandsAt, TouchesNoOutput,
         Stage, OwnsTemp
<1>2. CASE SyncDirectory(p)
  BY <1>2 DEF SyncDirectory, Settles
<1>3. CASE Decode(p) \/ CreateDecodeTemp(p) \/ WriteBody(p) \/ SyncBody(p) \/ Report(p)
  BY <1>3 DEF Decode, CreateDecodeTemp, WriteBody, SyncBody, Report, ReturnOnly, Abandon, Create,
              files, TouchesNoOutput
<1>4. CASE StartPlugin(p) \/ Verify(p) \/ ReadInput(p) \/ CreateTransformTemp(p) \/ Spawn(p)
              \/ Judge(p)
  BY <1>4 DEF StartPlugin, Verify, ReadInput, CreateTransformTemp, Spawn, Judge, Refuse,
              ReturnOnly, Abandon, Create, files, TouchesNoOutput
<1>5. CASE PluginStep(p) \/ Crash(p)
  BY <1>5 DEF PluginStep, PluginReads, PluginWrites, PluginEnds, Crash, ReturnOnly, Abandon,
              files, TouchesNoOutput
<1> QED
  BY <1>1, <1>2, <1>3, <1>4, <1>5 DEF Step, DecodeStep, PluginCommandStep

LEMMA UnsyncedKept ==
    ASSUME IInv, NEW p \in Jobs, UNCHANGED job, TouchesNoOutput(p) \/ LandsAt(p) \/ Settles
    PROVE  UnsyncedIsTransforms'
<1>1. TypeOK /\ UnsyncedIsTransforms /\ job[p].out \in Files
  BY JobTyped DEF IInv
<1>2. CASE TouchesNoOutput(p) \/ Settles
  BY <1>1, <1>2 DEF UnsyncedIsTransforms, TouchesNoOutput, Settles
<1>3. CASE LandsAt(p)
  <2>1. PICK t \in TempNames : mine[p] = {t} /\ Held(p) = temp[t]
    BY <1>1, <1>3, HeldIs DEF LandsAt
  <2>2. Cmd(p) = "decode" => Held(p).synced
    BY <1>3, <2>1, SaneHolds, ZenonT(40) DEF Holds, LandsAt
  <2>3. Cmd(p) = "transform" => job[p].out \in OutsOf("transform")
    BY <1>1 DEF TypeOK, OutsOf, Cmd
  <2> QED
    BY <1>1, <1>3, <2>2, <2>3 DEF UnsyncedIsTransforms, LandsAt, TypeOK
<1> QED
  BY <1>2, <1>3

LEMMA RecoveredTyped ==
    ASSUME NEW s \in FileState, NEW r \in Recovered(s)
    PROVE  r \in FileState /\ r.synced /\ r.data \in {s.data, Partial}
           /\ (s.synced => r.data = s.data)
<1>1. PICK d \in {s.data} \cup (IF s.synced THEN {} ELSE {Partial}) : r = [data |-> d, synced |-> TRUE]
  BY DEF Recovered
<1> QED
  BY <1>1 DEF FileState, Contents

LEMMA PowerLossKeeps ==
    ASSUME IInv, PowerLoss, UNCHANGED job
    PROVE  IInv'
<1>1. TypeOK
  BY DEF IInv
<1>2. \A f \in Files : file'[f] \in FileState /\ file'[f].synced
  <2> SUFFICES ASSUME NEW f \in Files PROVE file'[f] \in FileState /\ file'[f].synced
    OBVIOUS
  <2>1. file[f] \in FileState /\ disk[f] \in FileState
    BY <1>1 DEF TypeOK
  <2>2. file'[f] \in Recovered(file[f]) \/ file'[f] \in Recovered(disk[f])
    BY DEF PowerLoss
  <2> QED
    BY <2>1, <2>2, RecoveredTyped
<1>3. \A t \in TempNames : /\ [temp[t] EXCEPT !.synced = TRUE] \in FileState
                           /\ [temp[t] EXCEPT !.synced = TRUE].data = temp[t].data
                           /\ [temp[t] EXCEPT !.synced = TRUE].synced
  BY <1>1 DEF TypeOK, FileState
<1>4. \A t \in TempNames : temp'[t].data = temp[t].data /\ temp'[t].synced
  BY <1>3 DEF PowerLoss
<1>5. TypeOK'
  <2>1. file' \in [Files -> FileState] /\ disk' = file'
    BY <1>2 DEF PowerLoss
  <2>2. temp' \in [TempNames -> FileState]
    BY <1>3 DEF PowerLoss
  <2>3. losses' \in 0..MaxPowerLoss
    BY <1>1, CommandAssumptions DEF TypeOK, PowerLoss
  <2> QED
    BY <1>1, <2>1, <2>2, <2>3 DEF TypeOK, PowerLoss, Ended
<1>6. ASSUME NEW p \in Jobs PROVE Sane(p)'
  <2>1. /\ Sane(p) /\ Cmd(p)' = Cmd(p) /\ mine[p] \subseteq TempNames
        /\ pc'[p] = IF pc[p] = "done" THEN "done" ELSE "crashed"
    BY SaneHolds DEF PowerLoss, Cmd
  <2>2. Stage(p)'
    BY <2>1 DEF Sane, Stage, OwnsTemp, PowerLoss
  <2>3. Holds(p)'
    BY <2>1, <1>4 DEF Sane, Holds, PowerLoss
  <2>4. Told(p)'
    BY <2>1 DEF Sane, Told, PowerLoss
  <2> QED
    BY <2>2, <2>3, <2>4 DEF Sane
<1>7. TempsAreApart'
  BY DEF IInv, TempsAreApart, PowerLoss
<1>8. OnlyCrashesLeaveTemps'
  <2> SUFFICES ASSUME NEW t \in TempNames, temp'[t] # Missing
               PROVE  \E p \in Jobs : t \in mine'[p] /\ pc'[p] # "done"
    BY DEF OnlyCrashesLeaveTemps, Missing
  <2>1. temp[t] # Missing
    BY <1>4, <1>5 DEF TypeOK, FileState, Missing
  <2> QED
    BY <2>1 DEF IInv, OnlyCrashesLeaveTemps, PowerLoss
<1>9. UnsyncedIsTransforms'
  BY <1>2 DEF UnsyncedIsTransforms, PowerLoss
<1> QED
  BY <1>5, <1>6, <1>7, <1>8, <1>9 DEF IInv

-----------------------------------------------------------------------------
(* Every step, and with it every behaviour.                                *)

LEMMA StepKeeps ==
    ASSUME IInv, NEW p \in Jobs, UNCHANGED job, Step(p) \/ PluginStep(p) \/ Crash(p)
    PROVE  IInv'
<1>1. Keeps(p)
  <2>1. CASE Step(p)
    BY <2>1, DecodeKeeps, CreateDecodeTempKeeps, WriteBodyKeeps, SyncBodyKeeps, RenameDecodeKeeps,
       SyncDirectoryKeeps, ReportKeeps, StartPluginKeeps, VerifyKeeps, ReadInputKeeps,
       CreateTransformTempKeeps, SpawnKeeps, JudgeKeeps, RenameTransformKeeps
       DEF Step, DecodeStep, PluginCommandStep
  <2>2. CASE PluginStep(p)
    BY <2>2, PluginReadsKeeps, PluginWritesKeeps, PluginEndsKeeps DEF PluginStep
  <2>3. CASE Crash(p)
    BY <2>3, CrashKeeps
  <2> QED
    BY <2>1, <2>2, <2>3
<1>2. (\A q \in Jobs : Sane(q))' /\ TempsAreApart' /\ OnlyCrashesLeaveTemps'
  BY <1>1, FrameKeepsOthers DEF Keeps
<1>3. UnsyncedIsTransforms'
  BY StepOnOutputs, UnsyncedKept
<1> QED
  BY <1>1, <1>2, <1>3 DEF IInv, Keeps

LEMMA InitIInv == Init => IInv
<1> SUFFICES ASSUME Init PROVE IInv
  OBVIOUS
<1>1. \A f \in Files : [data |-> FirstFiles[f], synced |-> TRUE] \in FileState
  BY CommandAssumptions DEF FileState, Contents
<1>2. TypeOK
  BY <1>1, MissingIsAFile, CommandAssumptions DEF Init, TypeOK, Ended
<1>3. \A p \in Jobs : Sane(p)
  BY DEF Init, Sane, Stage, Holds, Told, OwnsTemp
<1>4. TempsAreApart /\ OnlyCrashesLeaveTemps /\ UnsyncedIsTransforms
  BY DEF Init, TempsAreApart, OnlyCrashesLeaveTemps, UnsyncedIsTransforms
<1> QED
  BY <1>2, <1>3, <1>4 DEF IInv

LEMMA StutterIInv == ASSUME IInv, UNCHANGED vars PROVE IInv'
<1>1. TypeOK'
  BY DEF vars, IInv, TypeOK
<1>2. ASSUME NEW p \in Jobs PROVE Sane(p)'
  <2>1. Sane(p)
    BY DEF IInv
  <2>2. Stage(p)'
    BY <2>1 DEF vars, Sane, Stage, OwnsTemp, Cmd
  <2>3. Holds(p)'
    BY <2>1 DEF vars, Sane, Holds, Cmd
  <2>4. Told(p)'
    BY <2>1 DEF vars, Sane, Told, Cmd
  <2> QED
    BY <2>2, <2>3, <2>4 DEF Sane
<1>3. TempsAreApart' /\ OnlyCrashesLeaveTemps' /\ UnsyncedIsTransforms'
  BY DEF vars, IInv, TempsAreApart, OnlyCrashesLeaveTemps, UnsyncedIsTransforms
<1> QED
  BY <1>1, <1>2, <1>3 DEF IInv

LEMMA NextIInv == IInv /\ [Next]_vars => IInv'
<1>1. ASSUME IInv, Next PROVE IInv'
  <2>1. CASE \E p \in Jobs : Step(p) \/ (PluginStep(p) /\ UNCHANGED job) \/ (Crash(p) /\ UNCHANGED job)
    BY <1>1, <2>1, StepKeeps DEF Step
  <2>2. CASE PowerLoss /\ UNCHANGED job
    BY <1>1, <2>2, PowerLossKeeps
  <2> QED
    BY <1>1, <2>1, <2>2 DEF Next
<1> QED
  BY <1>1, StutterIInv

(* The inductive invariant: in every state of every behaviour, each        *)
(* invocation owns a temporary file exactly where its code holds one, that *)
(* file holds what the code has put there, and no other invocation has it  *)
(* (atomic_write, run_transform, create_transform_temp).                   *)
THEOREM CommandsInvariant == Spec => []IInv
  BY InitIInv, NextIInv, PTL DEF Spec

(* Every variable stays in its type, whatever the command lines are.       *)
THEOREM CommandsTyped == Spec => []TypeOK
<1>1. IInv => TypeOK
  BY DEF IInv
<1> QED
  BY <1>1, CommandsInvariant, PTL

(* No two invocations ever own one temporary file, even when their process *)
(* ids and clocks agree and one of them was killed (create_new).           *)
THEOREM TemporariesStayApart == Spec => []TempsAreApart
<1>1. IInv => TempsAreApart
  BY DEF IInv
<1> QED
  BY <1>1, CommandsInvariant, PTL

(* A temporary file that is still there belongs to an invocation that was  *)
(* killed or still runs: every error path removes it (run_transform).      *)
THEOREM OnlyKillsLeaveTemporaries == Spec => []OnlyCrashesLeaveTemps
<1>1. IInv => OnlyCrashesLeaveTemps
  BY DEF IInv
<1> QED
  BY <1>1, CommandsInvariant, PTL

(* What a transform puts at its output was accepted as made from the       *)
(* artifact brygge read, which is also what a plugin on the library read,  *)
(* however often the file was replaced in between (run_transform).         *)
THEOREM LandedWasAccepted == Spec => []AcceptedFromWhatWasRead
<1>1. IInv => AcceptedFromWhatWasRead
  BY DEF IInv, Sane, Told, AcceptedFromWhatWasRead, Transforms
<1> QED
  BY <1>1, CommandsInvariant, PTL

(* The exit code of decode and transform is the class of what they put at  *)
(* their output, or else a refusal with nothing put there (run_decode,     *)
(* run_transform).                                                         *)
THEOREM ExitCodesTell == Spec => []ExitTellsWhatLanded
<1>1. IInv => ExitTellsWhatLanded
  BY DEF IInv, Sane, Told, ExitTellsWhatLanded
<1> QED
  BY <1>1, CommandsInvariant, PTL

-----------------------------------------------------------------------------
(* The outputs are those of AtomicOutput.                                  *)

LEMMA LandReplaces ==
    ASSUME IInv, NEW p \in Jobs, UNCHANGED job, LandsAt(p)
    PROVE  Promise!Replace(job[p].out)
<1>1. TypeOK /\ Holds(p) /\ job[p].out \in Files
  BY SaneHolds, JobTyped
<1>2. PICK t \in TempNames : mine[p] = {t} /\ Held(p) = temp[t]
  BY <1>1, HeldIs DEF LandsAt
<1> DEFINE f == job[p].out
           a == temp[t].data
<1>3. f \in OutsOf(Cmd(p))
  BY <1>1 DEF OutsOf, Cmd, TypeOK
<1>4. a \in MayLand[f]
  <2>1. CASE Cmd(p) = "decode"
    <3>1. a \in Decoded /\ a \in Artifacts
      BY <1>1, <1>2, <2>1, CommandAssumptions DEF Holds, LandsAt
    <3> QED
      BY <1>1, <1>3, <2>1, <3>1 DEF MayLand
  <2>2. CASE Cmd(p) = "transform"
    <3>1. a \in Sound /\ a \in Artifacts /\ input[p] \in Artifacts /\ <<input[p], a>> \in Accepts
      BY <1>1, <1>2, <2>2, CommandAssumptions DEF Holds, LandsAt
    <3> QED
      BY <1>1, <1>3, <2>2, <3>1 DEF MayLand
  <2> QED
    BY <2>1, <2>2 DEF LandsAt
<1>5. Out' = [Out EXCEPT ![f] = a]
  BY <1>1, <1>2 DEF LandsAt, Out, TypeOK
<1>6. Safe' = Safe
  BY DEF LandsAt, Safe
<1> QED
  BY <1>4, <1>5, <1>6 DEF Promise!Replace

LEMMA SettleSettles ==
    ASSUME IInv, Settles
    PROVE  Promise!Settle \/ UNCHANGED <<Out, Safe>>
  BY DEF Settles, Out, Safe, Promise!Settle

(* What was not synced may come back in part, and only transforms leave    *)
(* such an output.                                                         *)
LEMMA PowerLossIsPromised ==
    ASSUME IInv, PowerLoss
    PROVE  Promise!PowerLoss
<1>1. DOMAIN Out' = DOMAIN Out
  BY DEF Out
<1>2. Safe' = Out'
  BY DEF PowerLoss, Out, Safe
<1>3. ASSUME NEW f \in Files
      PROVE  Out'[f] \in Promise!MaySurvive(f)
  <2>1. file[f] \in FileState /\ disk[f] \in FileState
    BY DEF IInv, TypeOK
  <2>2. file'[f] \in Recovered(file[f]) \/ file'[f] \in Recovered(disk[f])
    BY DEF PowerLoss
  <2>3. file'[f].data \in {file[f].data, disk[f].data}
          \/ (file'[f].data = Partial /\ f \in OutsOf("transform"))
    BY <2>1, <2>2, RecoveredTyped DEF IInv, UnsyncedIsTransforms
  <2>4. Out'[f] = file'[f].data /\ Out[f] = file[f].data /\ Safe[f] = disk[f].data
    BY DEF Out, Safe
  <2> QED
    BY <2>3, <2>4 DEF Promise!MaySurvive
<1> QED
  BY <1>1, <1>2, <1>3 DEF Promise!PowerLoss

(* Whatever commands run side by side and wherever they are killed, each   *)
(* output is replaced whole or not at all, and a power loss tears only     *)
(* what a transform, which does not sync, has written (atomic_write).      *)
THEOREM OutputsAreAtomic == Spec => OutputIsAtomic
<1>1. Init => Promise!Init
  BY DEF Init, Promise!Init, Out, Safe
<1>2. IInv /\ [Next]_vars => [Promise!Next]_<<Out, Safe>>
  <2> SUFFICES ASSUME IInv, [Next]_vars PROVE Promise!Next \/ UNCHANGED <<Out, Safe>>
    OBVIOUS
  <2>1. CASE UNCHANGED vars
    BY <2>1 DEF vars, Out, Safe
  <2>2. CASE PowerLoss
    BY <2>2, PowerLossIsPromised DEF Promise!Next
  <2>3. ASSUME NEW p \in Jobs, UNCHANGED job, Step(p) \/ PluginStep(p) \/ Crash(p)
        PROVE  Promise!Next \/ UNCHANGED <<Out, Safe>>
    <3>1. CASE TouchesNoOutput(p)
      BY <3>1 DEF TouchesNoOutput, Out, Safe
    <3>2. CASE LandsAt(p)
      <4>1. Promise!Replace(job[p].out) /\ job[p].out \in Files
        BY <2>3, <3>2, LandReplaces, JobTyped DEF IInv
      <4> QED
        BY <4>1 DEF Promise!Next
    <3>3. CASE Settles
      BY <3>3, SettleSettles DEF Promise!Next
    <3> QED
      BY <2>3, <3>1, <3>2, <3>3, StepOnOutputs
  <2> QED
    BY <2>1, <2>2, <2>3 DEF Next, Step
<1> QED
  BY <1>1, <1>2, CommandsInvariant, PTL DEF Spec, OutputIsAtomic, Promise!Spec
=============================================================================
