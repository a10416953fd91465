---------------------------- MODULE AtomicOutput ----------------------------
(***************************************************************************)
(* What brygge's commands promise of the files they are told to write: an  *)
(* output holds what it held before or a whole new artifact, never a part  *)
(* of one, and a power loss goes back at most to what was last made        *)
(* durable.  A file whose writer does not sync it is the exception: after  *)
(* a power loss it may hold a part.                                        *)
(***************************************************************************)
CONSTANTS
    Files,      \* the outputs
    Allowed,    \* Allowed[f]: the artifacts a command may put at f
    Unsynced,   \* the outputs of commands that do not sync what they write
    Partial     \* the content of a file written in part

VARIABLES
    out,        \* out[f]: what f holds
    safe        \* safe[f]: what f is known to hold after a power loss

Init == safe = out

(* A command puts a whole artifact at f, at once.                          *)
Replace(f) ==
    /\ \E a \in Allowed[f] : out' = [out EXCEPT ![f] = a]
    /\ UNCHANGED safe

(* The directory reaches the disk.                                         *)
Settle ==
    /\ safe' = out
    /\ UNCHANGED out

MaySurvive(f) ==
    {out[f], safe[f]} \cup (IF f \in Unsynced THEN {Partial} ELSE {})

PowerLoss ==
    /\ DOMAIN out' = DOMAIN out
    /\ \A f \in Files : out'[f] \in MaySurvive(f)
    /\ safe' = out'

Next == Settle \/ PowerLoss \/ \E f \in Files : Replace(f)

Spec == Init /\ [][Next]_<<out, safe>>
=============================================================================
