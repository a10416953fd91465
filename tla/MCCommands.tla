----------------------------- MODULE MCCommands -----------------------------
(***************************************************************************)
(* Three invocations at a time around two files, whose process ids and     *)
(* clocks coincide.                                                        *)
(***************************************************************************)
EXTENDS Commands

CONSTANTS
    old, new,           \* what `a` holds at first, and what the decode makes
    fromOld, fromNew,   \* what the transform makes of each
    unsound             \* an artifact that fails an internal check

TheArtifacts == {old, new, fromOld, fromNew, unsound}

TheAccepts == {<<old, fromOld>>, <<new, fromNew>>}

Line(cmd, artifact, out) == [cmd |-> cmd, artifact |-> artifact, out |-> out]

Crew(one, two, three) == [p \in Jobs |-> CASE p = 1 -> one [] p = 2 -> two [] p = 3 -> three]

(* A decode replaces the input of a transform, beside an encode of what it *)
(* makes; two decodes into one file; three transforms, one name too few    *)
(* for their temporary files; a transform told to write over its input.    *)
TheCommandLines ==
    LET decode == Line("decode", "a", "a")
        transform == Line("transform", "a", "b")
    IN  {Crew(decode, transform, Line("encode", "b", "b")),
         Crew(decode, decode, transform),
         Crew(transform, transform, transform),
         Crew(transform, Line("transform", "b", "b"), Line("encode", "a", "a"))}

TheLossClass ==
    [a \in TheArtifacts |-> CASE a = new -> RECORDED_LOSS
                              [] a = fromNew -> CONVENTION_VIOLATION
                              [] OTHER -> CLEAN]

TheFirstFiles == [f \in Files |-> IF f = "a" THEN old ELSE Nothing]
=============================================================================
