-------------------------- MODULE TransformValues --------------------------
(***************************************************************************)
(* What a transform may put where something stood, whether it is written   *)
(* with the editing library or without.                                    *)
(***************************************************************************)

CONSTANTS
    Name,         \* the transform's own name, under which the CLI ran it
    PathNames,    \* paths an operation may be moved to
    Blobs,        \* content an operation may name
    Modes,        \* file modes it may have
    MetaValues,   \* values a claim may be set to
    Annotations,  \* values a ref's annotation may be set to
    RefNames      \* names a ref may be given
=============================================================================
