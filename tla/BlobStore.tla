----------------------------- MODULE BlobStore ------------------------------
(***************************************************************************)
(* What a store of content-addressed blobs promises, whatever keeps the    *)
(* bytes and through being written as an artifact and read back: it holds  *)
(* what was put in; what it is asked for it gives, itself and nothing      *)
(* else; and it fails only when the disk failed or a file was changed.     *)
(***************************************************************************)
CONSTANTS Blobs, Content(_)

VARIABLES
    needed,     \* the blobs its user needs in the end: never written
    held,       \* the blobs in it
    sealed,     \* whether it is finished: no more are put in
    faulty,     \* whether something outside has gone wrong
    answer      \* what the last call returned

Answer(blob, what, bytes) == [blob |-> blob, what |-> what, bytes |-> bytes]

NoAnswer == Answer(0, "nothing", <<>>)

Begin ==
    /\ \/ held = {} /\ sealed = FALSE
       \/ held = needed /\ sealed = TRUE
    /\ faulty = FALSE /\ answer = NoAnswer

Put(b) ==
    /\ ~sealed
    /\ held' = held \cup {b} /\ answer' = Answer(b, "stored", <<>>)
    /\ UNCHANGED <<needed, sealed, faulty>>

\* A blob that is there already is never written again.
PutFails(b) ==
    /\ ~sealed /\ b \notin held
    /\ faulty' = TRUE /\ answer' = Answer(b, "error", <<>>)
    /\ UNCHANGED <<needed, held, sealed>>

Give(b) ==
    /\ answer' = IF b \in held THEN Answer(b, "found", Content(b)) ELSE Answer(b, "absent", <<>>)
    /\ UNCHANGED <<needed, held, sealed, faulty>>

GiveFails(b) ==
    /\ b \in held /\ faulty'
    /\ answer' = Answer(b, "error", <<>>)
    /\ UNCHANGED <<needed, held, sealed>>

\* Finished: what nothing needs is let go.
Seal ==
    /\ ~sealed /\ needed \subseteq held
    /\ held' = needed /\ sealed' = TRUE /\ answer' = NoAnswer
    /\ UNCHANGED <<needed, faulty>>

Fault ==
    /\ faulty' = TRUE
    /\ UNCHANGED <<needed, held, sealed, answer>>

\* An artifact that cannot be written, or read.
Lose ==
    /\ faulty' /\ held' = {}
    /\ UNCHANGED <<needed, sealed, answer>>

Step ==
    \/ \E b \in Blobs : Put(b) \/ PutFails(b) \/ Give(b) \/ GiveFails(b)
    \/ Seal \/ Fault \/ Lose

Behaves == Begin /\ [][Step]_<<needed, held, sealed, faulty, answer>>
=============================================================================
