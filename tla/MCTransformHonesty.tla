------------------------- MODULE MCTransformHonesty -------------------------
(* Three inputs.  SmallDraft: a root with two files, a second atom, and a   *)
(* third that copies a file of the root; a branch on the last, a tag on the *)
(* first.  Two artifacts of one atom that a first step has marked already:  *)
(* its tag and its claim, or one of its files.                              *)
EXTENDS TransformHonesty

File(kind, path, blob) ==
    [kind |-> kind, path |-> path, blob |-> blob, mode |-> "file", status |-> Stated("stated")]

Draft(parents, ops, copies, source) ==
    [parents |-> parents, ops |-> ops, copies |-> copies, source |-> source,
     meta |-> [part \in {"author"} |-> "m0"], status |-> Stated("stated")]

SmallDraft ==
    [atoms |-> <<
        Draft(<<>>, {File("Add", "a", "b0"), File("Add", "b", "b1")}, {}, 3),
        Draft(<<1>>, {}, {}, 2),
        Draft(<<2>>, {File("Modify", "a", "b1")},
              {[to |-> "c", from |-> "a", fromAtom |-> 1, status |-> Stated("derived")]}, 1) >>,
     refs |-> {[kind |-> "branch", name |-> "main", target |-> 3, annotation |-> "n0",
                status |-> Stated("stated")],
               [kind |-> "tag", name |-> "v1", target |-> 1, annotation |-> "n0",
                status |-> Stated("stated")]},
     drops |-> {[class |-> "Representation", step |-> NoStep, what |-> <<"text", "x">>]},
     flags |-> {"flag"}, prov |-> "provenance", chain |-> <<>>]

First == [name |-> "first", consumed |-> "digest of the import"]
Marking(parts) == Transformed(0, parts, Stated("stated"))

RetaggedDraft ==
    [atoms |-> << [Draft(<<>>, {File("Add", "a", "b0")}, {}, 1) EXCEPT !.status = Marking({"author"})] >>,
     refs |-> {[kind |-> "tag", name |-> "v1", target |-> 1, annotation |-> "n0",
                status |-> Marking({"annotation"})]},
     drops |-> {}, flags |-> {}, prov |-> "provenance", chain |-> <<First>>]

RefiledDraft ==
    [atoms |-> << [Draft(<<>>, {[File("Add", "a", "b0") EXCEPT !.status = Marking({"blob"})],
                                File("Add", "b", "b1")}, {}, 1) EXCEPT !.status = Marking({"ops"})] >>,
     refs |-> {},
     drops |-> {[class |-> "Transform", step |-> {0}, what |-> <<"op", "an atom of before", "d">>]},
     flags |-> {}, prov |-> "provenance", chain |-> <<First>>]

SomeDrafts == {SmallDraft, RetaggedDraft, RefiledDraft}

Sets(S) == {{x} : x \in S}
AllAtomMarks == Sets({"author", "ops", "copies", "parents"})
AllOpMarks == Sets({"blob", "mode", "path"})
AllRefMarks == Sets({"name", "target", "annotation"})
=============================================================================
