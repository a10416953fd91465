-------------------------- MODULE MCTransformEdit --------------------------
(* Instances of TransformEdit: two small artifacts as a decoder, and as an  *)
(* earlier transform, leave them.                                           *)
EXTENDS TransformEdit

CONSTANT MCInputs  \* which of the inputs below: a subset of {"fresh", "chained"}

File(kind, path, blob, status) ==
    [kind |-> kind, path |-> path, blob |-> blob, mode |-> "file", status |-> status]
Deletion(path) ==
    [kind |-> "Delete", path |-> path, blob |-> NoBlob, mode |-> NoMode,
     status |-> Stated("stated")]

Draft(parents, ops, copies, source, status) ==
    [parents |-> parents, ops |-> ops, copies |-> copies, source |-> source,
     meta |-> [part \in MetaParts |-> "m0"], status |-> status]

Ref(kind, name, target, annotation, status) ==
    [kind |-> kind, name |-> name, target |-> target, annotation |-> annotation,
     status |-> status]

\* A root with two files; a second atom; a merge of both that copies a file of
\* the root, and an empty atom that names the second twice.  Source ids run against the order of the history.
FreshDraft ==
    [atoms |-> <<
        Draft(<<>>, {File("Add", "a", "b0", Stated("stated")),
                     File("Add", "b", "b1", Stated("derived"))}, {}, 3, Stated("stated")),
        Draft(<<1>>, {File("Modify", "a", "b1", Stated("stated")),
                      File("Add", "t", "b1", Stated("stated"))}, {}, 2, Stated("derived")),
        Draft(<<2, 1>>, {Deletion("b")},
              {[to |-> "c", from |-> "a", fromAtom |-> 1, status |-> Stated("derived")]},
              1, Stated("stated")),
        Draft(<<2, 2>>, {}, {}, 4, Stated("stated")) >>,
     refs |-> {Ref("branch", "main", 3, "n0", Stated("stated")),
               Ref("branch", "dev", 2, "n0", Stated("stated"))},
     drops |-> {[class |-> "Representation", step |-> NoStep, what |-> <<"text", "x">>]},
     flags |-> {"flag"}, prov |-> "provenance", chain |-> <<>>]

\* What one earlier transform left: it marked an operation, an atom and a ref.
OnceMarked(changed) == Transformed(0, changed, Stated("stated"))

ChainedDraft ==
    [atoms |-> <<
        Draft(<<>>, {File("Add", "a", "b0", OnceMarked({"blob"})),
                     File("Add", "b", "b1", Stated("stated"))}, {}, 2, OnceMarked({"ops"})),
        Draft(<<1>>, {Deletion("a")}, {}, 1, Stated("stated")) >>,
     refs |-> {Ref("tag", "v1", 2, "n0", OnceMarked({"annotation"}))},
     drops |-> {[class |-> "Transform", step |-> {0}, what |-> <<"ref", "tag", "v0">>]},
     flags |-> {}, prov |-> "provenance",
     chain |-> <<[name |-> "first", consumed |-> "digest of root"]>>]

TheInputs ==
    {[ir |-> Assemble(FreshDraft), digest |-> "digest of fresh"] : x \in MCInputs \cap {"fresh"}}
      \cup
    {[ir |-> Assemble(ChainedDraft), digest |-> "digest of chained"]
        : x \in MCInputs \cap {"chained"}}
=============================================================================
