--------------------------- MODULE VerifySamples ---------------------------
(***************************************************************************)
(* Small artifacts, sound and not, and what their sources decode to.       *)
(***************************************************************************)
EXTENDS Verify

Draft(parents, ops, copies, source) ==
    [parents |-> parents, ops |-> ops, copies |-> copies, meta |-> "meta", source |-> source, status |-> AsStated]

Adds(path) == AddOp(path, "x", "file", AsStated)
Mods(path) == ModifyOp(path, "y", "file", AsStated)
Dels(path) == DeleteOp(path, AsStated)
CopyOf(atom, from, to, status) == [from |-> from, fromAtom |-> atom, to |-> to, status |-> status]

MainRef(atom, status) == Ref("Branch", "main", atom, status, <<>>)

ArtifactOf(kind, drafts, refs) ==
    Assemble([atoms |-> drafts, refs |-> refs, drops |-> {Drop("reflogs", 1)}, flags |-> {},
              prov |-> Provenance(kind, "only"), chain |-> <<>>])

(* Four atoms: a root, two children of it or of one another, and a last    *)
(* one; copies from any earlier atom.                                      *)
Shaped ==
    {ArtifactOf("hg",
        <<Draft(<<>>, {Adds("p")}, {}, 1),
          Draft(<<1>>, second, {}, 2),
          Draft(third, {Adds("r")}, c3, 3),
          Draft(fourth, {last}, c4, 4)>>,
        {MainRef(4, AsStated)}) :
       second \in {{Adds("q")}, {Dels("p")}, {Mods("p"), Adds("q")}}, third \in {<<1>>, <<2>>, <<2, 1>>},
       fourth \in {<<3>>, <<1, 2>>, <<2, 3>>},
       last \in {Adds("q"), Mods("p"), Dels("r")},
       c3 \in {{}, {CopyOf(1, "p", "r", AsStated)},
               {CopyOf(1, "p", "r", AsStated), CopyOf(2, "q", "s", AsStated)}},
       c4 \in {{}, {CopyOf(1, "p", "q", AsStated)}, {CopyOf(2, "q", "r", AsStated)}}}

Plain == ArtifactOf("git", <<Draft(<<>>, {Adds("p")}, {}, 1), Draft(<<1>>, {Mods("p")}, {}, 2)>>, {MainRef(2, AsStated)})
Other == [Plain EXCEPT !.refs = {}]

Versions(ir) == {[ir EXCEPT !.prov.brygge = v, !.prov.tool = u] : v \in {"this", "old"}, u \in {"this", "old"}}
OfKind(ir, kind) == [ir EXCEPT !.prov.kind = kind, !.prov.decoder = kind]
Chained(ir, root) == [ir EXCEPT !.chain = <<[consumed |-> root]>>]

Now(form, result) == [form |-> form, result |-> result]
Verified0(ir, now) == [kind |-> "artifact", ir |-> ir, now |-> now]
Unchanged(ir) == Verified0(ir, Now("only", {ir}))

(* Artifacts of every kind of source, with statuses that suit it or not.   *)
OfKinds ==
    {LET draft == [Draft(<<1>>, {Adds("q")}, copies, 2) EXCEPT !.status = status]
     IN  ArtifactOf(kind, <<[Draft(<<>>, {Adds("p")}, {}, 1) EXCEPT !.status = first], draft,
                            Draft(<<>>, {Adds("p")}, {}, 3), [Draft(parents, {}, {}, 4) EXCEPT !.status = status]>>,
                    {MainRef(2, refStatus)}) :
       kind \in {"git", "svn", "cvs", "hg", "other"},
       first \in {AsStated, Derived("ReconstructedChangeset")},
       status \in {AsStated, Transformed(0, {"ops"}, Derived("ReconstructedBranch")), Derived("Underspecified")},
       copies \in {{}, {CopyOf(1, "p", "q", AsStated)}, {CopyOf(1, "p", "q", Derived("InferredRename"))}},
       refStatus \in {AsStated, Derived("ReconstructedBranch")}, parents \in {<<1>>, <<1, 2>>, <<1, 2, 3>>}}

Compared ==
    {Verified0(ir, Now("only", result)) :
        ir \in Versions(Plain) \cup {Chained(Other, Plain), Chained(Other, Other),
                                     [Chained(Other, Other) EXCEPT !.prov.brygge = "old"]},
        result \in {{}, {Plain}, {Other}}}
    \cup {Verified0(OfKind(Plain, "cvs"), Now("only", {OfKind(ir, "cvs")})) : ir \in {Plain, Other}}
    \cup {LET Of(ir, in, v) == [OfKind(ir, "svn") EXCEPT !.prov.form = in, !.prov.brygge = v]
           IN  Verified0(Of(Plain, form, IF form = "unrecorded" THEN "old" ELSE "this"),
                         Now(now, {Of(ir, now, "this") : ir \in IF now = "absent" THEN {} ELSE result})) :
        form \in {"unrecorded", "dumpfile", "repository"},
        now \in {"absent", "dumpfile", "repository"}, result \in {{}, {Plain}, {Other}}}

Broken ==
    {Unchanged(ir) : ir \in
        {[Plain EXCEPT !.atoms = <<@[2], @[1]>>], [Plain EXCEPT !.atoms = <<@[2]>>],
         [Plain EXCEPT !.content = {}], [Plain EXCEPT !.refs = {[r EXCEPT !.kind = k] : r \in @, k \in {"Branch", "Tag"}}],
         [Plain EXCEPT !.drops = {Drop("", 1)}], [Plain EXCEPT !.prov.whole = FALSE], [Plain EXCEPT !.prov.decoder = "hg"],
         [Plain EXCEPT !.refs = @ \cup {[r EXCEPT !.target = Plain.atoms[1]] : r \in @}],
         ArtifactOf("git", <<Draft(<<>>, {Adds("p"), AddOp("p", "y", "file", AsStated)}, {}, 1)>>, {})}}

TheArtifacts ==
    {Unchanged(ir) : ir \in Shaped}
    \cup {Verified0(Chained(ir, Plain), Now("only", {Plain})) : ir \in OfKinds}
    \cup Compared \cup Broken
=============================================================================
