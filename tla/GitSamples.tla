----------------------------- MODULE GitSamples -----------------------------
(***************************************************************************)
(* Small Git repositories.                                                 *)
(***************************************************************************)
EXTENDS GitDecode

(* Git objects: blobs from 31, trees from 21, tags from 11, commits 1 to 4. *)
Blob(bytes, size) == [kind |-> "blob", bytes |-> bytes, size |-> size]
Entry(name, mode, id) == [name |-> name, utf8 |-> TRUE, mode |-> mode, id |-> id]
Tree(entries) == [kind |-> "tree", entries |-> entries]
Tag(to, tagger) == [kind |-> "tag", to |-> to, tagger |-> tagger]
Commit(tree, parents) ==
    [kind |-> "commit", tree |-> tree, parents |-> parents, author |-> "well-formed",
     committer |-> "well-formed", encoding |-> "none", headers |-> {}]

GitData ==
    (31 :> Blob("x", 1)) @@ (32 :> Blob("y", 1)) @@ (33 :> Blob("big", 2))
    @@ (21 :> Tree({Entry("a", "file", 31)}))
    @@ (22 :> Tree({Entry("a", "file", 32), Entry("d", "tree", 21)}))
    @@ (23 :> Tree({Entry("b", "file", 31)}))
    @@ (24 :> Tree({Entry("a", "exec", 31), Entry("b", "file", 31)}))
    @@ (25 :> Tree({Entry("d", "tree", 22)}))
    @@ (26 :> Tree({Entry("a", "gitlink", 99)}))
    @@ (27 :> Tree({Entry("long", "file", 31)}))
    @@ (28 :> Tree({[Entry("a", "file", 31) EXCEPT !.utf8 = FALSE]}))
    @@ (29 :> Tree({Entry("a", "file", 33)}))
    @@ (20 :> Tree({Entry("a", "file", 31), Entry("a", "file", 32)}))
    @@ (11 :> Tag(3, <<"bad seconds">>)) @@ (12 :> Tag(11, <<"bad offset">>))
    @@ (13 :> Tag(12, <<>>)) @@ (14 :> Tag(21, <<"bad seconds">>)) @@ (15 :> Tag(31, <<"bad offset">>))

Repository(commits, refs) ==
    [kind |-> "git", defects |-> {}, refs |-> refs, objects |-> commits @@ GitData,
     altered |-> {}, renames |-> TRUE]

GitRef(space, name, to) ==
    [space |-> space, name |-> name, utf8 |-> TRUE, symbolic |-> FALSE, to |-> to]

(* Histories: who is whose parent.  Ids are not in the order of time.      *)
Shapes == {<< <<>>, <<1>>, <<2>>, <<3>> >>,
           << <<2>>, <<3>>, <<4>>, <<>> >>,
           << <<>>, <<1>>, <<1>>, <<3, 2>> >>,
           << <<2>>, <<>>, <<2>>, <<1, 3>> >>,
           << <<>>, <<>>, <<2, 1>>, <<1>> >>,
           << <<>>, <<1>>, <<1>>, <<1>> >>}

Tops(parents) == SetToSeq({c \in 1..4 : \A k \in 1..4 : c \notin ToSet(parents[k])})

Histories ==
    {LET tops == Tops(parents)
     IN  Repository([c \in 1..4 |-> Commit(trees[c], parents[c])],
                    [n \in DOMAIN tops |-> GitRef("heads", ToString(n), tops[n])]) :
        parents \in Shapes, trees \in [1..4 -> {21, 22, 23, 24}]}

(* One history whose top two commits are carried, or not.                  *)
Line4 == [c \in 1..4 |-> [Commit(20 + c, IF c = 1 THEN <<>> ELSE <<c - 1>>)
                             EXCEPT !.author = IF c = 1 THEN "bad offset" ELSE "well-formed",
                                    !.committer = IF c = 2 THEN "bad seconds" ELSE "well-formed",
                                    !.encoding = <<"none", "utf8", "raw", "none">>[c],
                                    !.headers = IF c = 2 THEN {"gpgsig"} ELSE {}]]

RefLists ==
    LET spaces == {"heads", "tags", "remotes", "notes", "stash", "other"}
    IN  {Repository(Line4, <<GitRef("heads", "main", 2), GitRef(s, "v", to)>>) :
            s \in spaces, to \in {2, 4, 11, 12, 13, 14, 15, 21, 31, 77}}
        \cup {Repository(Line4, <<GitRef("heads", "main", 2), [GitRef(s, "v", 4) EXCEPT !.utf8 = u, !.symbolic = y]>>) :
            s \in spaces \cup {"replace"}, u \in BOOLEAN, y \in BOOLEAN}
        \cup {Repository(Line4, <<GitRef("remotes", "r", 4), GitRef("tags", "v", 12),
                                  GitRef("heads", "w", 12)>>)}
        \cup {Repository(Line4, <<>>)}

Damage(repo) ==
    {[repo EXCEPT !.altered = {id}] : id \in DOMAIN repo.objects}
    \cup {[repo EXCEPT !.objects = Restrict(@, DOMAIN @ \ {id})] : id \in DOMAIN repo.objects}

Damaged ==
    Damage(Repository(Line4, <<GitRef("heads", "main", 2), GitRef("remotes", "r", 4)>>))
    \cup Damage(Repository(Line4, <<GitRef("heads", "main", 4), GitRef("tags", "v", 12)>>))

BelowFloor ==
    {[Repository(Line4, <<GitRef("heads", "main", 4)>>) EXCEPT !.defects = {Defects[n], Defects[k]}] : n, k \in DOMAIN Defects}
    \cup {Repository([Line4 EXCEPT ![3].tree = t], <<GitRef("heads", "main", to)>>) :
             t \in {20} \cup 25..29, to \in {2, 4}}
    \cup {Repository([Line4 EXCEPT ![3].headers = {"raw"}], <<GitRef("heads", "main", to)>>) : to \in {2, 4}}
    \cup {Repository(Line4 @@ (5 :> Commit(21, <<4>>)), <<GitRef("heads", "main", 5)>>)}

TheGitRepos == Histories \cup RefLists \cup Damaged \cup BelowFloor
=============================================================================
