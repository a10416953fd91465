----------------------------- MODULE HgSamples -----------------------------
(***************************************************************************)
(* Small Mercurial repositories: changesets are nodes from 11, manifests   *)
(* from 21, file revisions from 31.                                        *)
(***************************************************************************)
EXTENDS HgDecode

FileLine(bytes) == [of |-> "line", bytes |-> bytes]
Header(from, rev) == [of |-> "header", from |-> {from}, rev |-> rev, malformed |-> FALSE, bytes |-> "H"]

PathA == <<"a">>
PathB == <<"b">>
PathC == <<"c">>
Subrepos == <<".hgsub">>

(* The file revisions: where each is, its parent in its filelog, its text. *)
FileRevisions ==
    (31 :> [path |-> PathA, parent |-> NullNode, text |-> <<FileLine("x")>>])
    @@ (32 :> [path |-> PathA, parent |-> 31, text |-> <<FileLine("x"), FileLine("y")>>])
    @@ (33 :> [path |-> PathB, parent |-> NullNode, text |-> <<Header(PathA, {31}), FileLine("x")>>])
    @@ (34 :> [path |-> PathB, parent |-> NullNode, text |-> <<Header(PathA, {32}), FileLine("x"), FileLine("y")>>])
    @@ (35 :> [path |-> PathC, parent |-> NullNode, text |-> <<FileLine("z")>>])
    @@ (36 :> [path |-> PathC, parent |-> 35, text |-> <<Header(PathA, {32}), FileLine("z")>>])
    @@ (37 :> [path |-> PathB, parent |-> NullNode, text |-> <<Header(PathA, {})>>])
    @@ (38 :> [path |-> PathB, parent |-> NullNode, text |-> <<Header(PathA, {39}), FileLine("x")>>])
    @@ (40 :> [path |-> Subrepos, parent |-> NullNode, text |-> <<>>])
    @@ (41 :> [path |-> PathB, parent |-> NullNode, text |-> <<Header(<<"lost">>, {31})>>])
    @@ (42 :> [path |-> PathB, parent |-> NullNode, text |-> <<[Header(PathA, {31}) EXCEPT !.malformed = TRUE]>>])
    @@ (43 :> [path |-> <<"..", "a">>, parent |-> NullNode, text |-> <<>>])

PathOfFile(f) == FileRevisions[f].path

FilesAt == [path \in {PathOfFile(f) : f \in DOMAIN FileRevisions} |->
               Sorted({f \in DOMAIN FileRevisions : PathOfFile(f) = path}, <)]

(* What a changeset holds: a sequence of file revisions, an executable     *)
(* one with 100 added.                                                     *)
LineOf(f) ==
    [of |-> "file", path |-> FileRevisions[f % 100].path, node |-> f % 100,
     mode |-> IF f > 100 THEN "exec" ELSE "file", utf8 |-> TRUE]
LinesOf(content) == [n \in DOMAIN content |-> LineOf(content[n])]

HgEntry(node, p1, p2, link, text) ==
    [flags |-> {}, base |-> NULL_REV, link |-> link, p1 |-> p1, p2 |-> p2, node |-> node,
     codec |-> "none", body |-> text, len |-> Len(text)]

(* An entry that is stored as a delta against the one before it: what both *)
(* texts begin with is kept.                                               *)
AgainstPrevious(entry, rev, base) ==
    LET same == Max({0} \cup {k \in 1..Min({Len(base), Len(entry.body)}) :
                                 SubSeq(base, 1, k) = SubSeq(entry.body, 1, k)})
    IN  [entry EXCEPT !.base = rev - 1, !.codec = "zlib",
             !.body = <<[start |-> same, end |-> Len(base), data |-> SubSeq(@, same + 1, Len(@))]>>]

HgLog(entries) ==
    [version |-> 1, split |-> TRUE, data |-> TRUE,
     entries |-> [r \in DOMAIN entries |->
                     IF r = 0 \/ entries[r].p1 = NULL_REV THEN entries[r]
                     ELSE AgainstPrevious(entries[r], r, entries[r - 1].body)]]

(* A repository of changesets with these parents (0 is the first), holding *)
(* these files; a file revision is linked to the first changeset that      *)
(* holds it.                                                               *)
HgRepo(parents, contents) ==
    LET revs       == 0..(Len(parents) - 1)
        Parents(r) == parents[r + 1]
        Content(r) == contents[r + 1]
        NodeIn(first, r) == IF r = NULL_REV THEN NullNode ELSE first + r
        NodesIn(first, r) == {NodeIn(first, p) : p \in ToSet(Parents(r))}
        Text(r)    == <<[of |-> "changeset", manifest |-> 21 + r, branch |-> "default",
                         extras |-> {}, whole |-> r # 1]>>
        HasFile(r, f) == f \in ToSet(Content(r)) \/ f + 100 \in ToSet(Content(r))
        Used(f)    == \E r \in revs : HasFile(r, f)
        Nodes(path) == SelectSeq(FilesAt[path], Used)
        Place(f)   == IF f # NullNode /\ Used(f)
                      THEN Len(SelectSeq(FilesAt[FileRevisions[f].path], LAMBDA g : g < f /\ Used(g))) ELSE NULL_REV
        Link(f)    == CHOOSE r \in revs : HasFile(r, f) /\ \A q \in 0..(r - 1) : ~HasFile(q, f)
        FileEntry(f) == HgEntry(f, Place(FileRevisions[f].parent), NULL_REV, Link(f), FileRevisions[f].text)
    IN  [kind |-> "hg", defects |-> {}, requires |-> <<"revlogv1", "store", "fncache">>,
         changelog |-> {HgLog([r \in revs |-> HgEntry(11 + r, Parents(r)[1], Parents(r)[2], r, Text(r))])},
         manifests |-> {HgLog([r \in revs |-> HgEntry(21 + r, Parents(r)[1], Parents(r)[2], r, LinesOf(Content(r)))])},
         filelogs  |-> [path \in {PathOfFile(f) : f \in {g \in DOMAIN FileRevisions : Used(g)}} |->
                          HgLog([k \in 0..(Len(Nodes(path)) - 1) |-> FileEntry(Nodes(path)[k + 1])])],
         made      |-> [node \in {11 + r : r \in revs} |-> [parents |-> NodesIn(11, node - 11), text |-> Text(node - 11)]]
                       @@ [node \in {21 + r : r \in revs} |->
                             [parents |-> NodesIn(21, node - 21), text |-> LinesOf(Content(node - 21))]]
                       @@ [f \in {g \in DOMAIN FileRevisions : Used(g)} |->
                             [parents |-> {NullNode} \cup {p \in {FileRevisions[f].parent} : p # NullNode /\ Used(p)},
                              text |-> FileRevisions[f].text]],
         phaseroots |-> {}, obsstore |-> {}, bookmarks |-> <<>>, pins |-> {}, unreadable |-> {},
         present |-> {}, merging |-> FALSE]

Root0 == <<NULL_REV, NULL_REV>>
ChildOf(p) == <<p, NULL_REV>>

HgShapes ==
    {<<Root0, ChildOf(0), ChildOf(1), ChildOf(2)>>,
     <<Root0, ChildOf(0), ChildOf(0), <<1, 2>> >>,
     <<Root0, ChildOf(0), ChildOf(0), <<2, 1>> >>,
     <<Root0, Root0, ChildOf(1), ChildOf(2)>>,
     <<Root0, ChildOf(0), ChildOf(0), ChildOf(1)>>}

(* Files appear, change, are copied in one changeset and another, and go.  *)
HgHistories ==
    {HgRepo(of[1], <<<<31>>, of[2], of[3], of[4]>>) :
        of \in {x \in HgShapes \X {<<131, 35>>, <<32>>, <<>>, <<32, 33>>}
                     \X {<<31>>, <<32>>, <<32, 33>>, <<34>>, <<31, 35>>}
                     \X {<<33>>, <<31, 34>>, <<32, 37>>, <<38, 35>>, <<32, 36>>, <<>>} : x[2] # x[3]}}

(* The third changeset is secret, or hidden, or is not, and the fourth one *)
(* descends from the second or from it.                                    *)
Viewed ==
    {[HgRepo(<<Root0, ChildOf(0), ChildOf(1), ChildOf(top)>>, <<<<31>>, <<32>>, <<32, 33>>, <<31, 34>>>>) EXCEPT
         !.phaseroots = {[phase |-> p, node |-> 13], [phase |-> 1, node |-> 11]},
         !.obsstore = obsolete, !.present = {"phaseroots", "obsstore"},
         !.bookmarks = bookmarks, !.pins = pins] :
        top \in {1, 2}, p \in {1, 2, 3, 96}, obsolete \in {{}, {13}, {13, 99}, {12, 13}, {12, 13, 14}},
        bookmarks \in {<<>>, <<[name |-> "m", node |-> 13]>>,
                       <<[name |-> "m", node |-> 12], [name |-> "m", node |-> 12]>>,
                       <<[name |-> "m", node |-> 12], [name |-> "m", node |-> 13], [name |-> "k", node |-> 99]>>},
        pins \in {{}, {14}}}

(* Every revision of a repository whose third changeset is secret, damaged *)
(* in every way; and every file of it.                                     *)
HgSound ==
    [HgRepo(<<Root0, ChildOf(0), ChildOf(1), ChildOf(1)>>, <<<<31>>, <<31, 35>>, <<31, 38>>, <<32, 33, 35>>>>) EXCEPT
        !.phaseroots = {[phase |-> 2, node |-> 13]}]

BadHunks == {<<[start |-> 9, end |-> 9, data |-> <<>>]>>, <<[start |-> 1, end |-> 0, data |-> <<>>]>>,
             <<[start |-> 0, end |-> 1, data |-> <<>>], [start |-> 0, end |-> 1, data |-> <<>>]>>}

Altered(entry) ==
    {[entry EXCEPT !.flags = {flag}] : flag \in ToSet(RefusedFlags)}
    \cup {[entry EXCEPT !.flags = {"known to leave the hash as it is"}],
          [entry EXCEPT !.codec = "unheard of"], [entry EXCEPT !.len = @ + 1],
          [entry EXCEPT !.base = 9], [entry EXCEPT !.node = 98]}
    \cup {[entry EXCEPT !.p2 = p] : p \in {0, 9}}
    \cup (IF entry.base < 0 THEN {[entry EXCEPT !.body = @ \o @, !.len = 2 * @]}
          ELSE {[entry EXCEPT !.body = hunks] : hunks \in BadHunks})

DamagedLogs(log) ==
    {[log EXCEPT !.version = 2], [log EXCEPT !.data = FALSE], [log EXCEPT !.split = FALSE, !.data = FALSE]}
    \cup UNION {{[log EXCEPT !.entries[r] = entry] : entry \in Altered(log.entries[r])} : r \in DOMAIN log.entries}

HgDamaged ==
    {[HgSound EXCEPT !.changelog = {log}] :
        log \in {l \in DamagedLogs(OneOf(HgSound.changelog)) : \A r \in DOMAIN l.entries : l.entries[r].p2 = NULL_REV}}
    \cup {[HgSound EXCEPT !.manifests = {log}] : log \in DamagedLogs(OneOf(HgSound.manifests))}
    \cup (UNION {{[HgSound EXCEPT !.filelogs[path] = log] : log \in DamagedLogs(HgSound.filelogs[path])} :
                   path \in DOMAIN HgSound.filelogs})
    \cup {[HgSound EXCEPT !.filelogs = Restrict(@, DOMAIN @ \ {path})] : path \in DOMAIN HgSound.filelogs}
    \cup {[HgSound EXCEPT !.changelog = {}], [HgSound EXCEPT !.manifests = {}],
          [HgSound EXCEPT !.merging = TRUE],
          [HgSound EXCEPT !.changelog = {HgLog([r \in {} |-> r])}, !.merging = TRUE, !.bookmarks = <<[name |-> "m", node |-> 0]>>]}
    \cup {[HgSound EXCEPT !.unreadable = {ViewFiles[n], ViewFiles[k]}] : n, k \in DOMAIN ViewFiles}

(* Texts that are what their nodes were made of, and are refused, or not:  *)
(* of the secret changeset, and of the one beside it.                      *)
Rewritten(repo, r, changeset) ==
    LET log == OneOf(repo.changelog)
    IN  [repo EXCEPT !.changelog = {[log EXCEPT !.entries[r].body = <<changeset>>, !.entries[r].base = r]},
                     !.made[11 + r].text = <<changeset>>]

HgOdd ==
    (UNION {{Rewritten(HgSound, r, [OneOf(HgSound.changelog).entries[0].body[1] EXCEPT !.extras = extras, !.manifest = m]) :
               extras \in {{"malformed"}, {"raw key"}, {"close"}}, m \in {NullNode, 22, 97}} : r \in {2, 3}})
    \cup {[HgRepo(<<Root0, ChildOf(0), ChildOf(0)>>, <<<<31>>, <<31, f>>, <<31, 35>>>>) EXCEPT
             !.phaseroots = {[phase |-> p, node |-> 12]}] : f \in {40, 41, 42, 43}, p \in {1, 2}}
    \cup {LET repo == HgRepo(<<Root0>>, <<<<31>>>>)
              line == [LineOf(31) EXCEPT !.utf8 = utf8, !.mode = mode]
          IN  [repo EXCEPT !.manifests = {HgLog([k \in {0} |-> HgEntry(21, NULL_REV, NULL_REV, 0, <<line>>)])},
                           !.made[21].text = <<line>>] :
             utf8 \in BOOLEAN, mode \in {"exec", "unknown flag"}}

HgGate ==
    {[HgSound EXCEPT !.requires = <<"revlogv1", q>> \o rest] :
        q \in {"fncache", "largefiles", "treemanifest", "dotencode"}, rest \in {<<>>, <<"lfs">>, <<"store">>}}
    \cup {[HgSound EXCEPT !.defects = {HgDefects[n], HgDefects[k]}] : n, k \in DOMAIN HgDefects}

(* Links that say what they like: a file revision copied long after it was  *)
(* last there.                                                             *)
HgLinks ==
    {[HgRepo(<<Root0, ChildOf(0), ChildOf(1), ChildOf(2)>>, <<<<31>>, <<32>>, <<131>>, <<31, 34>>>>) EXCEPT
         !.filelogs[PathA].entries[1].link = link] : link \in NULL_REV..3}

TheHgRepos == HgHistories \cup Viewed \cup HgDamaged \cup HgOdd \cup HgGate \cup HgLinks
=============================================================================
