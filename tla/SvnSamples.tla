----------------------------- MODULE SvnSamples -----------------------------
(***************************************************************************)
(* Small Subversion dumps, and programs that write them.                   *)
(***************************************************************************)
EXTENDS SvnDecode

Format(version) == [rec |-> "format", version |-> version]
Rev(number) == [rec |-> "revision", number |-> number, date |-> "parses", props |-> {}, body |-> "sound"]

NoSums == [content |-> {}, base |-> {}, source |-> {}]
Node(path, action, nodeKind) ==
    [rec |-> "node", path |-> path, action |-> action, nodeKind |-> nodeKind, from |-> {},
     props |-> {}, text |-> {}, sums |-> NoSums, body |-> "sound"]

Full(text) == {[delta |-> FALSE, data |-> text]}
Delta(windows) == {[delta |-> TRUE, version |-> 0, windows |-> windows, data |-> ""]}
Window(from, len, target, instructions, new) ==
    [from |-> from, len |-> len, target |-> target, instructions |-> instructions, new |-> new]
Ins(op, len, offset) == [op |-> op, len |-> len, offset |-> offset]

Change(key, set) == [key |-> key, set |-> set]
Block(delta, changes) == {[delta |-> delta, changes |-> changes]}

FileNode(path, action, text) ==
    [Node(path, action, "file") EXCEPT !.text = Full(text), !.sums.content = {text}]
DirNode(path, action) == Node(path, action, "dir")
Copy(node, rev, path) == [node EXCEPT !.from = {[rev |-> rev, path |-> path]}]
Gone(path) == Node(path, "delete", "none")

T == <<"trunk">>
F == <<"trunk", "f">>
D == <<"trunk", "d">>
G == <<"trunk", "d", "g">>
B == <<"branches", "b">>
BF == <<"branches", "b", "f">>
BG == <<"branches", "b", "d", "g">>

\* The base of F is "ab": the target is "abb", by a copy that overlaps.
Overlap == Delta(<<Window(0, 2, 3, <<Ins("source", 2, 0), Ins("target", 1, 1)>>, "")>>)
\* "x", and five more of it.
Run == Delta(<<Window(0, 0, 6, <<Ins("new", 1, 0), Ins("target", 5, 0)>>, "x")>>)

First == <<Rev(1), DirNode(T, "add"), FileNode(F, "add", "ab"), DirNode(D, "add"), FileNode(G, "add", "g")>>

(* What a second and a third revision do.                                  *)
Seconds ==
    {Copy(DirNode(B, "add"), 1, T), Copy(DirNode(<<"tags", "v">>, "add"), 1, T),
     FileNode(F, "change", "link a"), Gone(T), Copy(Node(BF, "add", "file"), 1, F),
     [Node(F, "change", "none") EXCEPT !.props = Block(FALSE, <<Change("svn:executable", TRUE)>>)],
     DirNode(<<"branches">>, "add"), Copy(DirNode(<<"branches">>, "add"), 1, <<"">>)}

Thirds ==
    {Gone(G), Gone(B), Gone(<<"branches">>), Gone(F),
     DirNode(D, "replace"), Copy(DirNode(D, "replace"), 1, T), Copy(DirNode(<<"branches">>, "replace"), 1, T),
     Copy(DirNode(B, "add"), 1, T), Copy(DirNode(B, "add"), 2, T), Copy(Node(G, "replace", "file"), 1, F),
     FileNode(F, "replace", "ab"), FileNode(F, "change", "c"), FileNode(G, "add", "h"), FileNode(BG, "change", "i"),
     [Node(F, "change", "file") EXCEPT !.text = Overlap, !.sums.base = {"ab"}, !.sums.content = {"abb"}],
     [Copy(Node(BF, "add", "file"), 1, F) EXCEPT !.text = Overlap, !.sums.source = {"ab"}, !.sums.content = {"abb"}],
     [Node(F, "change", "none") EXCEPT !.props = Block(TRUE, <<Change("svn:special", TRUE)>>)]}

Dumps ==
    {<<Format(2)>> \o First \o <<Rev(2), second, Rev(3), third, fourth>> :
        second \in Seconds, third \in Thirds, fourth \in Thirds}

(* One node more on the first revision.                                    *)
Edits ==
    {FileNode(F, "change", "link f"),
     [FileNode(F, "change", "xx") EXCEPT !.sums.content = {"yy"}],
     [Node(F, "change", "file") EXCEPT !.text = Overlap, !.sums.base = {"zz"}],
     [Copy(FileNode(BF, "add", "xx"), 1, F) EXCEPT !.sums.source = {"zz"}],
     [Copy(FileNode(BF, "add", "xx"), 1, F) EXCEPT !.sums.source = {"ab"}],
     FileNode(F, "change", "too long"),
     [Node(F, "change", "file") EXCEPT !.text = Run, !.sums.content = {"xxxxxx"}],
     [Node(F, "add", "file") EXCEPT !.text = Run, !.sums.content = {"xxxxxx"}],
     [Node(BF, "change", "file") EXCEPT !.text = Run],
     Node(BF, "add", "file"), Node(BF, "change", "none"),
     Copy(DirNode(B, "add"), 7, T), Copy(Node(BF, "add", "file"), 7, F),
     Copy(Node(BF, "add", "file"), 1, <<"none">>),
     [FileNode(F, "change", "link f") EXCEPT !.props = Block(FALSE, <<Change("svn:special", TRUE), Change("svn:executable", TRUE)>>)],
     [FileNode(F, "change", "xx") EXCEPT !.props = Block(FALSE, <<Change("svn:special", TRUE)>>)],
     [FileNode(F, "change", "xx") EXCEPT !.body = "lengths disagree"],
     [FileNode(F, "change", "xx") EXCEPT !.body = "past the end"],
     [FileNode(F, "change", "xx") EXCEPT !.body = "bad block"],
     [FileNode(F, "change", "xx") EXCEPT !.action = "move"],
     [FileNode(F, "change", "xx") EXCEPT !.nodeKind = "link"],
     [Node(F, "change", "file") EXCEPT !.props = Block(FALSE, <<Change("custom", FALSE)>>)],
     [DirNode(T, "change") EXCEPT !.props = Block(FALSE, <<Change("svn:externals", TRUE)>>)],
     [DirNode(T, "change") EXCEPT !.props = Block(TRUE, <<Change("svn:externals", FALSE), Change("svn:mergeinfo", TRUE),
                                                         Change("svn:ignore", TRUE), Change("custom", TRUE)>>)],
     DirNode(<<"trunk", "e">>, "add"), FileNode(<<"branches", "trunk", "f">>, "add", "t"),
     FileNode(<<"elsewhere">>, "add", "e")}
    \cup {[Node(F, "change", "file") EXCEPT !.text = Delta(<<w>>)] :
            w \in {Window(0, 3, 0, <<>>, ""), Window(1, 1, 1, <<Ins("source", 1, 1)>>, ""),
                   Window(0, 0, 1, <<Ins("target", 1, 0)>>, ""), Window(0, 0, 1, <<Ins("new", 2, 0)>>, "xx"),
                   Window(0, 0, 2, <<Ins("new", 1, 0)>>, "x"), Window(0, 0, 1, <<Ins("new", 1, 0)>>, "xy"),
                   Window(0, 0, 9, <<Ins("new", 9, 0)>>, "xxxxxxxxx"), Window(0, 1, 1, <<Ins("other", 1, 0)>>, "")}}
    \cup {[Node(F, "change", "file") EXCEPT !.text = {[d EXCEPT !.version = v] : d \in Run}] : v \in 1..3}

\* Every edit is done again, and again, so that what deltas make adds up.
Edited == {<<Format(3)>> \o First \o <<Rev(2), e, Rev(3), e, Rev(4), FileNode(F, "change", "xx")>> : e \in Edits}

Odd ==
    {<<>>, <<Rev(1)>>, <<Format(3), Node(F, "add", "file")>>, <<Format(4), Rev(1)>>, <<Format(0), Rev(1)>>,
     <<Format(1)>>, <<Format(1), [rec |-> "uuid"]>>, <<Rev(1), [rec |-> "malformed"], Format(1)>>,
     <<Format(1), [rec |-> "other", props |-> {}, body |-> "sound"], Rev(1)>>,
     <<Format(1), [rec |-> "other", props |-> {}, body |-> "past the end"], Rev(1)>>,
     <<Format(1), [Rev(1) EXCEPT !.date = "unparseable"], [Rev(2) EXCEPT !.date = "none"]>>,
     <<Format(2)>> \o [n \in 1..14 |-> Rev(n)],
     <<Format(2)>> \o First \o <<Rev(2), FileNode(F, "change", "c"), FileNode(<<"branches", "trunk", "f">>, "add", "t")>>,
     <<Format(2)>> \o First \o <<Rev(1), FileNode(F, "change", "c"), Rev(2), Copy(Node(BF, "add", "file"), 1, F)>>,
     <<Format(2)>> \o First \o <<Rev(2), Copy(DirNode(<<"">>, "change"), 1, T), Gone(<<"">>)>>,
     <<Format(2)>> \o First \o <<Rev(2), [FileNode(F, "replace", "c") EXCEPT !.nodeKind = "none"], FileNode(F, "add", "ab")>>}

Dumpfile(dumped, refs) ==
    [kind |-> "svn", place |-> "dumpfile", dump |-> dumped, program |-> NoProgram, version |-> TRUE,
     refs |-> refs]

Dumpfiles == {Dumpfile(d, TRUE) : d \in Dumps \cup Edited \cup Odd} \cup {Dumpfile(d, FALSE) : d \in Edited \cup Odd}

(* Repositories: what svnadmin writes to its two pipes.                    *)
Out(item) == [to |-> "out", item |-> item]
Err == [to |-> "err", item |-> [rec |-> "noise"]]
Written(dumped) == [n \in DOMAIN dumped |-> Out(dumped[n])]
ShortDump == <<Format(2), Rev(1), FileNode(F, "add", "ab")>>

Programs ==
    {[writes |-> w, code |-> c, starts |-> TRUE] : c \in {0, 1},
        w \in {Written(ShortDump), <<Err, Err, Err, Err>> \o Written(ShortDump),
               Written(ShortDump) \o <<Err, Err, Err>>, <<Err>>, <<>>,
               <<Out(Format(2)), Err, Out(Rev(1)), Err, Err, Out(FileNode(F, "add", "ab"))>>,
               Written(<<Format(2)>> \o [n \in 1..13 |-> Rev(n)]) \o <<Err, Out(Rev(14)), Out(Rev(15))>>}}
    \cup {[writes |-> <<>>, code |-> 0, starts |-> FALSE]}

Repositories ==
    {[Dumpfile(<<>>, TRUE) EXCEPT !.place = "repository", !.program = p, !.version = v] :
        p \in Programs, v \in BOOLEAN}
    \cup {[Dumpfile(<<>>, TRUE) EXCEPT !.place = p] : p \in {"url", "absent", "neither"}}

TheSvnSources == Dumpfiles \cup Repositories
=============================================================================
