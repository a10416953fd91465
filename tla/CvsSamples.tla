----------------------------- MODULE CvsSamples -----------------------------
(***************************************************************************)
(* Small CVS repositories.  The chains and edit scripts of a file are made *)
(* of the texts its revisions are meant to have.                           *)
(***************************************************************************)
EXTENDS CvsDecode

(* Revisions.                                                              *)
At0(date, text) == [dated |-> TRUE, date |-> date, by |-> "ann", state |-> "Exp", is |-> text]
DeadAt(date, text) == [At0(date, text) EXCEPT !.state = "dead"]

OnTrunk(r) == Len(r) = 2

\* What comes before and after a revision in its chain.
Before(revs, r) ==
    LET above == {q \in DOMAIN revs : OnTrunk(q) /\ RevLess(r, q)}
        below == {q \in DOMAIN revs : BranchOf(q) = BranchOf(r) /\ RevLess(q, r)}
    IN  IF OnTrunk(r) THEN IF above = {} THEN <<>> ELSE CHOOSE q \in above : \A s \in above : s = q \/ RevLess(q, s)
        ELSE IF below = {} THEN BranchOf(BranchOf(r))
        ELSE CHOOSE q \in below : \A s \in below : s = q \/ RevLess(s, q)
Next0(revs, r) ==
    LET after == {q \in DOMAIN revs : Before(revs, q) = r /\ Len(q) = Len(r)}
    IN  IF after = {} THEN <<>> ELSE OneOf(after)

\* Keep the common beginning, delete the rest, add the new rest.
EditScript(from, to) ==
    LET same == Max({n \in 0..Len(from) : n <= Len(to) /\ SubSeq(from, 1, n) = SubSeq(to, 1, n)})
    IN  (IF Len(from) > same THEN <<[op |-> "d", at |-> same + 1, count |-> Len(from) - same]>> ELSE <<>>)
        \o (IF Len(to) > same THEN <<[op |-> "a", at |-> Len(from), lines |-> SubSeq(to, same + 1, Len(to))]>> ELSE <<>>)

Rcs(branch, symbols, revs) ==
    LET trunk == {r \in DOMAIN revs : OnTrunk(r)}
        Firsts(r) == {q \in DOMAIN revs : ~OnTrunk(q) /\ Before(revs, q) = r /\ BranchOf(BranchOf(q)) = r}
    IN  [truncated |-> FALSE, symbols |-> symbols, branch |-> branch,
         head |-> IF trunk = {} THEN <<1, 1>> ELSE CHOOSE r \in trunk : \A q \in trunk : q = r \/ RevLess(q, r),
         expand |-> Len(symbols) = 1,
         revisions |->
            [r \in DOMAIN revs |->
               LET last == Before(revs, r)
               IN  [dated |-> revs[r].dated, date |-> revs[r].date, by |-> revs[r].by, state |-> revs[r].state,
                    is |-> revs[r].is, branches |-> Sorted(Firsts(r), RevLess), next |-> Next0(revs, r),
                    full |-> IF last = <<>> THEN revs[r].is ELSE <<>>,
                    script |-> IF last = <<>> \/ last \notin DOMAIN revs THEN <<>>
                               ELSE EditScript(revs[last].is, revs[r].is)]]]

EntryOf(path, rcs) ==
    [admin |-> FALSE, kind |-> "file", isRcs |-> TRUE, utf8 |-> TRUE, path |-> path, swapped |-> FALSE,
     size |-> 1, rcs |-> rcs]

Repo(rcsFiles) ==
    [kind |-> "cvs", place |-> "repository", entries |-> [n \in DOMAIN rcsFiles |-> EntryOf(n, rcsFiles[n])],
     refs |-> TRUE, window |-> 1, floor |-> 10]

Sym(name, rev) == [name |-> name, rev |-> rev, utf8 |-> TRUE]

\* A revision on a branch adds a line to what is at the branch point.
Text(r) ==
    LET text[n \in 1..4] ==
          IF n = 1 THEN (IF r[2] = 3 THEN <<"x", "y", "z">> ELSE <<"x">>) \o <<ToString(r[2])>>
          ELSE LET point == text[n - 1] IN Append(point, ToString(SubSeq(r, 1, 2 * n)))
    IN  text[Len(r) \div 2]

\* A trunk whose n-th revision has the n-th date.
Trunk(dates) ==
    [r \in {<<1, n>> : n \in DOMAIN dates} |-> At0(dates[r[2]], Text(r))]
Branched(r, date) == r :> At0(date, Text(r))

(* Dates that contradict the order of the revisions, of two files and two  *)
(* authors, and a branch from the middle of them.                          *)
Skews ==
    {LET one == Trunk(d) @@ Branched(<<1, 2, 2, 1>>, d[3] + 1)
         two == Trunk(e) @@ Branched(<<1, 2, 2, 1>>, e[1])
     IN  Repo(<<Rcs(<<>>, <<Sym(1, <<1, 2, 0, 2>>)>>, one),
                Rcs(<<>>, <<Sym(1, <<1, 2, 0, 2>>), Sym(2, <<1, 3>>)>>, [two EXCEPT ![<<1, 2>>].by = by])>>) :
        d \in [1..3 -> {0, 2, 3}], e \in [1..3 -> {0, 2}], by \in {"ann", "bob"}}

(* Where branches leave: three files, two branches, the second maybe from  *)
(* the first.                                                              *)
Sprouting(p1, p2, p3, point2) ==
    LET tip == <<1, 1, 2, 1>>
        one == Trunk(<<0, 5, 9>>) @@ Branched(tip, 6) @@ Branched(tip \o <<2, 1>>, 12)
        two == Trunk(<<0, 3, 9>>) @@ Branched(<<1, 2, 2, 1>>, 6)
        three == <<1, 2>> :> DeadAt(5, <<"z">>) @@ Trunk(<<0>>)
    IN  Repo(<<Rcs(<<>>, <<Sym(1, p1), Sym(2, point2 \o <<0, 2>>), Sym(4, <<1, 3>>), Sym(5, tip)>>, one),
               Rcs(<<>>, <<Sym(1, p2), Sym(2, <<1, 2, 0, 4>>)>>, two),
               Rcs(<<>>, <<Sym(3, <<1, 2, 0, 2>>), Sym(1, p3), Sym(6, <<1, 9>>)>>, three)>>)

Branches ==
    {Sprouting(p1, p2, p3, point2) :
        p1 \in {<<1, 1, 0, 2>>, <<1, 2, 0, 2>>},
        p2 \in {<<1, 1, 0, 2>>, <<1, 2, 0, 2>>, <<1, 9, 0, 2>>, <<1, 3, 0, 6>>},
        p3 \in {<<1, 1, 0, 2>>, <<1, 2, 0, 4>>, <<1, 7, 0, 2>>},
        point2 \in {<<1, 1, 2, 1>>, <<1, 3>>}}
    \cup {[r EXCEPT !.refs = FALSE, !.floor = f] : r \in {Sprouting(<<1, 1, 0, 2>>, <<1, 2, 0, 2>>, <<1, 1, 0, 2>>, <<1, 3>>)},
            f \in {0, 10, 101}}

(* Vendor branches: an import repeats its branch point, or does not.       *)
Vendors ==
    {LET import == [r \in {<<1, 1>>, <<1, 1, 1, 1>>, <<1, 1, 1, 2>>} |->
                      At0(IF r = <<1, 1, 1, 2>> THEN 4 ELSE IF r = <<1, 1>> THEN 1 ELSE same,
                          IF r = <<1, 1>> THEN Text(<<1, 1, 1, 1>>) ELSE Text(r))]
         local == IF late = 0 THEN EmptyTree ELSE <<1, 2>> :> At0(late, <<"local">>)
     IN  Repo(<<Rcs(default, <<Sym(7, <<1, 1, 1>>), Sym(8, <<1, 1, 1, 1>>), Sym(1, point)>>, import @@ local),
                Rcs(<<>>, <<Sym(1, <<1, 1, 0, 2>>)>>, Trunk(<<0, 2>>) @@ Branched(<<1, 1, 2, 1>>, 7))>>) :
        default \in {<<>>, <<1, 1, 1>>, <<1, 1, 3>>}, same \in {1, 2}, late \in {0, 5},
        point \in {<<1, 1, 0, 2>>, <<1, 1, 1, 2, 0, 2>>, <<1, 1, 1, 1, 0, 2>>}}

(* Branches that have no line to be cut from, or no name.                  *)
Strays ==
    LET tip == <<1, 1, 2, 1>>
        deep == Trunk(<<0>>) @@ Branched(tip, 3) @@ Branched(tip \o <<2, 1>>, 6) @@ Branched(tip \o <<2, 1, 2, 1>>, 9)
    IN  {Repo(<<Rcs(<<>>, symbols, deep)>>) :
           symbols \in {<<>>, <<Sym(1, tip \o <<0, 2>>)>>, <<Sym(1, tip \o <<0, 2>>), Sym(2, <<1, 1, 0, 2>>)>>,
                        <<Sym(1, tip \o <<2, 1, 0, 2>>), Sym(2, tip \o <<0, 2>>)>>,
                        <<Sym(1, tip \o <<2, 1, 0, 2>>), Sym(2, tip \o <<0, 2>>), Sym(3, <<1, 1, 0, 2>>)>>}}
        \cup {Repo(<<Rcs(<<>>, <<Sym(1, <<1, 2, 0, 2>>)>>, Trunk(<<0>>) @@ (<<1, 2>> :> DeadAt(2, <<"z">>)))>>),
              Repo(<<Rcs(<<>>, <<Sym(1, <<1, 1, 0, 2>>)>>, <<1, 1>> :> DeadAt(2, <<"z">>))>>),
              Repo(<<Rcs(<<>>, <<Sym(1, <<1, 9, 0, 2>>)>>, Trunk(<<0>>) @@ (<<1, 9, 2, 1>> :> At0(2, <<"z">>)))>>)}

(* One thing wrong with the second of three entries.                       *)
Sound == Rcs(<<>>, <<Sym(1, <<1, 1, 0, 2>>), Sym(2, <<1, 2>>)>>, Trunk(<<0, 3, 6>>) @@ Branched(<<1, 1, 2, 1>>, 4))
Around(entry) ==
    [Repo(<<Sound, Sound, Sound>>) EXCEPT !.entries = <<[@[1] EXCEPT !.path = 3], entry, [@[3] EXCEPT !.path = 1]>>]
Whole == EntryOf(2, Sound)
OneWrong ==
    {Around(entry) : entry \in
        {[Whole EXCEPT !.admin = TRUE, !.utf8 = FALSE], [Whole EXCEPT !.kind = "symlink"],
         [Whole EXCEPT !.admin = TRUE, !.kind = "symlink"], [Whole EXCEPT !.kind = "directory"],
         [Whole EXCEPT !.isRcs = FALSE], [Whole EXCEPT !.utf8 = FALSE], [Whole EXCEPT !.path = 3],
         [Whole EXCEPT !.swapped = TRUE], [Whole EXCEPT !.size = 9]}}
    \cup {Around([Whole EXCEPT !.rcs = rcs]) : rcs \in
        {[Sound EXCEPT !.truncated = TRUE], [Sound EXCEPT !.symbols[1].utf8 = FALSE],
         [Sound EXCEPT !.symbols[1].rev = <<>>], [Sound EXCEPT !.branch = <<1, 1>>],
         [Sound EXCEPT !.head = <<>>], [Sound EXCEPT !.revisions[<<1, 2>>].dated = FALSE],
         [Sound EXCEPT !.head = <<1, 9>>], [Sound EXCEPT !.head = <<1, 2>>],
         [Sound EXCEPT !.revisions[<<1, 3>>].next = <<1, 1>>], [Sound EXCEPT !.revisions[<<1, 2>>].next = <<>>],
         [Sound EXCEPT !.revisions[<<1, 2>>].next = <<1, 3>>], [Sound EXCEPT !.revisions[<<1, 2>>].next = <<1, 7>>],
         [Sound EXCEPT !.revisions[<<1, 1>>].branches = <<>>],
         [Sound EXCEPT !.revisions[<<1, 1>>].branches = <<<<1, 1, 4, 1>>>>],
         [Sound EXCEPT !.revisions[<<1, 2>>].script = <<[op |-> "d", at |-> 9, count |-> 1]>>],
         [Sound EXCEPT !.revisions[<<1, 2>>].script = <<[op |-> "d", at |-> 2, count |-> 1], [op |-> "d", at |-> 1, count |-> 1]>>],
         [Sound EXCEPT !.revisions[<<1, 2>>].script = <<[op |-> "a", at |-> 9, lines |-> <<"q">>]>>],
         [Sound EXCEPT !.revisions[<<1, 2>>].script = <<[op |-> "a", at |-> 1, lines |-> <<>>]>>],
         Rcs(<<>>, <<>>, EmptyTree), Rcs(<<>>, <<Sym(1, <<1, 1, 0, 2>>)>>, Trunk(<<0>>) @@ (<<1, 1, 2>> :> At0(4, <<"odd">>)))}}

Odd0 ==
    {[Repo(<<Sound>>) EXCEPT !.place = p] : p \in {"remote-source", "absent", "not a directory"}}
    \cup {Repo(<<>>), Repo(<<Sound, Sound, Sound, Sound>>), Repo(<<[Sound EXCEPT !.head = <<>>]>>)}
    \cup {[Repo(<<Sound, Sound>>) EXCEPT !.window = w, !.floor = f] : w \in {0, 2, 9}, f \in {0, 60, 100}}

TheCvsSources == Skews \cup Branches \cup Vendors \cup Strays \cup OneWrong \cup Odd0

(* One branch of one file under two names, as `cvs admin -n` gives.        *)
Aliased ==
    {Repo(<<Rcs(<<>>, <<Sym(1, <<1, 1, 0, 2>>), Sym(2, <<1, 1, 0, 2>>)>>, Trunk(<<0, d>>) @@ Branched(<<1, 1, 2, 1>>, e))>>) :
        d \in {3, 4}, e \in {5, 6}}
=============================================================================
