----------------------------- MODULE CvsDecode -----------------------------
(***************************************************************************)
(* The CVS decoder (crates/brygge-decode-cvs): the walk of the repository, *)
(* the RCS files it parses and the contents it rebuilds from their deltas, *)
(* the changesets it clusters out of the revisions of single files, and    *)
(* the lines of history it builds of them: the main line, and with         *)
(* --reconstruct-refs each named branch, cut from its parent line.         *)
(*                                                                         *)
(* A source (`input` when its kind is "cvs") is                            *)
(*   place    "repository", or what makes it none                          *)
(*   entries  what the walk meets, in its order                            *)
(*   refs, window, floor   the options                                     *)
(* The RCS file of an entry is the record parse_rcs makes of it; a field   *)
(* that does not parse is marked.  A revision number is a sequence of      *)
(* numbers, the empty one where there is none.  Paths and symbol names are *)
(* numbers, in the order of their bytes.  What may be absent is a set of   *)
(* at most one value.                                                      *)
(***************************************************************************)
EXTENDS Decoding

CONSTANTS
    MaxFiles,       \* scan.rs: MAX_FILES
    MaxRcsBytes     \* Limits.max_rcs_bytes

ASSUME CvsLimits == MaxFiles \in Nat /\ MaxRcsBytes \in Nat

VARIABLES
    walked,     \* how many entries the scan has looked at
    files,      \* the files, in the order of their paths once all are scanned
    resolution, \* which files are on which branches, and which branches are imported
    gathered,   \* how many files are read, and what they gave
    plans,      \* the lines to build: the main line, then the branches
    lines,      \* what is built of each line
    landed      \* rev_to_atom: the atom a revision went into, and its date

cvsVars == <<walked, files, resolution, gathered, plans, lines, landed>>

NothingGathered ==
    [files |-> 0, revs |-> {}, points |-> EmptyTree, skipped |-> EmptyTree, excluded |-> {}]

NothingResolved == [present |-> {}, missing |-> {}, order |-> <<>>, parent |-> EmptyTree, blocked |-> {}]

CvsIdle ==
    /\ walked = 0 /\ files = <<>> /\ resolution = NothingResolved
    /\ gathered = NothingGathered
    /\ plans = <<>> /\ lines = EmptyTree /\ landed = EmptyTree

-----------------------------------------------------------------------------
(* Revision numbers (rcs.rs, mainline.rs).                                 *)

is_trunk(rev) == Len(rev) = 2

has_reachable_shape(rev) == Len(rev) >= 2 /\ Len(rev) % 2 = 0

\* The number without its last component: a revision's branch, a branch's point.
BranchOf(rev) == Front(rev)

RevLess(a, b) ==
    \/ a # b /\ IsPrefix(a, b)
    \/ \E n \in DOMAIN a \cap DOMAIN b : a[n] < b[n] /\ SubSeq(a, 1, n - 1) = SubSeq(b, 1, n - 1)

IsDirectlyOn(rev, branch) == Len(rev) = Len(branch) + 1 /\ IsPrefix(branch, rev)

is_main_line(rev, vendor) == is_trunk(rev) \/ (vendor # <<>> /\ IsDirectlyOn(rev, vendor))

(* Symbols.  A magic number has a zero before its last component.          *)
IsMagic(rev) == Len(rev) >= 4 /\ Len(rev) % 2 = 0 /\ rev[Len(rev) - 1] = 0
MagicPoint(rev) == SubSeq(rev, 1, Len(rev) - 2)
MagicBranch(rev) == Append(MagicPoint(rev), Last(rev))

is_branch_rev(rev) ==
    \/ Len(rev) >= 2 /\ rev[Len(rev) - 1] = 0
    \/ Len(rev) >= 3 /\ Len(rev) % 2 = 1

\* The first symbol of the file that names `rev`.
FirstNamed(rcs, rev) ==
    LET at == {n \in DOMAIN rcs.symbols : rcs.symbols[n].rev = rev}
    IN  IF at = {} THEN {} ELSE {rcs.symbols[Min(at)].name}

MagicSymbol(rcs, branch) ==
    IF Len(branch) < 3 THEN {} ELSE FirstNamed(rcs, BranchOf(branch) \o <<0, Last(branch)>>)

LiteralSymbol(rcs, branch) ==
    IF MagicSymbol(rcs, branch) # {} THEN {} ELSE FirstNamed(rcs, branch)

-----------------------------------------------------------------------------
(* source.rs and scan.rs.                                                  *)

ResolveCvs ==
    /\ stage = "cvs open"
    /\ \/ /\ input.place = "repository"
          /\ Goto("cvs scan") /\ UNCHANGED builder
       \/ /\ input.place # "repository"
          /\ Fail(input.place)
    /\ UNCHANGED cvsVars

(* parse_rcs: what refuses a file.  Which of several is met first is left  *)
(* open.                                                                   *)
ParseFaults(rcs) ==
    {fault \in {"malformed file", "non-utf8-symbol-name", "malformed symbol", "malformed branch",
                "no head", "unparseable date"} :
       CASE fault = "malformed file"       -> rcs.truncated
         [] fault = "non-utf8-symbol-name" -> \E n \in DOMAIN rcs.symbols : ~rcs.symbols[n].utf8
         [] fault = "malformed symbol"     -> \E n \in DOMAIN rcs.symbols : rcs.symbols[n].rev = <<>>
         [] fault = "malformed branch"     -> rcs.branch # <<>> /\ (Len(rcs.branch) < 3 \/ Len(rcs.branch) % 2 = 0)
         [] fault = "no head"              -> rcs.head = <<>>
         [] fault = "unparseable date"     -> \E r \in DOMAIN rcs.revisions : ~rcs.revisions[r].dated}

IsRead(entry) == ~entry.admin /\ entry.kind = "file" /\ entry.isRcs

EntryFaults(entry) ==
    IF ~entry.admin /\ entry.kind = "symlink" THEN {"symlink-in-repository"}
    ELSE IF ~IsRead(entry) THEN {}
    ELSE IF Len(files) >= MaxFiles THEN {"file count limit"}
    ELSE IF ~entry.utf8 THEN {"non-utf8-path"}
    ELSE IF \E n \in DOMAIN files : files[n].path = entry.path THEN {"path-in-attic-and-live"}
    ELSE IF entry.swapped THEN {"changed while being read"}
    ELSE IF entry.size > MaxRcsBytes THEN {"rcs file limit"}
    ELSE ParseFaults(entry.rcs)

(* scan_with: one entry.  A file under Attic has the path it has outside;  *)
(* what is under CVSROOT is not walked.                                    *)
ScanEntry ==
    /\ stage = "cvs scan" /\ walked < Len(input.entries)
    /\ LET entry  == input.entries[walked + 1]
           faults == EntryFaults(entry)
       IN  \/ /\ \E fault \in faults : Fail(fault)
              /\ UNCHANGED <<walked, files>>
           \/ /\ faults = {}
              /\ walked' = walked + 1
              /\ files' = IF IsRead(entry) THEN Append(files, [path |-> entry.path, rcs |-> entry.rcs])
                          ELSE files
              /\ Goto("cvs scan") /\ UNCHANGED builder
    /\ UNCHANGED <<resolution, gathered, plans, lines, landed>>

-----------------------------------------------------------------------------
(* branches.rs: the files on each branch, and which branches are imported. *)
(* A line is a number: the main line, a symbol's name, or no line at all.  *)

Main == 0
Unknown == 1000

line_of(rcs, rev) ==
    IF is_main_line(rev, rcs.branch) THEN Main
    ELSE IF MagicSymbol(rcs, BranchOf(rev)) # {} THEN OneOf(MagicSymbol(rcs, BranchOf(rev)))
    ELSE Unknown

IsDead(rcs, rev) == rcs.revisions[rev].state = "dead"

PointState(rcs, point) ==
    IF point \notin DOMAIN rcs.revisions THEN "missing" ELSE IF IsDead(rcs, point) THEN "dead" ELSE "live"

discover(all) ==
    UNION {{LET s == all[i].rcs.symbols[n]
            IN  [name |-> s.name, file |-> i, branch |-> MagicBranch(s.rev), point |-> MagicPoint(s.rev),
                 line |-> line_of(all[i].rcs, MagicPoint(s.rev)),
                 state |-> PointState(all[i].rcs, MagicPoint(s.rev))] :
              n \in {k \in DOMAIN all[i].rcs.symbols : IsMagic(all[i].rcs.symbols[k].rev)}} :
           i \in DOMAIN all}

(* The line that holds most of the live points, the lower one on a tie.    *)
majority_line(on) ==
    LET Points(l) == Cardinality({o \in on : o.state = "live" /\ o.line = l})
        held == {o.line : o \in {x \in on : x.state = "live" /\ x.line # Unknown}}
    IN  IF held = {} THEN {} ELSE {Min({l \in held : \A k \in held : Points(k) <= Points(l)})}

(* resolve: in waves, in the order of names, until no branch has an        *)
(* imported line to be cut from.                                           *)
resolve(present) ==
    LET names == {o.name : o \in present}
        On(name) == {o \in present : o.name = name}
        want == [name \in names |->
                   IF \E o \in On(name) : o.state = "live" THEN majority_line(On(name)) ELSE {Main}]
        Import(order, name) ==
          IF name \notin ToSet(order) /\ want[name] # {} /\ want[name] \subseteq {Main} \cup ToSet(order)
          THEN Append(order, name) ELSE order
        count == Cardinality(names)
        sorted == Sorted(names, LAMBDA a, b : a < b)
        order == FoldLeft(Import, <<>>, [n \in 1..(count * count) |-> sorted[((n - 1) % count) + 1]])
    IN  [order |-> order, parent |-> [name \in ToSet(order) |-> OneOf(want[name])],
         blocked |-> names \ ToSet(order)]

(* The end of the scan, compute_repo_id, and the branches.                 *)
EndScan ==
    /\ stage = "cvs scan" /\ walked = Len(input.entries)
    /\ \/ /\ \A n \in DOMAIN files : ~\E r \in DOMAIN files[n].rcs.revisions : is_trunk(r)
          /\ Fail("no main-line revisions") /\ UNCHANGED <<files, resolution>>
       \/ /\ \E n \in DOMAIN files : \E r \in DOMAIN files[n].rcs.revisions : is_trunk(r)
          /\ files' = Sorted(ToSet(files), LAMBDA a, b : a.path < b.path)
          /\ LET found   == IF input.refs THEN discover(files') ELSE {}
                 present == {o \in found : o.state # "missing"}
             IN  resolution' = [present |-> present, missing |-> found \ present] @@ resolve(present)
          /\ Goto("cvs gather") /\ UNCHANGED builder
    /\ UNCHANGED <<walked, gathered, plans, lines, landed>>

-----------------------------------------------------------------------------
(* Contents (rcs.rs).  The text of the head is its lines; of any other     *)
(* revision, an edit script of the one before it in the chain: backwards   *)
(* on the trunk, forwards on a branch.                                     *)

(* One command: they go up through the source and do not overlap.          *)
Edit(source, out, cmd) ==
    CASE cmd.op = "d" /\ cmd.at > out.consumed /\ cmd.at + cmd.count <= Len(source) + 1 ->
           [out EXCEPT !.lines = @ \o SubSeq(source, out.consumed + 1, cmd.at - 1),
                       !.consumed = cmd.at - 1 + cmd.count]
      [] cmd.op = "a" /\ cmd.lines # <<>> /\ cmd.at >= out.consumed /\ cmd.at <= Len(source) ->
           [out EXCEPT !.lines = @ \o SubSeq(source, out.consumed + 1, cmd.at) \o cmd.lines,
                       !.consumed = cmd.at]
      [] OTHER -> [out EXCEPT !.sound = FALSE]

apply_diff(source, script) ==
    LET end == FoldLeft(LAMBDA out, cmd : IF out.sound THEN Edit(source, out, cmd) ELSE out,
                        [sound |-> TRUE, lines |-> <<>>, consumed |-> 0], script)
    IN  IF end.sound THEN {end.lines \o SubSeq(source, end.consumed + 1, Len(source))} ELSE {}

chain_bound(rcs) == IF rcs.revisions = EmptyTree THEN 1 ELSE Cardinality(DOMAIN rcs.revisions)

(* At most `bound` revisions along `next`; the last may not exist.         *)
Along(rcs, start, bound) ==
    LET chain[n \in Nat] ==
          IF n <= 1 THEN <<start>>
          ELSE LET before == chain[n - 1]
               IN  IF /\ Len(before) = n - 1 /\ Last(before) \in DOMAIN rcs.revisions
                      /\ rcs.revisions[Last(before)].next # <<>>
                   THEN Append(before, rcs.revisions[Last(before)].next) ELSE before
    IN  chain[bound]

(* The lines at each place of a chain: `base` are those before it, none    *)
(* for a chain that begins at the head.                                    *)
LinesAlong(rcs, chain, base) ==
    LET text[n \in DOMAIN chain] ==
          IF chain[n] \notin DOMAIN rcs.revisions THEN {}
          ELSE IF n = 1 /\ base = {} THEN {rcs.revisions[chain[n]].full}
          ELSE LET before == IF n = 1 THEN base ELSE text[n - 1]
               IN  IF before = {} THEN {} ELSE apply_diff(OneOf(before), rcs.revisions[chain[n]].script)
    IN  text

\* Where a branch begins, by the list at its branch point.
BranchHead(rcs, branch) ==
    LET point == BranchOf(branch)
        heads == IF point \in DOMAIN rcs.revisions
                 THEN SelectSeq(rcs.revisions[point].branches, LAMBDA b : IsPrefix(branch, b)) ELSE <<>>
    IN  IF heads = <<>> THEN {} ELSE {heads[1]}

UpTo(chain, rev) ==
    IF rev \in ToSet(chain) THEN SubSeq(chain, 1, Min({n \in DOMAIN chain : chain[n] = rev})) ELSE <<>>

(* delta_path: from the head to the trunk revision, and out along each     *)
(* branch the number names; empty where the target is not reached.         *)
delta_path(rcs, target) ==
    LET path[n \in 1..(Len(target) \div 2)] ==
          LET rev   == SubSeq(target, 1, 2 * n)
              start == IF n = 1 THEN {rcs.head} ELSE BranchHead(rcs, BranchOf(rev))
              along == IF start = {} THEN <<>> ELSE UpTo(Along(rcs, OneOf(start), chain_bound(rcs)), rev)
          IN  IF n = 1 THEN along
              ELSE LET before == path[n - 1]
                   IN  IF before = <<>> \/ along = <<>> THEN <<>> ELSE before \o along
    IN  path[Len(target) \div 2]

content_of(rcs, target) ==
    LET path == IF has_reachable_shape(target) THEN delta_path(rcs, target) ELSE <<>>
    IN  IF path = <<>> THEN {} ELSE LinesAlong(rcs, path, {})[Len(path)]

(* contents_of_many: one walk of each line, the branch points kept for the *)
(* walks that start from them, the shallower branches first.  A walk is    *)
(* complete at one of `ends`.                                              *)
WalkLine(rcs, chain, base, targets, ends) ==
    LET text == LinesAlong(rcs, chain, base)
        last == Min(ends)
        got  == ToSet(SubSeq(chain, 1, last)) \cap targets
    IN  IF ends = {} THEN {}
        ELSE IF text[last] = {} THEN {}
        ELSE {[r \in got |-> OneOf(text[Max({n \in 1..last : chain[n] = r})])]}

(* Seeded mistake: a branch is begun from what the trunk's walk ended at.  *)
LowestOnTrunk(kept, point) == kept[CHOOSE r \in DOMAIN kept : \A q \in DOMAIN kept : q = r \/ RevLess(r, q)]

AtPoint(kept, point) == kept[point]

contents_of_many(rcs, wanted) ==
    LET needed == UNION {{SubSeq(r, 1, 2 * n) : n \in 1..(Len(r) \div 2)} : r \in wanted}
        bound  == chain_bound(rcs)
        Deep(n) == {r \in needed : Len(r) = 2 * n}
        trunk  == Along(rcs, rcs.head, bound + 1)
        Branch(kept, branch) ==
          LET targets == {r \in needed : BranchOf(r) = branch}
              chain   == Along(rcs, OneOf(BranchHead(rcs, branch)), bound)
          IN  IF BranchHead(rcs, branch) = {} \/ BranchOf(branch) \notin DOMAIN kept THEN {}
              ELSE WalkLine(rcs, chain, {AtPoint(kept, BranchOf(branch))}, targets,
                      {n \in DOMAIN chain : Cardinality({k \in 1..n : chain[k] \in targets}) = Cardinality(targets)})
        depth  == Max({Len(r) \div 2 : r \in wanted})
        walks[n \in 1..depth] ==
          IF n = 1 THEN WalkLine(rcs, trunk, {}, Deep(1), {k \in DOMAIN trunk : Deep(1) \subseteq ToSet(SubSeq(trunk, 1, k))})
          ELSE LET before == walks[n - 1]
                   branches == {BranchOf(r) : r \in Deep(n)}
               IN  IF before = {} THEN {}
                   ELSE LET made == [b \in branches |-> Branch(OneOf(before), b)]
                        IN  IF \E b \in branches : made[b] = {} THEN {}
                            ELSE {FoldFunction(LAMBDA got, all : OneOf(got) @@ all, OneOf(before), made)}
    IN  IF \E r \in wanted : ~has_reachable_shape(r) THEN {}
        ELSE IF wanted = {} THEN {EmptyTree} ELSE walks[depth]

\* join_lines: a blob is the text of its lines.
JoinLines(text) == FoldLeft(LAMBDA all, line : all \o line, "", text)

-----------------------------------------------------------------------------
(* decode.rs: one file is read.                                            *)

Vendor(f) == f.rcs.branch

(* The branches imported of a file, by their number in it: a number two    *)
(* symbols give goes to the later branch in the order of the import.       *)
LineAt(file, branch) ==
    LET naming == {n \in DOMAIN resolution.order :
                     \E o \in resolution.present : o.name = resolution.order[n] /\ o.file = file /\ o.branch = branch}
    IN  IF naming = {} THEN {} ELSE {resolution.order[Max(naming)]}

\* The line a revision is gathered for, if any.
LinesFor(file, rev) ==
    IF is_main_line(rev, Vendor(files[file])) THEN {Main} ELSE LineAt(file, BranchOf(rev))

LivePoints(file) ==
    {o.point : o \in {x \in resolution.present :
                         x.file = file /\ x.state = "live" /\ x.name \in ToSet(resolution.order)}}

(* The branch point and first revision of the vendor branch, when they are *)
(* of one date.                                                            *)
ImportPair(f) ==
    LET point == BranchOf(Vendor(f))
        firsts == SelectSeq(f.rcs.revisions[point].branches, LAMBDA b : IsDirectlyOn(b, Vendor(f)))
    IN  IF Vendor(f) = <<>> THEN {}
        ELSE IF point \notin DOMAIN f.rcs.revisions THEN {}
        ELSE IF firsts = <<>> THEN {}
        ELSE IF firsts[1] \notin DOMAIN f.rcs.revisions THEN {}
        ELSE IF f.rcs.revisions[point].date # f.rcs.revisions[firsts[1]].date THEN {}
        ELSE {[point |-> point, first |-> firsts[1]]}

\* check_no_later_trunk_after_vendor_branch.
HasLaterTrunk(f) ==
    Vendor(f) # <<>> /\ \E r \in DOMAIN f.rcs.revisions : is_trunk(r) /\ RevLess(BranchOf(Vendor(f)), r)

(* Seeded mistake: a named branch that is not imported is one no line was  *)
(* found for.                                                              *)
BlockedIfNamed(file, rev) ==
    LET rcs == files[file].rcs
    IN  IF ~input.refs THEN "no refs"
        ELSE IF MagicSymbol(rcs, BranchOf(rev)) # {} THEN "blocked"
        ELSE IF LiteralSymbol(rcs, BranchOf(rev)) # {} THEN "vendor" ELSE "unnamed"

(* count_excluded: why a revision is not imported.                         *)
WhyExcluded(file, rev) ==
    LET rcs == files[file].rcs
        magic == MagicSymbol(rcs, BranchOf(rev))
        literal == LiteralSymbol(rcs, BranchOf(rev))
    IN  IF ~input.refs THEN "no refs"
        ELSE IF magic # {} THEN IF magic \subseteq resolution.blocked THEN "blocked" ELSE "missing point"
        ELSE IF literal # {} THEN "vendor" ELSE "unnamed"

(* The contents of the revisions in `read`: from one walk of the file, and *)
(* each on its own where that walk gave nothing.                           *)
ContentsRead(rcs, read, once) ==
    [r \in read |-> IF \A got \in once : r \notin DOMAIN got THEN content_of(rcs, r)
                    ELSE {OneOf(once)[r]}]

\* What is asked for whether or not a branch point is skipped.
AskedAlways(file, pairs) == LivePoints(file) \cup UNION {{pair.point, pair.first} : pair \in pairs}

LiveOf(rcs, revs) == {r \in revs : ~IsDead(rcs, r)}

(* What is gathered with one more file: the revisions taken of it, those   *)
(* not kept, its branch points and the one that is skipped.                *)
WithFile(at, kept, skips, taken, text) ==
    LET f == files[at]
        Blob(r) == JoinLines(OneOf(text[r]))
    IN  [files    |-> at,
         revs     |-> gathered.revs \cup
            {[line |-> OneOf(LinesFor(at, r)), path |-> f.path, rev |-> r,
              date |-> f.rcs.revisions[r].date, by |-> f.rcs.revisions[r].by,
              dead |-> IsDead(f.rcs, r), blob |-> IF IsDead(f.rcs, r) THEN NoBlob ELSE Blob(r)] :
             r \in taken},
         points   |-> [x \in {<<at, r>> : r \in LivePoints(at)} |-> Blob(x[2])] @@ gathered.points,
         skipped  |-> [x \in IF skips = {} THEN {} ELSE {at} |-> OneOf(skips)] @@ gathered.skipped,
         excluded |-> gathered.excluded \cup
            {[path |-> f.path, rev |-> r, why |-> WhyExcluded(at, r)] :
             r \in DOMAIN f.rcs.revisions \ kept}]

(* `text` is what was read; a branch point that is skipped may have been   *)
(* asked for by no one.                                                    *)
GatherRead(at, kept, pairs, text) ==
    LET rcs   == files[at].rcs
        skips == {pair \in pairs : text[pair.point] = text[pair.first]}
        taken == kept \ {pair.point : pair \in skips}
        unread == {r \in LiveOf(rcs, taken) \cup AskedAlways(at, pairs) : text[r] = {}}
    IN  \/ /\ unread # {}
           /\ Fail("unreadable revision") /\ UNCHANGED gathered
        \/ /\ unread = {}
           /\ gathered' = WithFile(at, kept, skips, taken, text)
           /\ Goto("cvs gather") /\ UNCHANGED builder

GatherFile ==
    /\ stage = "cvs gather" /\ gathered.files < Len(files)
    /\ LET at == gathered.files + 1
           f  == files[at]
       IN  \/ /\ HasLaterTrunk(f)
              /\ Fail("default-branch-with-later-trunk") /\ UNCHANGED gathered
           \/ /\ ~HasLaterTrunk(f)
              /\ \E kept \in {{r \in DOMAIN f.rcs.revisions : LinesFor(at, r) # {}}}, pairs \in {ImportPair(f)} :
                 \E read \in {LiveOf(f.rcs, kept) \cup AskedAlways(at, pairs)} :
                 \E text \in {ContentsRead(f.rcs, read, contents_of_many(f.rcs, read))} :
                    GatherRead(at, kept, pairs, text)
    /\ UNCHANGED <<walked, files, resolution, plans, lines, landed>>

-----------------------------------------------------------------------------
(* cluster.rs.                                                             *)

ByPlace(a, b) == a.path < b.path \/ (a.path = b.path /\ RevLess(a.rev, b.rev))
ByDate(a, b) == a.date < b.date \/ (a.date = b.date /\ ByPlace(a, b))

Earliest(revs) == Min({r.date : r \in revs})
Latest(revs) == Max({r.date : r \in revs})
Least(revs) == CHOOSE r \in revs : \A q \in revs : q = r \/ ByPlace(r, q)

(* One author's revisions with one log, by date: a new cluster begins      *)
(* where a path comes again, and after a gap.                              *)
SplitGroup(group) ==
    LET Take(out, r) ==
          LET open == Last(out)
              breaks == \/ \E q \in ToSet(open) : q.path = r.path
                        \/ open # <<>> /\ r.date - Last(open).date > input.window
          IN  IF breaks THEN Append(out, <<r>>) ELSE Append(Front(out), Append(open, r))
    IN  {ToSet(c) : c \in ToSet(FoldLeft(Take, <<<<>>>>, Sorted(group, ByDate)))}

Clusters(revs) ==
    LET clusters == UNION {SplitGroup({r \in revs : r.by = by}) : by \in {r.by : r \in revs}}
    IN  Sorted(clusters, LAMBDA a, b :
            Latest(a) < Latest(b) \/ (Latest(a) = Latest(b) /\ ByPlace(Least(a), Least(b))))

(* Seeded mistake: the clusters are left in the order of their dates.      *)
InOrderOfDates(clusters) == [n \in DOMAIN clusters |-> [revs |-> clusters[n], split |-> FALSE]]

(* A revision that would come before a lower one of its file is put alone  *)
(* after the latest cluster that holds a lower one.                        *)
fix_per_file_order(clusters) ==
    LET revs == UNION ToSet(clusters)
        Place(r) == CHOOSE n \in DOMAIN clusters : r \in clusters[n]
        Lower(r) == {q \in revs : q.path = r.path /\ RevLess(q.rev, r.rev)}
        misplaced == {r \in revs : \E q \in Lower(r) : Place(q) > Place(r)}
        Anchored(n) == {r \in misplaced : Max({Place(q) : q \in Lower(r)}) = n}
        Kept(n) == clusters[n] \ misplaced
        Singles(n) == LET seq == Sorted(Anchored(n), ByPlace)
                      IN  [k \in DOMAIN seq |-> [revs |-> {seq[k]}, split |-> TRUE]]
    IN  FlattenSeq([n \in DOMAIN clusters |->
            (IF Kept(n) = {} THEN <<>> ELSE <<[revs |-> Kept(n), split |-> FALSE]>>) \o Singles(n)])

Floor0(n) == IF n > 0 THEN n ELSE 0

(* The rule span-overlap-v1: how close the dates are, less for each path   *)
(* that another changeset touches near by.                                 *)
Confidence(changesets, n) ==
    LET own   == changesets[n].revs
        paths == {r.path : r \in own}
        span  == Latest(own) - Earliest(own)
        width == IF input.window > 1 THEN input.window ELSE 1
        time  == IF span = 0 THEN 100 ELSE Floor0(100 - (span * 100) \div width)
        Near(k) == /\ Latest(changesets[k].revs) + input.window >= Earliest(own)
                   /\ Earliest(changesets[k].revs) <= Latest(own) + input.window
        shared == {p \in paths : \E k \in DOMAIN changesets \ {n} :
                                    p \in {r.path : r \in changesets[k].revs} /\ Near(k)}
        score == (time * (2 * Cardinality(paths) - Cardinality(shared))) \div (2 * Cardinality(paths))
    IN  IF changesets[n].split /\ score > 50 THEN 50 ELSE score

Changesets(ordered) ==
    [n \in DOMAIN ordered |->
        [revs |-> ordered[n].revs, date |-> Latest(ordered[n].revs),
         by |-> OneOf(ordered[n].revs).by, confidence |-> Confidence(ordered, n)]]

reconstruct(revs) == Changesets(fix_per_file_order(Clusters(revs)))

IsLow(changeset) == changeset.confidence < input.floor

-----------------------------------------------------------------------------
(* branches.rs and decode.rs: where each branch is cut.                    *)

NoParent == [index |-> 0, exact |-> TRUE]

(* choose_parent, by the rule earliest-covering-changeset: each file's run *)
(* is where the parent line has it as it is at its branch point.           *)
choose_parent(runs, length) ==
    LET In  == {runs[o].from : o \in DOMAIN runs}
        Out == {runs[o].to : o \in DOMAIN runs}
        Covered(n) == Cardinality({o \in DOMAIN runs : runs[o].from <= n /\ n < runs[o].to})
        best == {n \in 1..length : \A k \in 1..length : Covered(k) <= Covered(n)}
    IN  IF runs = EmptyTree THEN NoParent
        ELSE IF Max(In) < Min(Out) THEN [index |-> Max(In), exact |-> TRUE]
        ELSE [index |-> Min(best), exact |-> FALSE]

(* Seeded mistake: the branch begins as its parent is, where it has one.   *)
PointsOnParentLine(on, parent) == {o \in on : o.state = "live" /\ o.line = parent}

LiveOn(on, parent) == {o \in on : o.state = "live"}

(* plan_branches, for one branch: `on` are its files, `line` is the parent *)
(* line's changesets.                                                      *)
PlanBranch(name, parentLine, line, revs) ==
    LET on   == {o \in resolution.present : o.name = name}
        live == {o \in on : o.state = "live"}
        PathOf(o) == files[o.file].path
        \* the vendor revision stands in for a branch point that is skipped
        Anchor(o) == IF \E i \in DOMAIN gathered.skipped : i = o.file /\ gathered.skipped[i].point = o.point
                     THEN gathered.skipped[o.file].first ELSE o.point
        Arrives(o, rev) == {n \in DOMAIN line : \E r \in line[n].revs : r.path = PathOf(o) /\ r.rev = rev}
        placed == {o \in live : o.line = parentLine /\ Arrives(o, Anchor(o)) # {}}
        Later(o) == {r.rev : r \in {x \in UNION {c.revs : c \in ToSet(line)} :
                                       x.path = PathOf(o) /\ RevLess(Anchor(o), x.rev)}}
        Next(o) == CHOOSE r \in Later(o) : \A q \in Later(o) : q = r \/ RevLess(r, q)
        Leaves(o) == IF Later(o) = {} THEN Len(line) + 1 ELSE OneOf(Arrives(o, Next(o)))
        runs == [o \in placed |-> [from |-> OneOf(Arrives(o, Anchor(o))),
                                   to |-> Max({Leaves(o), OneOf(Arrives(o, Anchor(o))) + 1})]]
        parent == choose_parent(runs, Len(line))
        start == LiveOn(on, parentLine)
    IN  [line |-> name, parentLine |-> parentLine,
         changesets |-> reconstruct({r \in revs : r.line = name}),
         parent |-> IF parent = NoParent THEN parent
                    ELSE [parent EXCEPT !.exact = @ /\ Cardinality(placed) = Cardinality(live)],
         cut |-> [p \in {PathOf(o) : o \in start} |->
                    LET o == CHOOSE o \in start : PathOf(o) = p
                    IN  [blob |-> gathered.points[<<o.file, o.point>>], mode |-> "file"]]]

\* The changesets after which a branch is cut.
CutsOf(line) == {p.parent.index : p \in {x \in ToSet(plans) : x.parentLine = line}}

NewLine(atoms, start) == [last |-> atoms, atoms |-> <<>>, tree |-> start, trees |-> EmptyTree]

PlanLines ==
    /\ stage = "cvs gather" /\ gathered.files = Len(files)
    /\ \E main \in {reconstruct({r \in gathered.revs : r.line = Main})} :
       LET planned[n \in 0..Len(resolution.order)] ==
             IF n = 0
             THEN <<[line |-> Main, parentLine |-> Unknown, changesets |-> main, parent |-> NoParent,
                     cut |-> EmptyTree]>>
             ELSE LET before == planned[n - 1]
                      name   == resolution.order[n]
                      parent == resolution.parent[name]
                      line   == CHOOSE p \in ToSet(before) : p.line = parent
                  IN  Append(before, PlanBranch(name, parent, line.changesets, gathered.revs))
       IN  \/ /\ main # <<>> /\ \A n \in DOMAIN main : IsLow(main[n])
              /\ Fail("whole-import-under-confidence-floor") /\ UNCHANGED <<plans, lines>>
           \/ /\ main = <<>> \/ \E n \in DOMAIN main : ~IsLow(main[n])
              /\ plans' = planned[Len(resolution.order)]
              /\ lines' = (Main :> NewLine(<<>>, EmptyTree))
              /\ Goto("cvs build") /\ UNCHANGED builder
    /\ UNCHANGED <<walked, files, resolution, gathered, landed>>

-----------------------------------------------------------------------------
(* decode.rs: the lines are built one after another, a changeset at a time.*)

Plan == plans[Cardinality(DOMAIN lines)]
Line == lines[Plan.line]
Built == Len(Line.atoms)

(* ops_for: a revision of a path the line has not is an Add; a dead one is *)
(* nothing there.                                                          *)
ops_for(revs, before) ==
    {IF r.dead THEN DeleteOp(r.path, AsStated)
     ELSE IF r.path \in DOMAIN before THEN ModifyOp(r.path, r.blob, "file", AsStated)
     ELSE AddOp(r.path, r.blob, "file", AsStated) :
        r \in {q \in revs : q.dead => q.path \in DOMAIN before}}

(* The ids of changesets and branch points, in the order of their bytes:   *)
(* no two changesets share a revision, so the least one tells them apart.  *)
Digits(rev) == FoldLeft(LAMBDA n, d : 10 * n + d, 0, [k \in 1..6 |-> IF k \in DOMAIN rev THEN rev[k] ELSE 0])
changeset_atom_id(revs) == Least(revs).path * 1000000 + Digits(Least(revs).rev)
BranchPointId(name) == 90000000 + name

CvsAtom(last, ops, meta, source, status) ==
    [parents |-> last, ops |-> ops, copies |-> {}, meta |-> meta, source |-> source, status |-> status]

BuildChangeset ==
    /\ stage = "cvs build" /\ Built < Len(Plan.changesets)
    /\ LET made  == Plan.changesets[Built + 1]
           ops   == ops_for(made.revs, Line.tree)
           after == After(Line.tree, ops)
           at    == Built + 1
       IN  /\ builder' = WithAtom(builder, CvsAtom(Line.last, ops, [by |-> made.by, time |-> made.date],
                                        changeset_atom_id(made.revs), Derived("ReconstructedChangeset")))
           /\ lines' = [lines EXCEPT ![Plan.line] =
                          [last |-> <<NextAtom>>, atoms |-> Append(@.atoms, NextAtom), tree |-> after,
                           trees |-> [n \in {at} \cap CutsOf(Plan.line) |-> after] @@ @.trees]]
           /\ landed' = [x \in {<<r.path, r.rev>> : r \in made.revs} |->
                            [atom |-> NextAtom, date |-> made.date]] @@ landed
    /\ Goto("cvs build")
    /\ UNCHANGED <<walked, files, resolution, gathered, plans>>

(* build_branch, up to its first changeset: a branch-point atom makes the  *)
(* tree of the parent into the tree the branch starts from.                *)
CutBranch ==
    /\ stage = "cvs build" /\ Built = Len(Plan.changesets)
    /\ Cardinality(DOMAIN lines) < Len(plans)
    /\ LET plan  == plans[Cardinality(DOMAIN lines) + 1]
           index == plan.parent.index
           last  == IF index = 0 THEN <<>> ELSE <<lines[plan.parentLine].atoms[index]>>
           from  == IF index = 0 THEN EmptyTree ELSE lines[plan.parentLine].trees[index]
           ops   == DiffOps(from, plan.cut, Derived("ReconstructedBranch"))
       IN  \/ /\ ops # {}
              /\ builder' = WithAtom(builder, CvsAtom(last, ops, [by |-> "none"], BranchPointId(plan.line),
                                           Derived("ReconstructedBranch")))
              /\ lines' = (plan.line :> NewLine(<<NextAtom>>, plan.cut)) @@ lines
           \/ /\ ops = {}
              /\ lines' = (plan.line :> NewLine(last, plan.cut)) @@ lines
              /\ UNCHANGED builder
    /\ Goto("cvs build")
    /\ UNCHANGED <<walked, files, resolution, gathered, plans, landed>>

-----------------------------------------------------------------------------
(* symbols.rs, add_refs and the loss boundary.                             *)

Naming(name) ==
    UNION {{<<files[i].path, files[i].rcs.symbols[n].rev>> :
              n \in {k \in DOMAIN files[i].rcs.symbols : files[i].rcs.symbols[k].name = name}} : i \in DOMAIN files}

Symbols == UNION {{s.name : s \in ToSet(files[i].rcs.symbols)} : i \in DOMAIN files}

IsBranch(name) == \E x \in Naming(name) : is_branch_rev(x[2])

IsImported(name) == \E l \in DOMAIN lines \ {Main} : l = name /\ lines[l].last # <<>>

\* The latest of the revisions a symbol names that are in some atom, the first on a tie.
Tagged(name) ==
    LET here == Naming(name) \cap DOMAIN landed
        latest == {x \in here : \A y \in here : landed[y].date <= landed[x].date}
    IN  {x \in latest : \A y \in latest : y = x \/ x[1] < y[1] \/ (x[1] = y[1] /\ RevLess(x[2], y[2]))}

RefOf(name) ==
    IF IsImported(name)
    THEN {Ref("Branch", name, lines[name].last[1], Derived("ReconstructedBranch"), <<>>)}
    ELSE {Ref(IF IsBranch(name) THEN "Branch" ELSE "Tag", name, landed[x].atom,
              Derived("ReconstructedBranch"), <<>>) : x \in Tagged(name)}

CvsRefs == IF input.refs THEN UNION {RefOf(name) : name \in Symbols} ELSE {}

CvsLoss ==
    LET Excluded(why) == Cardinality({x \in gathered.excluded : x.why = why})
        unresolved == IF input.refs THEN {name \in Symbols : RefOf(name) = {}} ELSE {}
    IN  {Drop("layout and deltas", 1), Drop("administrative files", 1)}
        \cup (IF \E n \in DOMAIN files : files[n].rcs.expand THEN {Drop("keywords", 1)} ELSE {})
        \cup DropIfAny("branch revisions", Excluded("no refs"))
        \cup DropIfAny("unnamed branches", Excluded("unnamed"))
        \cup (IF resolution.blocked # {} /\ input.refs
              THEN {Drop("branches without a parent line", Excluded("blocked"))} ELSE {})
        \cup DropIfAny("vendor revisions", Excluded("vendor"))
        \cup (IF resolution.missing # {} THEN {Drop("missing branch points", Excluded("missing point"))} ELSE {})
        \cup DropIfAny("branch symbols", Cardinality({n \in unresolved : IsBranch(n)}))
        \cup DropIfAny("tags", Cardinality({n \in unresolved : ~IsBranch(n)}))

CvsFlags ==
    LET low == UNION {{<<p.line, n>> : n \in {k \in DOMAIN p.changesets : IsLow(p.changesets[k])}} : p \in ToSet(plans)}
        inexact == {p \in ToSet(plans) : ~p.parent.exact}
        FlagIfAny(what, count) == IF count > 0 THEN {[what |-> what, count |-> count]} ELSE {}
    IN  FlagIfAny("branch point spans changesets", Cardinality(inexact))
        \cup FlagIfAny("confidence below the floor", Cardinality(low))

FinishCvs ==
    /\ stage = "cvs build" /\ Built = Len(Plan.changesets)
    /\ Cardinality(DOMAIN lines) = Len(plans)
    /\ Finish(CvsRefs, CvsLoss, CvsFlags)
    /\ UNCHANGED cvsVars

CvsNext ==
    \/ ResolveCvs \/ ScanEntry \/ EndScan \/ GatherFile \/ PlanLines
    \/ BuildChangeset \/ CutBranch \/ FinishCvs

-----------------------------------------------------------------------------
(* Properties.                                                             *)

IsBlobTree(t) == \A p \in DOMAIN t : DOMAIN t[p] = {"blob", "mode"}

(* The type invariant of the CVS part.                                     *)
CvsTypeOK ==
    /\ gathered.files \in 0..Len(files)
    /\ \A r \in gathered.revs : r.dead <=> r.blob = NoBlob
    /\ IsInjective(resolution.order) /\ ToSet(resolution.order) = DOMAIN resolution.parent
    /\ \A n \in DOMAIN plans : \A k \in DOMAIN plans[n].changesets :
          plans[n].changesets[k].confidence \in 0..100
    /\ \A l \in DOMAIN lines : IsBlobTree(lines[l].tree) /\ Len(lines[l].last) <= 1

FileAt(path) == CHOOSE f \in ToSet(files) : f.path = path

(* What a revision's file holds, whatever its delta chain: `is` says what  *)
(* text the file was made from, and no step of the decoder reads it.       *)
Truth(path, rev) == JoinLines(FileAt(path).rcs.revisions[rev].is)

\* What a set of revisions leaves of a path: its highest one.
LeftOf(start, path, revs) ==
    LET top == CHOOSE r \in revs : \A q \in revs : q = r \/ RevLess(q.rev, r.rev)
    IN  IF revs = {} THEN IF path \in DOMAIN start THEN {start[path]} ELSE {}
        ELSE IF top.dead THEN {} ELSE {[blob |-> Truth(path, top.rev), mode |-> "file"]}

(* However the dates are skewed and however the changesets are split and   *)
(* put in order, every line is, after each of its atoms, what CVS has of   *)
(* it: each path goes through the revisions of its line in the order of    *)
(* their numbers and none is passed over, and a branch begins as its files *)
(* are at their branch points, on whatever line those are, even where no   *)
(* changeset of the parent line was like that.                             *)
CvsLinesExact ==
    (stage = "done" /\ input.kind = "cvs") =>
        LET trees == ReplayedTrees
            start(plan) ==
              LET on == {o \in resolution.present : o.name = plan.line /\ o.state = "live"}
              IN  [p \in {files[o.file].path : o \in on} |->
                     LET o == CHOOSE o \in on : files[o.file].path = p
                     IN  [blob |-> Truth(p, o.point), mode |-> "file"]]
        IN  \A plan \in ToSet(plans) :
              LET line == lines[plan.line]
                  all  == {r \in gathered.revs : r.line = plan.line}
                  Into(n) == {r \in all : landed[<<r.path, r.rev>>].atom <= line.atoms[n]}
                  paths == DOMAIN start(plan) \cup {r.path : r \in all}
              IN  /\ \A n \in DOMAIN line.atoms :
                        /\ \A q \in Into(n) : \A r \in all :
                              (r.path = q.path /\ RevLess(r.rev, q.rev)) => r \in Into(n)
                        /\ \A p \in paths :
                              LeftOf(start(plan), p, {r \in Into(n) : r.path = p})
                                = {trees[line.atoms[n]][x] : x \in {p} \cap DOMAIN trees[line.atoms[n]]}
                        /\ DOMAIN trees[line.atoms[n]] \subseteq paths
                  /\ (line.atoms = <<>> /\ line.last # <<>>) => trees[line.last[1]] = start(plan)

(* Nothing is dropped in silence: each revision of each file is in exactly *)
(* one changeset, or is the branch point an import repeats, or is counted  *)
(* in one loss; with the refs, each symbol is a ref or counted.            *)
CvsLossAccounts ==
    (stage = "done" /\ input.kind = "cvs") =>
        LET Lost(what) == SumSet({d.count : d \in {x \in builder.drops : x.what = what}})
            held == UNION {{[line |-> p.line, revs |-> p.changesets[n].revs] : n \in DOMAIN p.changesets} :
                             p \in ToSet(plans)}
            all  == UNION {{<<files[i].path, r>> : r \in DOMAIN files[i].rcs.revisions} : i \in DOMAIN files}
        IN  /\ \A c1, c2 \in held : c1 # c2 => c1.revs \cap c2.revs = {}
            /\ {<<r.path, r.rev>> : r \in UNION {c.revs : c \in held}} = DOMAIN landed
            /\ Cardinality(all) = Cardinality(DOMAIN landed) + Cardinality(DOMAIN gathered.skipped)
                 + Lost("branch revisions") + Lost("unnamed branches") + Lost("branches without a parent line")
                 + Lost("vendor revisions") + Lost("missing branch points")
            /\ input.refs => Cardinality(Symbols)
                 = Cardinality(builder.refs) + Lost("branch symbols") + Lost("tags")

(* What the guide says of an imported branch: each file on it is as a      *)
(* checkout of the branch gives it, by the symbols and the revisions of    *)
(* that file alone.                                                        *)
BranchIsCheckout ==
    (stage = "done" /\ input.kind = "cvs") =>
        LET Tip(o) ==
              LET rcs == files[o.file].rcs
                  on  == {r \in DOMAIN rcs.revisions : BranchOf(r) = o.branch}
                  top == IF on = {} THEN o.point ELSE CHOOSE r \in on : \A q \in on : q = r \/ RevLess(q, r)
              IN  IF IsDead(rcs, top) THEN {} ELSE {Truth(files[o.file].path, top)}
        IN  \A o \in resolution.present : \A ref \in builder.refs :
              (ref.kind = "Branch" /\ ref.name = o.name /\ IsImported(o.name)) =>
                  LET tree == ReplayedTrees[ref.target]
                      path == files[o.file].path
                  IN  {tree[p].blob : p \in {path} \cap DOMAIN tree} = Tip(o)
=============================================================================
