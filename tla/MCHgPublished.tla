--------------------------- MODULE MCHgPublished ---------------------------
(***************************************************************************)
(* Repositories for the model checker: small histories with every          *)
(* combination of phases, markers and pins; histories with two branches,   *)
(* open and closed; and stores whose parents do not come first.            *)
(***************************************************************************)
EXTENDS HgPublished

CONSTANTS ViewSize, RefSize, DamagedSize

(* Every pair of parent functions over 0..n-1 with parents first.          *)
OrderedParents(n) ==
    {pp \in [0..(n - 1) -> (-1..(n - 2)) \X (-1..(n - 2))] :
        \A r \in 0..(n - 1) : /\ pp[r][1] < r /\ pp[r][2] < pp[r][1] + (IF pp[r][1] = -1 THEN 1 ELSE 0)}

Store(n, pp, root, precursors, bookmarks, pins, branch, closed, merging) ==
    [n |-> n, p1 |-> [r \in 0..(n - 1) |-> pp[r][1]], p2 |-> [r \in 0..(n - 1) |-> pp[r][2]],
     root |-> root, precursors |-> precursors, bookmarks |-> bookmarks, otherPins |-> pins,
     branch |-> branch, closed |-> closed, merging |-> merging]

OneBranch(n) == [r \in 0..(n - 1) |-> "default"]

ViewStores ==
    LET n == ViewSize IN
    {Store(n, pp, root, obs, m[1], m[2], OneBranch(n), {}, FALSE) :
        pp \in OrderedParents(n), root \in [0..(n - 1) -> {0, 1, 2}],
        obs \in SUBSET (0..(n - 1)), m \in {<<{}, {}>>, <<{n - 1, n}, {}>>, <<{}, {1}>>}}

RefStores ==
    LET n == RefSize IN
    {Store(n, pp, [r \in 0..(n - 1) |-> IF r \in secret THEN 2 ELSE 1], {}, {0, 2}, {}, branch, closed, FALSE) :
        pp \in {qq \in OrderedParents(n) : qq[1][1] = 0}, secret \in {{}, {n - 1}},
        branch \in {f \in [0..(n - 1) -> Branches] : f[0] = "default"},
        closed \in SUBSET (1..(n - 1))}

DamagedStores ==
    LET n == DamagedSize IN
    {Store(n, pp, root, {}, {}, {}, OneBranch(n), {}, FALSE) :
        pp \in {qq \in [0..(n - 1) -> {-1, 0, n - 1, n} \X {-1, 0}] : qq[0][2] = -1},
        root \in [0..(n - 1) -> {0, 2}]}

MergingStore == Store(1, [r \in {0} |-> <<-1, -1>>], [r \in {0} |-> 0], {}, {}, {}, OneBranch(1), {}, TRUE)

TheStores == UNION {ViewStores, RefStores, DamagedStores, {MergingStore}}
=============================================================================
