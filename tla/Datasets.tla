------------------------------- MODULE Datasets -----------------------------
(***************************************************************************)
(* The gates a canonical data set passes before its partitions are         *)
(* written: quality, the split by groups, and leakage between partitions   *)
(* (datasets/quality.py, split.py, leakage.py and service.py).             *)
(*                                                                         *)
(* Rows are numbered in the order of the file.  A feature is a small       *)
(* integer, a label 0, 1 or unmapped; ratios are percentages.  The order   *)
(* of groups by hash is any order.  Gates on names (label tokens in file   *)
(* names and the like) and the statistics reported with no effect on the   *)
(* outcome are left out.  How the files are written is DatasetFiles.       *)
(***************************************************************************)
EXTENDS Integers, FiniteSets, Sequences, SequencesExt, FiniteSetsExt

CONSTANTS
    Canonical,          \* the data sets to be judged: sequences of rows
    Tolerance,          \* near_duplicate_tolerance
    Ratios,             \* [train, validation, test], in percent
    GroupCounts         \* numbers of groups for which split sizes are judged

Splits == << "train", "validation", "test" >>
Unmapped == 2

VARIABLES
    rows,       \* group, session, label and features of each row
    order,      \* the groups in the order of their hashes
    outcome     \* none yet, refused by a gate, or the partition of each group

vars == << rows, order, outcome >>

GroupsOf(R) == {R[i].group : i \in DOMAIN R}

Init ==
    /\ rows \in Canonical
    /\ order \in SetToSeqs(GroupsOf(rows))
    /\ outcome = [gate |-> "none"]

TypeOK ==
    /\ outcome.gate \in {"none", "quality", "split", "leakage", "passed"}
    /\ outcome.gate = "passed" => DOMAIN outcome.split = GroupsOf(rows)

-----------------------------------------------------------------------------
(* Near duplicates. *)

Width(R) == Len(R[1].features)
Features(R, f) == {R[i].features[f] : i \in DOMAIN R}
Distance(a, b) == IF a < b THEN b - a ELSE a - b

\* The feature with the widest range, the first of them.
Spread(R, f) == Max(Features(R, f)) - Min(Features(R, f))
Pivot(R) ==
    CHOOSE f \in 1..Width(R) : \A g \in 1..Width(R) :
        Spread(R, f) > Spread(R, g) \/ (Spread(R, f) = Spread(R, g) /\ f <= g)

\* Row j comes before row i in the order of the pivot.
Earlier(R, j, i) ==
    LET key(k) == R[k].features[Pivot(R)]
    IN  key(j) < key(i) \/ (key(j) = key(i) /\ j < i)

\* An earlier row is still in the window of row i.
InWindow_Strict(R, i, j) == R[i].features[Pivot(R)] - R[j].features[Pivot(R)] < Tolerance
InWindow(R, i, j) == R[i].features[Pivot(R)] - R[j].features[Pivot(R)] <= Tolerance

Near(R, i, j) ==
    /\ R[i].features # R[j].features
    /\ \A f \in 1..Width(R) : Distance(R[i].features[f], R[j].features[f]) <= Tolerance

\* The rows that row i is joined with.
Joined(R, i) == {j \in DOMAIN R : Earlier(R, j, i) /\ InWindow(R, i, j) /\ Near(R, i, j)}

\* union(): the smallest root becomes the root of all.
Union(root, joined) ==
    LET roots == {root[i] : i \in joined}
    IN  [k \in DOMAIN root |-> IF root[k] \in roots THEN Min(roots) ELSE root[k]]

\* In which order the rows are joined makes no difference.
Components(R) ==
    LET root[n \in 0..Len(R)] ==
            IF n = 0 THEN [i \in DOMAIN R |-> i] ELSE Union(root[n - 1], {n} \cup Joined(R, n))
        components == {{i \in DOMAIN R : root[Len(R)][i] = k} : k \in DOMAIN R}
    IN  {c \in components : Cardinality(c) > 1}

-----------------------------------------------------------------------------
\* analyze_quality: unlabelled rows, and equal features with different labels.
QualityFails(R) ==
    \/ \E i \in DOMAIN R : R[i].label = Unmapped
    \/ \E i, j \in DOMAIN R : R[i].features = R[j].features /\ R[i].label # R[j].label

\* round() of a percentage: a half goes to the even neighbour.
Rounded(n, percent) ==
    LET q == (n * percent) \div 100
        r == (n * percent) % 100
    IN  IF r > 50 \/ (r = 50 /\ q % 2 = 1) THEN q + 1 ELSE q

\* _split_counts: no partition may be empty; none is left if training would be.
SplitCounts(n, ratios) ==
    LET train == Max({1, Rounded(n, ratios.train)})
        validation == Max({1, Rounded(n, ratios.validation)})
        test == n - train - validation
    IN  [train |-> IF test < 1 THEN train - (1 - test) ELSE train,
         validation |-> validation,
         test |-> IF test < 1 THEN 1 ELSE test]
Splittable(n, ratios) == n >= 3 /\ SplitCounts(n, ratios).train >= 1

\* _require_identity_isolation
Isolated(R) == \A i, j \in DOMAIN R : R[i].session = R[j].session => R[i].group = R[j].group

SplitFails(R) == ~Isolated(R) \/ ~Splittable(Cardinality(GroupsOf(R)), Ratios)

\* group_aware_split: the first groups train, the next validate.
Partition(R, groups) ==
    LET counts == SplitCounts(Len(groups), Ratios)
    IN  [g \in GroupsOf(R) |->
            LET n == CHOOSE k \in DOMAIN groups : groups[k] = g
            IN  CASE n <= counts.train -> "train"
                  [] n > counts.train /\ n <= counts.train + counts.validation -> "validation"
                  [] OTHER -> "test"]

\* _overlap, _fingerprint_overlap and _direct_label_features.
Across(R, split, I) == Cardinality({split[R[i].group] : i \in I}) > 1
Equal(R, i) == {j \in DOMAIN R : R[j].features = R[i].features}
LeakageFails(R, split) ==
    \/ \E i \in DOMAIN R :
        \/ Across(R, split, {j \in DOMAIN R : R[j].session = R[i].session})
        \/ Across(R, split, Equal(R, i))
    \/ \E c \in Components(R) : Across(R, split, c)
    \/ \E f \in 1..Width(R) : \A i \in DOMAIN R : R[i].features[f] = R[i].label

\* _complete_workflow up to its first file.
Complete ==
    /\ outcome.gate = "none"
    /\ outcome' =
        CASE QualityFails(rows) -> [gate |-> "quality"]
          [] ~QualityFails(rows) /\ SplitFails(rows) -> [gate |-> "split"]
          [] ~QualityFails(rows) /\ ~SplitFails(rows) ->
                LET split == Partition(rows, order)
                IN  IF LeakageFails(rows, split) THEN [gate |-> "leakage"]
                    ELSE [gate |-> "passed", split |-> split]
    /\ UNCHANGED << rows, order >>

Next == Complete

Spec == Init /\ [][Next]_vars

-----------------------------------------------------------------------------
\* Whatever passes the gates has three partitions that share no session and no
\* rows within the tolerance of each other, no row without a label, and no two
\* equal rows with different ones; and the sizes always add up.
PassedIsSeparated ==
    /\ outcome.gate = "passed" =>
        LET splitOf(i) == outcome.split[rows[i].group] IN
        /\ {outcome.split[g] : g \in GroupsOf(rows)} = ToSet(Splits)
        /\ \A i, j \in DOMAIN rows : splitOf(i) # splitOf(j) =>
            /\ rows[i].session # rows[j].session
            /\ \E f \in 1..Width(rows) :
                Distance(rows[i].features[f], rows[j].features[f]) > Tolerance
        /\ \A i \in DOMAIN rows : rows[i].label \in {0, 1}
    /\ \A n \in GroupCounts : Splittable(n, Ratios) =>
        LET c == SplitCounts(n, Ratios) IN
        c.train + c.validation + c.test = n /\ c.validation >= 1 /\ c.test >= 1
=============================================================================
