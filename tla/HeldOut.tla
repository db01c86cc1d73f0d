------------------------------- MODULE HeldOut -------------------------------
(***************************************************************************)
(* Which rows fit, which select and which evaluate: the fusion experiments *)
(* (ml/fusion/dataset.py, experiments.py, engines.py) and the folds of the *)
(* supervised search (ml/supervised/cross_validation.py).                  *)
(*                                                                         *)
(* A row of the fusion data set is a pattern and a variant; the variant    *)
(* decides its place in the timeline.  Rows of one group are one row here, *)
(* and a parameter shift clones the rows of a partition into groups of     *)
(* their own.  What the engines compute from the rows is left out: an      *)
(* experiment is recorded by the rows each of its stages has read.         *)
(***************************************************************************)
EXTENDS Naturals, FiniteSets

CONSTANTS
    FamilyChoices,  \* functions from patterns to attack families or "benign"
    GroupCounts,    \* groups per pattern
    Shifts,         \* the parameter shifts of the configuration
    MinimumBenign,  \* minimum_benign_groups of the anomaly configuration
    FoldInputs      \* [rows, fold]: training rows [group, session, label], a fold for each group

VARIABLES
    input,
    engines,        \* the engines and the policy fitted for the whole timeline, or None
    report,         \* the experiments so far
    outcome         \* "running", "finished" or "refused"

vars == << input, engines, report, outcome >>

None == [absent |-> TRUE]
Fusion == "family" \in DOMAIN input

-----------------------------------------------------------------------------
\* build_controlled_demo and build_controlled_experiment_dataset: the variants of each
\* pattern go to early, middle and late in turn.
Patterns == DOMAIN input.family
Rows == {[pattern |-> p, variant |-> v, shift |-> "base"] :
            p \in Patterns, v \in 0..(input.groups - 1)}
Family(row) == input.family[row.pattern]
StageOf(row) == << "early", "middle", "late" >>[(row.variant % 3) + 1]
Stage(name) == {r \in Rows : StageOf(r) = name}

\* The group, the source file, the session and the scenario of a row all follow from
\* these.
Group(row) == << row.pattern, row.variant, row.shift >>
Groups(rows) == {Group(r) : r \in rows}
Isolated(parts) == \A p, q \in parts : p # q => Groups(p) \cap Groups(q) = {}

AttackFamilies == {Family(r) : r \in Rows} \ {"benign"}

DatasetIsBuilt == input.groups >= 3 /\ input.groups % 3 = 0 /\ Cardinality(AttackFamilies) >= 2

BothClasses(rows) ==
    (\E r \in rows : Family(r) = "benign") /\ (\E r \in rows : Family(r) # "benign")

-----------------------------------------------------------------------------
\* fit_experimental_engines and select_fusion_policy: the supervised engine fits all
\* training rows, the anomaly engine the benign ones; thresholds, calibration and
\* weights come from the validation rows.
Fits(train, validation) ==
    /\ BothClasses(train) /\ BothClasses(validation)
    /\ Groups(train) \cap Groups(validation) = {}
    /\ Cardinality({r \in train : Family(r) = "benign"}) >= MinimumBenign

Fit(train, validation) ==
    [supervised |-> train, anomaly |-> {r \in train : Family(r) = "benign"},
     selection |-> validation]

\* evaluate_partition: all modes on the same rows, with engines and policy as they are;
\* a bootstrap needs two groups and a distribution both classes.
Evaluates(rows) == BothClasses(rows) /\ Cardinality(Groups(rows)) >= 2

Experiment(kind, held, fitted, rows) ==
    [kind |-> kind, held |-> held, engines |-> fitted, evaluated |-> rows]

\* leave_one_family_out: training and validation without the family, evaluation on it
\* and the benign rows of the last stage.
Without(rows, family) == {r \in rows : Family(r) # family}
FamilyTrain(f) == Without(Stage("early"), f)
FamilyValidation(f) == Without(Stage("middle"), f)
FamilyEvaluation(f) == {r \in Stage("late") : Family(r) \in {"benign", f}}

\* build_parameter_shift_partition.
Shifted(rows, shift) == {[r EXCEPT !.shift = shift] : r \in rows}

Refuse == outcome' = "refused" /\ UNCHANGED << engines, report >>

-----------------------------------------------------------------------------
Init ==
    /\ input \in [family : FamilyChoices, groups : GroupCounts] \cup FoldInputs
    /\ engines = None
    /\ report = {}
    /\ outcome = "running"

\* run_experiments in its order: the engines of the timeline, the known attacks ...
RunKnown ==
    /\ Fusion /\ outcome = "running" /\ engines = None
    /\ IF DatasetIsBuilt /\ Fits(Stage("early"), Stage("middle")) /\ Evaluates(Stage("late"))
       THEN /\ engines' = Fit(Stage("early"), Stage("middle"))
            /\ report' = {Experiment("known_attack", "none", engines', Stage("late"))}
            /\ UNCHANGED outcome
       ELSE Refuse
    /\ UNCHANGED input

HeldOutFamilies == {e.held : e \in {x \in report : x.kind = "leave_one_family_out"}}

\* ... each attack family left out in turn, with engines of its own ...
RunFamily(f) ==
    /\ Fusion /\ outcome = "running" /\ engines # None
    /\ f \in AttackFamilies \ HeldOutFamilies
    /\ IF /\ Isolated({FamilyTrain(f), FamilyValidation(f), FamilyEvaluation(f)})
          /\ \A r \in FamilyTrain(f) \cup FamilyValidation(f) : Family(r) # f
          /\ Fits(FamilyTrain(f), FamilyValidation(f)) /\ Evaluates(FamilyEvaluation(f))
       THEN /\ report' = report \cup
                {Experiment("leave_one_family_out", f, Fit(FamilyTrain(f), FamilyValidation(f)),
                            FamilyEvaluation(f))}
            /\ UNCHANGED << engines, outcome >>
       ELSE Refuse
    /\ UNCHANGED input

\* ... then the timeline and every parameter shift, with the first engines.
RunRest ==
    /\ Fusion /\ outcome = "running" /\ engines # None
    /\ HeldOutFamilies = AttackFamilies
    /\ report' = report
        \cup {Experiment("temporal_holdout", "none", engines, Stage("late"))}
        \cup {Experiment("parameter_shift", "none", engines, Shifted(Stage("late"), s)) :
                s \in Shifts}
    /\ outcome' = "finished"
    /\ UNCHANGED << input, engines >>

-----------------------------------------------------------------------------
\* build_group_folds: every group is in one fold; rows of one session, source file or
\* scenario in two groups are found out, and so is a fold with a single label.
FoldRows(k) == {r \in input.rows : input.fold[r.group] = k}
FoldNumbers == {input.fold[r.group] : r \in input.rows}
Sessions(rows) == {r.session : r \in rows}
Labels(rows) == {r.label : r \in rows}
FoldAccepted(k) ==
    /\ Sessions(FoldRows(k)) \cap Sessions(input.rows \ FoldRows(k)) = {}
    /\ Labels(FoldRows(k)) = {0, 1} /\ Labels(input.rows \ FoldRows(k)) = {0, 1}

\* tune_candidate: each fold is scored by an estimator fitted to the others.
TuneCandidate ==
    /\ ~Fusion /\ outcome = "running"
    /\ IF \A k \in FoldNumbers : FoldAccepted(k)
       THEN /\ report' = {[fitted |-> input.rows \ FoldRows(k), scored |-> FoldRows(k)] :
                                k \in FoldNumbers}
            /\ outcome' = "finished" /\ UNCHANGED engines
       ELSE Refuse
    /\ UNCHANGED input

Next ==
    \/ RunKnown
    \/ \E f \in (IF Fusion THEN AttackFamilies ELSE {}) : RunFamily(f)
    \/ RunRest
    \/ TuneCandidate

Spec == Init /\ [][Next]_vars

-----------------------------------------------------------------------------
TypeOK ==
    /\ outcome \in {"running", "finished", "refused"}
    /\ Fusion => input.groups \in GroupCounts /\ input.family \in FamilyChoices
    /\ ~Fusion => engines = None

\* What evaluates an engine or a policy had no part in fitting or selecting it: no
\* group in common, no row of the family held out, nothing later than what is
\* evaluated; the anomaly engine saw benign rows only.  Within the search, no session
\* both fits and scores an estimator, and all rows are scored once.
HeldOutStaysOut ==
    IF Fusion
    THEN \A e \in report :
            LET seen == e.engines.supervised \cup e.engines.anomaly
                chosen == e.engines.selection
            IN  /\ Isolated({seen, chosen, e.evaluated})
                /\ \A r \in seen \cup chosen : Family(r) # e.held
                /\ e.held # "none" => \E r \in e.evaluated : Family(r) = e.held
                /\ \A r \in seen : StageOf(r) = "early"
                /\ \A r \in chosen : StageOf(r) = "middle"
                /\ \A r \in e.evaluated : StageOf(r) = "late"
                /\ \A r \in e.engines.anomaly : Family(r) = "benign"
    ELSE /\ \A e \in report : Sessions(e.fitted) \cap Sessions(e.scored) = {}
         /\ outcome = "finished" =>
                /\ UNION {e.scored : e \in report} = input.rows
                /\ \A d, e \in report : d # e => d.scored \cap e.scored = {}
=============================================================================
