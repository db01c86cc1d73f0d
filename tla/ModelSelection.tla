---------------------------- MODULE ModelSelection ----------------------------
(***************************************************************************)
(* How models, thresholds and fusion weights are chosen from validation    *)
(* data (ml/supervised: metrics.py, thresholding.py, calibration.py,       *)
(* selection.py; ml/anomaly: metrics.py, normalization.py,                 *)
(* thresholding.py, selection.py; ml/fusion: scoring.py, selection.py,     *)
(* bootstrap.py).                                                          *)
(*                                                                         *)
(* The validation rows carry a label, a group, a supervised score and a    *)
(* raw anomaly score.  Every ratio is an integer in units of 1 / Scale,    *)
(* which divides all denominators of up to four rows, so that metrics are  *)
(* exact; macro F1 and balanced accuracy are kept as sums of their two     *)
(* halves.  What an estimator computes is outside: supervised candidates   *)
(* are monotone maps of the score, anomaly candidates differ in the        *)
(* training scores their normaliser was fitted to.                         *)
(***************************************************************************)
EXTENDS Integers, Sequences, FiniteSetsExt, Functions

CONSTANTS
    Validations,    \* the validation data: [label, group, score, raw], sequences of one length
    Top,            \* scores are 0..Top, and stand for score / Top
    References,     \* sorted raw scores of benign training rows, by estimator
    Thresholds,     \* candidate thresholds, in 0..Top
    RateLimit,      \* the limit on the benign false positive rate, in units of 1 / Scale
    Weights,        \* [supervised, anomaly] weight candidates, with a common sum
    MinimumGain,    \* recommendation_min_macro_f1_delta, in units of 1 / Scale
    AllowedRate     \* recommendation_max_fpr_increase, in units of 1 / Scale

VARIABLES
    data,
    scores,     \* the scores of every candidate of an engine on the rows
    results,    \* what they give at every threshold
    chosen

vars == << data, scores, results, chosen >>

Scale == 2520
Ratio(n, d) == IF d = 0 THEN 0 ELSE (n * Scale) \div d
Refused == [refused |-> TRUE]
Pending == [pending |-> TRUE]
Rows == DOMAIN data.label

-----------------------------------------------------------------------------
\* Tuples are compared like Python does: by the first element that differs.
Below(k, l) == \E i \in DOMAIN k : k[i] < l[i] /\ \A j \in 1..(i - 1) : k[j] = l[j]
Best(S, Key(_)) == CHOOSE x \in S : \A y \in S : ~Below(Key(x), Key(y))

-----------------------------------------------------------------------------
Count(S, P(_)) == Cardinality({i \in S : P(i)})

\* _average_precision: the precision at every distinct score, weighted by the recall
\* gained there.
AveragePrecision(score) ==
    LET positives == Count(Rows, LAMBDA i : data.label[i] = 1)
        At(v) == {i \in Rows : score[i] >= v}
        True(v) == Count(At(v), LAMBDA i : data.label[i] = 1)
        Gained(v) == Count(Rows, LAMBDA i : score[i] = v /\ data.label[i] = 1)
    IN  MapThenSumSet(LAMBDA v : Ratio(Gained(v) * True(v), positives * Cardinality(At(v))),
                      {score[i] : i \in Rows})

\* The rate of predicted positives among the rows of one label, within each group that
\* has such rows; twice the variance is enough to compare standard deviations.
Stability(flagged) ==
    LET Benign(g) == {i \in Rows : data.group[i] = g /\ data.label[i] = 0}
        rated == {g \in Range(data.group) : Benign(g) # {}}
        Rate(g) == Ratio(Cardinality(Benign(g) \cap flagged), Cardinality(Benign(g)))
        total == MapThenSumSet(Rate, rated)
    IN  Cardinality(rated) * MapThenSumSet(LAMBDA g : Rate(g) * Rate(g), rated) - total * total

\* evaluate_binary_classification and evaluate_anomaly_metrics, in what selection reads.
Metrics(flagged, score) ==
    LET tp == Count(flagged, LAMBDA i : data.label[i] = 1)
        fp == Cardinality(flagged) - tp
        fn == Count(Rows, LAMBDA i : data.label[i] = 1) - tp
        tn == Cardinality(Rows) - tp - fp - fn
        f1 == Ratio(2 * tp, 2 * tp + fp + fn)
        recall == Ratio(tp, tp + fn)
    IN  [f1 |-> f1, macro |-> f1 + Ratio(2 * tn, 2 * tn + fp + fn), recall |-> recall,
         balanced |-> recall + Ratio(tn, tn + fp), rate |-> Ratio(fp, tn + fp),
         missed |-> Ratio(fn, tp + fn), precision |-> AveragePrecision(score),
         spread |-> Stability(flagged)]

\* _fast_metric_values: the same figures a second time, for the bootstrap.
FastMetrics(flagged) ==
    LET positives == {i \in Rows : data.label[i] = 1}
        negatives == Rows \ positives
        tp == Cardinality(flagged \cap positives)
        tn == Cardinality(negatives \ flagged)
        Harmonic(hit, actual, predicted) ==     \* of hit / predicted and hit / actual
            IF hit = 0 THEN 0 ELSE Ratio(2 * hit * hit, hit * actual + hit * predicted)
        f1 == Harmonic(tp, Cardinality(positives), Cardinality(flagged))
    IN  [recall |-> Ratio(tp, Cardinality(positives)), f1 |-> f1,
         macro |-> f1 + Harmonic(tn, Cardinality(negatives), Cardinality(Rows \ flagged)),
         rate |-> Ratio(Cardinality(negatives \cap flagged), Cardinality(negatives))]

Flagged(score, threshold) == {i \in Rows : score[i] >= threshold}

-----------------------------------------------------------------------------
\* Supervised: one threshold per candidate, then one candidate.
\* The score of a candidate after calibration: "steep" doubles the distance to 1/2.
Candidates == {"plain", "steep"}
Calibrated(name) ==
    [i \in Rows |-> IF name = "plain" THEN data.score[i]
                    ELSE LET s == 2 * data.score[i] - Top \div 2
                         IN  IF s < 0 THEN 0 ELSE IF s > Top THEN Top ELSE s]

AlgorithmOrder(name) == IF name = "plain" THEN 1 ELSE 2
Distance(t) == IF 2 * t > Top THEN 2 * t - Top ELSE Top - 2 * t

Evaluated(name) ==
    LET score == scores.supervised[name]
    IN  {[name |-> name, threshold |-> t, metrics |-> Metrics(Flagged(score, t), score)] :
            t \in Thresholds}

SupervisedThreshold(name) ==
    Best(results.supervised[name],
         LAMBDA e : << e.metrics.macro, e.metrics.recall, -e.metrics.rate,
                       -Distance(e.threshold), -e.threshold >>)

\* The mean squared distance of probability and label.
Brier(name) ==
    MapThenSumSet(LAMBDA i : (scores.supervised[name][i] - Top * data.label[i]) ^ 2, Rows)

\* selection_rank and its portable form, without the last ties: the variance over folds,
\* and in the first form latency and size.
SelectMain ==
    Best({SupervisedThreshold(name) : name \in Candidates},
         LAMBDA e : << e.metrics.macro, e.metrics.precision, e.metrics.recall, -e.metrics.rate,
                       -Brier(e.name), AlgorithmOrder(e.name) >>)

-----------------------------------------------------------------------------
\* The knots of a normaliser: pairs << raw score, normalised >>, the raw score in units
\* of 1 / 20 for the percentiles 0.05 and 0.95.
Strategies == {"benign_training_quantile_cdf", "smoothed_empirical_cdf",
               "robust_percentile_scaling"}

QuantileKnots(reference) ==
    LET n == Len(reference)
        Last(v) == Max({i \in 1..n : reference[i] = v})
    IN  {<< 20 * v, IF n = 1 THEN 0 ELSE Ratio(Last(v) - 1, n - 1) >> : v \in Range(reference)}

SmoothedKnots(reference) ==
    LET n == Len(reference)
        Below2(v) == 2 * Count(1..n, LAMBDA i : reference[i] < v)
                        + Count(1..n, LAMBDA i : reference[i] = v)
    IN  {<< 20 * v, Ratio(Below2(v), 2 * n) >> : v \in Range(reference)}

RobustKnots(reference) ==
    LET n == Len(reference)
        low == IF n = 1 THEN 20 * reference[1]
               ELSE 20 * reference[1] + (n - 1) * (reference[2] - reference[1])
        high == IF n = 1 THEN 20 * reference[1]
                ELSE 20 * reference[n] - (n - 1) * (reference[n] - reference[n - 1])
    IN  IF low = high THEN {<< low, 0 >>} ELSE {<< low, 0 >>, << high, Scale >>}

Knots(strategy, reference) ==
    CASE strategy = "benign_training_quantile_cdf" -> QuantileKnots(reference)
      [] strategy = "smoothed_empirical_cdf" -> SmoothedKnots(reference)
      [] strategy = "robust_percentile_scaling" -> RobustKnots(reference)

\* normalize_scores: one knot splits into 0, 1/2 and 1; more are interpolated, with 0
\* and 1 beyond the ends.
Normalized(knots, raw) ==
    LET x == 20 * raw
        least == CHOOSE k \in knots : \A l \in knots : k[1] <= l[1]
        last == CHOOSE k \in knots : \A l \in knots : k[1] >= l[1]
        left == CHOOSE k \in knots : k[1] <= x /\ \A l \in knots : l[1] <= x => l[1] <= k[1]
        right == CHOOSE k \in knots : k[1] > x /\ \A l \in knots : l[1] > x => l[1] >= k[1]
    IN  CASE x < least[1] -> 0
          [] x > last[1] -> Scale
          [] Cardinality(knots) = 1 -> Scale \div 2
          [] x = last[1] /\ Cardinality(knots) > 1 -> last[2]
          [] OTHER -> left[2] + ((x - left[1]) * (right[2] - left[2])) \div (right[1] - left[1])

-----------------------------------------------------------------------------
\* Anomaly: every forest with every normalisation strategy, and LOF with the first.
LofId == << 1, "benign_training_quantile_cdf" >>
ForestIds == (DOMAIN References \ {1}) \X Strategies
AnomalyIds == ForestIds \cup {LofId}

AnomalyScore(id) ==
    LET knots == Knots(id[2], References[id[1]])
    IN  [i \in Rows |-> Normalized(knots, data.raw[i])]

\* evaluate_thresholds.
AnomalyResults(id) ==
    LET score == scores.anomaly[id]
    IN  {[id |-> id, threshold |-> t,
          metrics |-> Metrics(Flagged(score, Ratio(t, Top)), score)] : t \in Thresholds}

\* Thresholds within the limit on false positives.
Compliant_AnyRate(S) == S
Compliant(S) == {r \in S : r.metrics.rate <= RateLimit}

\* select_threshold: later policies put any detection at all before the rest.
ThresholdKey(r) ==
    << r.metrics.f1, r.metrics.recall, r.metrics.precision, r.metrics.balanced,
       -r.metrics.rate, -r.metrics.spread, -r.threshold >>

AnomalyThreshold(id) ==
    LET eligible == Compliant(results.anomaly[id])
    IN  IF eligible = {} THEN Refused ELSE Best(eligible, ThresholdKey)

\* Candidates without a compliant threshold are recorded as failed and left out.
Fitted == {AnomalyThreshold(id) : id \in ForestIds} \ {Refused}
LofCandidate == AnomalyThreshold(LofId)

\* train: only policy 2.0.0 admits LOF, and then insists on its evidence.
Eligible(policy) == IF policy = "2.0.0" THEN Fitted \cup {LofCandidate} ELSE Fitted

\* select_production_candidate: policy 1.0.0 goes by average precision; the later ones
\* want some detection and go by F1.  The identity that sorts first wins a tie; latency,
\* size and the parameters of a forest, which come before it, are left out.
Useful(r) == r.metrics.f1 > 0 /\ r.metrics.recall > 0
IdKey(id) == 10 * (IF id = LofId THEN Len(References) + 1 ELSE id[1])
                + CASE id[2] = "benign_training_quantile_cdf" -> 1
                    [] id[2] = "robust_percentile_scaling" -> 2
                    [] id[2] = "smoothed_empirical_cdf" -> 3
FirstPolicyKey(r) ==
    << r.metrics.precision, r.metrics.f1, r.metrics.recall, r.metrics.balanced,
       -r.metrics.rate, -r.metrics.spread, -IdKey(r.id) >>
LaterPolicyKey(r) ==
    << r.metrics.f1, r.metrics.recall, r.metrics.precision, r.metrics.balanced,
       -r.metrics.rate, -IdKey(r.id) >>

SelectProduction(policy) ==
    LET eligible == IF policy = "1.0.0" THEN Eligible(policy)
                    ELSE {r \in Eligible(policy) \ {Refused} : Useful(r)}
    IN  CASE policy = "2.0.0" /\ LofCandidate = Refused -> Refused
          [] eligible = {} -> Refused
          [] eligible # {} /\ policy = "1.0.0" -> Best(eligible, FirstPolicyKey)
          [] OTHER -> Best(eligible, LaterPolicyKey)

-----------------------------------------------------------------------------
\* weighted_score, in units of Scale times the sum of the weights.
WeightSum(w) == w.supervised + w.anomaly
Fused(w) ==
    [i \in Rows |-> w.supervised * Ratio(data.score[i], Top)
                        + w.anomaly * scores.anomaly[LofId][i]]

FusionResults ==
    {[weights |-> w, threshold |-> t,
      metrics |-> Metrics(Flagged(Fused(w), WeightSum(w) * Ratio(t, Top)), Fused(w))] :
        w \in Weights, t \in Thresholds}

\* _rank, with the identity as the last key.
Rank(e) ==
    << IF e.metrics.macro > 0 THEN 1 ELSE 0, e.metrics.macro, e.metrics.recall,
       e.metrics.precision, e.metrics.balanced, -e.metrics.missed, -e.metrics.rate >>
FusionKey(e) == Rank(e) \o << e.weights.supervised, e.threshold >>

Baseline(name, result) == [name |-> name, metrics |-> result.metrics]
SupervisedBaseline == Baseline("supervised_only", SupervisedThreshold("plain"))
AnomalyBaseline == Baseline("anomaly_only", LofCandidate)

\* The better of the two single engines, whatever its false positive rate.
BestBaseline ==
    Best({SupervisedBaseline, AnomalyBaseline},
         LAMBDA e : Rank(e) \o << IF e.name = "supervised_only" THEN 2 ELSE 1 >>)

Recommendation(selected) ==
    LET gain == selected.metrics.macro - BestBaseline.metrics.macro
        increase == selected.metrics.rate - BestBaseline.metrics.rate
    IN  CASE gain > 2 * MinimumGain /\ increase <= AllowedRate -> "fusion_recommended"
          [] gain < 0 \/ increase > AllowedRate -> "fusion_not_recommended"
          [] OTHER -> "inconclusive"

\* select_fusion_policy; the anomaly engine needs a threshold of its own first.
SelectFusion ==
    LET compliant == {e \in Compliant(results.fusion) : Useful(e)}
    IN  IF compliant = {} \/ LofCandidate = Refused THEN Refused
        ELSE LET selected == Best(compliant, FusionKey)
             IN  [selected |-> selected, recommendation |-> Recommendation(selected)]

-----------------------------------------------------------------------------
Init ==
    /\ data \in Validations
    /\ scores = Pending /\ results = Pending /\ chosen = Pending

\* Candidates do not look at each other: here all are scored, then all evaluated.
ScoreCandidates ==
    /\ scores = Pending
    /\ scores' = [supervised |-> [name \in Candidates |-> Calibrated(name)],
                  anomaly |-> [id \in AnomalyIds |-> AnomalyScore(id)]]
    /\ UNCHANGED << data, results, chosen >>

EvaluateThresholds ==
    /\ scores # Pending /\ results = Pending
    /\ results' = [supervised |-> [name \in Candidates |-> Evaluated(name)],
                   anomaly |-> [id \in AnomalyIds |-> AnomalyResults(id)],
                   fusion |-> FusionResults]
    /\ UNCHANGED << data, scores, chosen >>

Select ==
    /\ results # Pending /\ chosen = Pending
    /\ chosen' = [supervised |-> SelectMain,
                  first |-> SelectProduction("1.0.0"),
                  later |-> SelectProduction("2.0.0"),
                  fusion |-> SelectFusion]
    /\ UNCHANGED << data, scores, results >>

Next ==
    \/ ScoreCandidates
    \/ EvaluateThresholds
    \/ Select

Spec == Init /\ [][Next]_vars

-----------------------------------------------------------------------------
TypeOK ==
    /\ data \in Validations
    /\ scores = Pending \/ DOMAIN scores = {"supervised", "anomaly"}
    /\ results = Pending \/ DOMAIN results = {"supervised", "anomaly", "fusion"}
    /\ chosen = Pending \/ DOMAIN chosen = {"supervised", "first", "later", "fusion"}

\* What is frozen keeps to the limit on false positives and detects something where the
\* policy asks for it; nothing that was as admissible scores better on the metric the
\* policy puts first, over all candidates and thresholds; fusion is recommended only if
\* it is better than both engines; and a higher raw score is never less anomalous.
SelectionIsSound ==
    chosen # Pending =>
        /\ \A name \in Candidates : \A e \in results.supervised[name] :
                e.metrics.macro <= chosen.supervised.metrics.macro
        /\ chosen.first # Refused =>
                /\ chosen.first.metrics.rate <= RateLimit
                /\ \A r \in Fitted : r.metrics.precision <= chosen.first.metrics.precision
        /\ chosen.later # Refused =>
                /\ chosen.later.metrics.rate <= RateLimit
                /\ \A id \in AnomalyIds : \A r \in results.anomaly[id] :
                        r.metrics.rate <= RateLimit => r.metrics.f1 <= chosen.later.metrics.f1
        /\ chosen.later = Refused /\ LofCandidate # Refused =>
                \A id \in AnomalyIds : \A r \in results.anomaly[id] :
                    Useful(r) => r.metrics.rate > RateLimit
        /\ chosen.fusion # Refused =>
                /\ chosen.fusion.selected.metrics.rate <= RateLimit
                /\ chosen.fusion.selected.metrics.recall > 0
                /\ chosen.fusion.recommendation = "fusion_recommended" =>
                    \A baseline \in {SupervisedBaseline, AnomalyBaseline} :
                        baseline.metrics.macro < chosen.fusion.selected.metrics.macro
        /\ \A id \in AnomalyIds : \A i, j \in Rows :
                data.raw[i] < data.raw[j] => scores.anomaly[id][i] <= scores.anomaly[id][j]
        /\ \A t \in Thresholds :
                LET flagged == Flagged(data.score, t)
                    fast == FastMetrics(flagged)
                    full == Metrics(flagged, data.score)
                IN  /\ fast.f1 = full.f1 /\ fast.macro = full.macro
                    /\ fast.recall = full.recall /\ fast.rate = full.rate
=============================================================================
