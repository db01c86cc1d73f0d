------------------------------- MODULE Triage -------------------------------
(***************************************************************************)
(* From the features of a flow to a hypothesis: the two engines score it,  *)
(* the risk policy maps one of the scores to a risk and a severity, the    *)
(* reasons compare the features with the benign reference profile, the     *)
(* contributions replace one feature at a time; the alerts of a run are    *)
(* correlated, rules and evidence are scored, and a group above the        *)
(* threshold becomes a hypothesis with the template of the highest         *)
(* priority.                                                               *)
(*                                                                         *)
(* Features are integers in hundredths.  A score is 0 .. One, a component  *)
(* of a correlation score 0 .. Scale, weights are per cent.  What the      *)
(* models compute is a constant.  Floats are exact here.                   *)
(***************************************************************************)
EXTENDS Integers, Sequences, FiniteSets, TLC, SequencesExt, FiniteSetsExt

CONSTANTS
    Inputs,                  \* batches: training rows, flows, risk policy
    FeatureNames,            \* in the order of the registry
    Supervised(_), Anomaly(_),  \* score 0 .. Top of a feature vector
    Top,
    EngineThreshold,         \* engine -> 1 .. Top
    FusionWeights,           \* engine -> Nat
    TopK,                    \* local_top_k
    CorrelationWindow, MinimumAlerts, MaximumAlertsPerGroup, MaximumAlertsPerRun,
    ScoreWeights, ConfidenceWeights, \* components -> per cent
    AlertCountReference, EvidenceDiversityReference,
    GroupThreshold, HypothesisThreshold, CorrelationBands,  \* per cent
    Scale                    \* a multiple of every denominator

VARIABLES
    input,                   \* the batch
    stage,                   \* "detect", "correlated", "refused" or "done"
    alerts,                  \* alert, NoAlert or Refused of the flows evaluated so far
    dismissed,               \* flows whose alert got an excluded verdict
    groups,                  \* what correlate_alerts returns
    hypotheses

vars == << input, stage, alerts, dismissed, groups, hypotheses >>

Refused == [alert_type |-> "refused"]  \* DetectionContractError
NoAlert == [alert_type |-> "none"]
Flows == DOMAIN input.flows
Total(f) == FoldFunction(+, 0, f)

-----------------------------------------------------------------------------
\* np.quantile: linear interpolation between the ordered rows.
QuantileOf(values, percent) ==
    LET s == SortSeq(values, <)
        at == percent * (Len(s) - 1)
        low == 1 + at \div 100
        part == at % 100
    IN  IF part = 0 THEN s[low] ELSE (s[low] * (100 - part) + s[low + 1] * part) \div 100

Reference(name) ==
    LET column == [i \in DOMAIN input.training |-> input.training[i][name]]
    IN  [q05 |-> QuantileOf(column, 5), median |-> QuantileOf(column, 50),
         q95 |-> QuantileOf(column, 95)]

\* Bands of informational to critical; a policy with others is not loaded.
ValidBands(bands) ==
    /\ Len(bands) = 5
    /\ bands[1] = 0
    /\ \A i \in 1..4 : bands[i] < bands[i + 1]

CorrelationPolicyIsValid ==
    /\ MinimumAlerts >= 2
    /\ MinimumAlerts <= MaximumAlertsPerGroup
    /\ MaximumAlertsPerGroup <= MaximumAlertsPerRun
    /\ Total(ScoreWeights) = 100 /\ Total(ConfidenceWeights) = 100
    /\ ValidBands(CorrelationBands)

\* Scores of a feature vector, in parts of One.
Unit == FusionWeights.supervised + FusionWeights.anomaly
One == Top * Unit
Score(features) ==
    [supervised_probability   |-> Unit * Supervised(features),
     normalized_anomaly_score |-> Unit * Anomaly(features),
     fusion_score             |-> FusionWeights.supervised * Supervised(features)
                                    + FusionWeights.anomaly * Anomaly(features)]

SupervisedHigh(features) == Supervised(features) >= EngineThreshold.supervised
AnomalyHigh(features) == Anomaly(features) >= EngineThreshold.anomaly

MapSeverity(score, bands) ==
    CHOOSE i \in DOMAIN bands :
        /\ bands[i] <= score
        /\ \A j \in DOMAIN bands : j > i => bands[j] > score

\* The one score the policy names.
Risk(features) == Score(features)[input.policy.source]
AlertRequired(features) == Risk(features) >= input.policy.threshold

HighCodes ==
    [packets_per_second     |-> "ABNORMALLY_HIGH_PACKET_RATE",
     periodicity_score      |-> "PERIODIC_BEACONING_PATTERN",
     syn_ratio              |-> "HIGH_SYN_RATIO",
     rst_ratio              |-> "HIGH_RESET_RATIO",
     asymmetry_score        |-> "STRONG_TRAFFIC_ASYMMETRY",
     connection_burst_score |-> "SHORT_CONNECTION_BURST"]
EngineCodes ==
    {"SUPERVISED_HIGH_CONFIDENCE", "ANOMALY_HIGH_SCORE", "MULTI_ENGINE_SUPPORT"}

\* Codes of the enabled catalog entries whose condition holds.
ReasonCodes(features) ==
    LET names == DOMAIN features
        iat == "std_inter_arrival_time"
    IN  {HighCodes[n] : n \in {m \in names \cap DOMAIN HighCodes : features[m] > Reference(m).q95}}
        \cup {c \in {"LOW_IAT_VARIANCE"} :
                /\ iat \in names
                /\ features["mean_inter_arrival_time"] > 0
                /\ features[iat] < Reference(iat).q05}
        \cup {c \in EngineCodes :
                /\ c # "ANOMALY_HIGH_SCORE" => SupervisedHigh(features)
                /\ c # "SUPERVISED_HIGH_CONFIDENCE" => AnomalyHigh(features)}
        \cup {c \in {"RISK_SCORE_ABOVE_ALERT_THRESHOLD"} : AlertRequired(features)}

Replaced(features, name) == [features EXCEPT ![name] = Reference(name).median]
Delta(features, name) == Risk(features) - Risk(Replaced(features, name))
Size(x) == IF x < 0 THEN -x ELSE x

\* The TopK features by the size of their effect, then in the order of the registry.
Contributions(features) ==
    LET index == [n \in Range(FeatureNames) |-> CHOOSE i \in DOMAIN FeatureNames : FeatureNames[i] = n]
        Above(m, n) ==
            LET x == Size(Delta(features, m))
                y == Size(Delta(features, n))
            IN  x > y \/ (x = y /\ index[m] < index[n])
        ranked == SetToSortSeq(Range(FeatureNames), Above)
    IN  [i \in 1..Min({TopK, Len(ranked)}) |->
            [feature_name |-> ranked[i], effect_delta |-> Delta(features, ranked[i])]]

AlertType_Supervised(features) ==  \* the other engine is not asked
    IF SupervisedHigh(features) THEN "multi_engine_suspicion" ELSE "behavioral_pattern"
AlertType(features) ==
    IF SupervisedHigh(features)
    THEN IF AnomalyHigh(features) THEN "multi_engine_suspicion" ELSE "supervised_suspicion"
    ELSE IF AnomalyHigh(features) THEN "anomalous_behavior" ELSE "behavioral_pattern"

CreateSecurityAlert(features) ==
    [alert_type |-> AlertType(features), risk_score |-> Risk(features),
     severity |-> MapSeverity(Risk(features), input.policy.bands),
     reason_codes |-> ReasonCodes(features), contributions |-> Contributions(features)]

-----------------------------------------------------------------------------
Alerted == {f \in DOMAIN alerts : alerts[f] \notin {NoAlert, Refused}} \ dismissed
Sources(S) == {input.flows[f].source : f \in S}
Destinations(S) == {input.flows[f].destination : f \in S}
Codes(S) == UNION {alerts[f].reason_codes : f \in S}

\* The keys that make candidates; the other entities of an alert do not.
IndexAlert(f) ==
    LET flow == input.flows[f]
    IN  {<< "source_ip", flow.source >>, << "destination_ip", flow.destination >>,
         << "source_destination_pair", << flow.source, flow.destination >> >>}

\* The windows and limits of Correlation; which groups score enough is computed below.
Index == INSTANCE Correlation WITH
    Alerts <- Alerted, Entities <- UNION {IndexAlert(f) : f \in Alerted},
    EventStart <- [f \in Alerted |-> input.flows[f].start],
    EventEnd <- [f \in Alerted |-> input.flows[f].end],
    EntityKeys <- [f \in Alerted |-> IndexAlert(f)],
    Matched <- {}

\* Reason codes that contain fail, denied, reject, reset, rst or auth.
FailureCodes == {"HIGH_RESET_RATIO", "SHORT_CONNECTION_BURST"}

\* At least three alerts whose intervals differ by at most a fifth of their mean.
Periodic(S) ==
    LET start == SortSeq(SetToSeq(S), LAMBDA f, g : Index!Before(f, g))
        interval == [i \in 1..(Len(start) - 1) |->
                        input.flows[start[i + 1]].start - input.flows[start[i]].start]
        spread == Max(Range(interval)) - Min(Range(interval))
    IN  /\ Len(interval) >= 2
        /\ Total(interval) > 0
        /\ 5 * spread * Len(interval) <= Total(interval)

EvaluateRules(cluster) ==
    LET S == cluster.alerts
        fan_out == Cardinality(Sources(S)) = 1 /\ Cardinality(Destinations(S)) >= 2
        When(rules, condition) == {rule \in rules : condition}
    IN  When({"source_centered_reconnaissance", "source_fan_out"}, fan_out)
        \cup When({"destination_fan_in"},
                Cardinality(Destinations(S)) = 1 /\ Cardinality(Sources(S)) >= 2)
        \cup When({"repeated_source_destination_failures"},
                /\ cluster.entity_key[1] = "source_destination_pair"
                /\ Codes(S) \cap FailureCodes # {})
        \cup When({"periodic_beacon_like_activity"}, Periodic(S))
        \cup When({"multi_engine_evidence"},
                \E f \in S : alerts[f].alert_type = "multi_engine_suspicion")
        \cup When({"multi_alert_accumulation"}, Codes(S) # {})

\* In parts of 100 * Scale.
ScoreCorrelation(S, rules) ==
    LET Bounded(x) == Min({Scale, Max({0, x})})
        n == Cardinality(S)
        span == Max({input.flows[f].end : f \in S}) - Min({input.flows[f].start : f \in S})
    IN  ScoreWeights.risk
            * (((Scale \div One) * Total([f \in S |-> alerts[f].risk_score])) \div n)
        + ScoreWeights.alert_count * Bounded(n * (Scale \div AlertCountReference))
        + ScoreWeights.evidence_diversity
            * Bounded((Cardinality(Codes(S)) + Cardinality(rules))
                        * (Scale \div EvidenceDiversityReference))
        + ScoreWeights.temporal_density * Bounded(Scale - span * (Scale \div CorrelationWindow))

\* Clusters with the same members make one group with the rules of all of them.
CorrelateAlerts ==
    LET clusters == Index!Clusters(Alerted)
        GroupOf(S) ==
            LET found == {c \in clusters : c.alerts = S}
                rules == UNION {EvaluateRules(c) : c \in found}
                score == ScoreCorrelation(S, rules)
            IN  [alerts |-> S, entity_keys |-> {c.entity_key : c \in found}, rules |-> rules,
                 score |-> score,
                 severity |-> MapSeverity(score,
                    [i \in DOMAIN CorrelationBands |-> CorrelationBands[i] * Scale])]
    IN  {g \in {GroupOf(c.alerts) : c \in clusters} : g.score >= GroupThreshold * Scale}

TemplatePriority ==
    << "possible_command_and_control_pattern", "possible_data_exfiltration_pattern",
       "possible_credential_abuse", "possible_brute_force_activity",
       "possible_network_reconnaissance", "possible_denial_of_service_behavior",
       "possible_beaconing_behavior", "unclassified_behavioral_anomaly" >>

\* No code of the catalog contains auth, credential, account, exfil or outbound.
CandidateTemplates(rules) ==
    LET backed ==
            {t \in Range(TemplatePriority) :
                \/ /\ t = "possible_network_reconnaissance"
                   /\ rules \cap {"source_centered_reconnaissance", "source_fan_out"} # {}
                \/ /\ t = "possible_brute_force_activity"
                   /\ "repeated_source_destination_failures" \in rules
                \/ /\ t = "possible_beaconing_behavior"
                   /\ "periodic_beacon_like_activity" \in rules
                \/ /\ t = "possible_command_and_control_pattern"
                   /\ {"periodic_beacon_like_activity", "multi_engine_evidence"} \subseteq rules
                \/ /\ t = "possible_denial_of_service_behavior"
                   /\ "destination_fan_in" \in rules}
        candidates == IF backed = {} THEN {"unclassified_behavioral_anomaly"} ELSE backed
    IN  SelectSeq(TemplatePriority, LAMBDA t : t \in candidates)

HypothesisGate(group) ==
    /\ Cardinality(group.alerts) >= MinimumAlerts
    /\ group.score >= HypothesisThreshold * Scale
    /\ group.rules # {}

\* In parts of 100 * 100 * Scale.
Confidence(group) ==
    LET candidates == Len(CandidateTemplates(group.rules))
        specificity == Max({20, 100 - 15 * (candidates - 1)})
        diversity == Min({100, 25 * Cardinality(group.rules)})
    IN  ConfidenceWeights.correlation * group.score
        + Scale * (ConfidenceWeights.rule_specificity * specificity
                   + ConfidenceWeights.evidence_diversity * diversity
                   + ConfidenceWeights.entity_coherence * 100)

GenerateHypothesis(group) ==
    [group |-> group, candidates |-> CandidateTemplates(group.rules),
     primary |-> Head(CandidateTemplates(group.rules)), confidence |-> Confidence(group),
     severity |-> group.severity]

-----------------------------------------------------------------------------
Init ==
    /\ CorrelationPolicyIsValid
    /\ input \in {i \in Inputs : ValidBands(i.policy.bands)}
    /\ stage = "detect"
    /\ alerts = << >>
    /\ dismissed = {}
    /\ groups = {}
    /\ hypotheses = {}

\* The next flow of the batch; scores of other models than the policy is made for are
\* refused.
EvaluateFlow ==
    /\ stage = "detect"
    /\ Len(alerts) < Len(input.flows)
    /\ LET features == input.flows[Len(alerts) + 1].features
       IN  alerts' = Append(alerts,
            IF ~input.policy.same_models THEN Refused
            ELSE IF AlertRequired(features) THEN CreateSecurityAlert(features) ELSE NoAlert)
    /\ UNCHANGED << input, stage, dismissed, groups, hypotheses >>

\* An analyst calls an alert a false positive before the run is correlated.
Dismiss ==
    /\ stage = "detect" /\ dismissed = {}
    /\ \E f \in Alerted : dismissed' = {f}
    /\ UNCHANGED << input, stage, alerts, groups, hypotheses >>

\* CorrelationInputError on an alert longer than the window or a group too large.
Correlate ==
    /\ stage = "detect"
    /\ Len(alerts) = Len(input.flows)
    /\ IF Alerted \in Index!AcceptableRuns
       THEN stage' = "correlated" /\ groups' = CorrelateAlerts
       ELSE stage' = "refused" /\ UNCHANGED groups
    /\ UNCHANGED << input, alerts, dismissed, hypotheses >>

Hypothesise ==
    /\ stage = "correlated"
    /\ stage' = "done"
    /\ hypotheses' = {GenerateHypothesis(g) : g \in {h \in groups : HypothesisGate(h)}}
    /\ UNCHANGED << input, alerts, dismissed, groups >>

Next ==
    \/ EvaluateFlow
    \/ Dismiss
    \/ Correlate
    \/ Hypothesise

Spec == Init /\ [][Next]_vars

-----------------------------------------------------------------------------
TypeOK ==
    /\ input \in Inputs
    /\ Len(alerts) <= Len(input.flows)
    /\ dismissed \subseteq DOMAIN alerts
    /\ stage \in {"detect", "correlated", "refused", "done"}
    /\ \A g \in groups : g.alerts \subseteq Flows
    /\ \A h \in hypotheses : h.group \in groups

\* An alert says which engines are behind it twice, as its type and as its reasons, and
\* both agree; a flow with the median features of the reference shows no feature as
\* unusual; and a feature whose replacement would have avoided the alert increases
\* suspicion, and no smaller effect is reported before it.
AlertIsExplained(f) ==
    LET alert == alerts[f]
        features == input.flows[f].features
        medians == [n \in DOMAIN features |-> Reference(n).median]
    IN  /\ alert.alert_type = "multi_engine_suspicion" <=>
            "MULTI_ENGINE_SUPPORT" \in alert.reason_codes
        /\ alert.alert_type = "behavioral_pattern" <=> alert.reason_codes \cap EngineCodes = {}
        /\ "RISK_SCORE_ABOVE_ALERT_THRESHOLD" \in alert.reason_codes
        /\ ReasonCodes(medians) \subseteq EngineCodes \cup {"RISK_SCORE_ABOVE_ALERT_THRESHOLD"}
        /\ \A n \in DOMAIN features :
            ~AlertRequired(Replaced(features, n)) =>
                /\ Delta(features, n) > 0
                /\ Size(alert.contributions[1].effect_delta) >= Delta(features, n)

\* What the flows of a group show, whatever rules matched.
OneToMany(S) == Cardinality(Sources(S)) = 1 /\ Cardinality(Destinations(S)) > 1
ManyToOne(S) == Cardinality(Destinations(S)) = 1 /\ Cardinality(Sources(S)) > 1
OnePair(S) == Cardinality(Sources(S)) = 1 /\ Cardinality(Destinations(S)) = 1

\* A hypothesis rests on what the flows of its alerts did, through scoring, correlation
\* and templates: no dismissed alert is part of it, its alerts fit in one window and
\* share an address, the first template is backed by the flows themselves, and it is of
\* medium severity at least.  Its confidence cannot fall below 0.65 once it is past the
\* gate, and stays below one.
HypothesisIsBacked(h) ==
    LET S == h.group.alerts
        Both(f) == SupervisedHigh(input.flows[f].features) /\ AnomalyHigh(input.flows[f].features)
    IN  /\ S \cap dismissed = {}
        /\ \A f, g \in S : input.flows[f].end - input.flows[g].start <= CorrelationWindow
        /\ Cardinality(Sources(S)) = 1 \/ Cardinality(Destinations(S)) = 1
        /\ h.primary = "possible_command_and_control_pattern" =>
            Cardinality(S) >= 3 /\ \E f \in S : Both(f)
        /\ h.primary = "possible_network_reconnaissance" => OneToMany(S)
        /\ h.primary = "possible_denial_of_service_behavior" => ManyToOne(S)
        /\ h.primary = "possible_brute_force_activity" =>
            OnePair(S) /\ \E f \in S : \E n \in {"rst_ratio", "connection_burst_score"} :
                n \in DOMAIN input.flows[f].features
                /\ input.flows[f].features[n] > Reference(n).q95
        /\ h.primary = "unclassified_behavioral_anomaly" => OnePair(S)
        /\ h.severity >= 3
        /\ h.confidence \in (6500 * Scale)..(10000 * Scale)

TriageIsSound ==
    /\ \A f \in DOMAIN alerts : alerts[f] \notin {NoAlert, Refused} => AlertIsExplained(f)
    /\ \A h \in hypotheses : HypothesisIsBacked(h)
=============================================================================
