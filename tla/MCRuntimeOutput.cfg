SPECIFICATION Spec
CONSTANTS
    Alerts <- MCAlerts
    Entities = {"x", "y"}
    EventStart <- MCEventStart
    EventEnd <- MCEventEnd
    EntityKeys <- MCEntityKeys
    CorrelationWindow = 3
    MinimumAlerts = 2
    MaximumAlertsPerGroup = 2
    MaximumAlertsPerRun = 5
    Matched <- MCMatched
    Flows <- MCFlows
    Packets = 2
    ClosedBy <- MCClosedBy
    BatchSize = 2
    CorrelationBatch = 2
    MaximumAttempts = 2
    Verdicts = {"true_positive", "false_positive"}
    ExcludedVerdicts = {"false_positive"}
    Gated <- MCGated
    MaxVerdicts = 1
    MaxScored = 1
CHECK_DEADLOCK FALSE
INVARIANT
    CountersTruthful
    CreatedOnce
    OnlyAnalystsRefuse
    GroupsBounded
PROPERTY
    ReplaysAsOne
    EvidenceKept
