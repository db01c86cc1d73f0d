SPECIFICATION Spec
CONSTANTS
    Analysts = {a, b}
    SourceObjects = {"hypothesis"}
    OtherObjects = {"alert", "flow"}
    Assignees = {"lead"}
    Priorities = {"medium", "high"}
    MaxReferences = 2
    MaxNotes = 2
    Calls = 4
    ReviewedAlerts = {"alert1", "alert2"}
    Cases = {"case"}
    AnalystVerdicts = {"true_positive", "false_positive"}
    FeedbackSources = {"phase12_api"}
    FlowOf <- MCFlowOf
    EligibleFlows = {"flow1"}
    MinimumRecords = 2
    QueryBound = 3
    CandidateVersions = {1}
    ReviewCalls = 3
    Writers = {a, b}
    ProcessOf <- MCProcessOf
    ArtifactKinds = {"data", "supervised"}
    Crashes = 2
    TelemetrySources = {"source1", "source2"}
    Contents = {"sample", "short", "csv", "huge"}
    SampleContents = {"sample"}
    Nature <- MCNature
    Faults = 2
    CaptureFiles <- MCCaptureFiles
    FrameOf <- MCFrameOf
    FrameWords = {0, 1, 2, 3, 4, 5, 6, 7, 8, 9}
    MaxRecords = 2
    MaxPacketBytes = 58
    MaxInterfaces = 1
    MaxInterfaceBlockBytes = 40
    FlowProtocols = {"tcp", "udp"}
    ObservedPackets <- Exchanged
    MaxFlowPackets = 4
    Commands = {1, 2, 3}
    DataSets <- Canonical
    Tolerance = 1
    Ratios <- MCRatios
    SplitSizes <- Sizes
    SchemaProcesses = {1, 2}
    Workers = {a, b}
    NoWorker = none
    MaxAttempts = 2
    Packets = 2
    LeaseTicks = 1
    OperatorSession = operator
    StarterSession = starter
    Callers = {a, b}
    Engines = {"supervised", "anomaly"}
    BundleVersions = {"1", "2"}
    Qualified <- MCQualified
    Activations = 3
    Configs <- MCConfigs
    Editions = {1, 2, 3}
    Approved = {1, 2}
    ShapeOf <- MCShapeOf
    Changes = 2
    PinnedJobs = {job1, job2}
    PinnedProcesses = {a, b}
    DemoVersions = {1, 2}
    SettingsEdits = 1
    Edits = 2
    FamilyChoices <- Families
    GroupCounts = {3, 4, 6}
    Shifts = {"slow", "large"}
    MinimumBenign = 1
    FoldInputs <- Folds
SYMMETRY Analysis
INVARIANTS
    TypeOK
    OpenAttemptMirrored
    ReferencesMirrored
    VerdictIsBacked
    CandidatesAccountForFeedback
    RunsPinned
    EffectiveIsPinned
    SourcesAreSound
    VersionIsWhole
    PassedIsSeparated
    PublishedIsWhole
    BundleIsEvaluated
    ComputedIsSound
PROPERTIES
    FeedbackMatchesCase
    VersionsAreAtomic
    ActivationIsOptimistic
CHECK_DEADLOCK FALSE
