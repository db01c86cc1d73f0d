----------------------------- MODULE ModelWork ------------------------------
(***************************************************************************)
(* Which models there are and which are used: the rows that fit, select    *)
(* and evaluate them, the experiments and bundles of the model lab, the    *)
(* registry, the artifacts a runtime job is pinned to, and the evaluation  *)
(* pages.                                                                  *)
(***************************************************************************)
EXTENDS Parts, Naturals, Sequences

CONSTANTS
    Callers,
    Engines, BundleVersions, Qualified, Activations,
    Configs, Editions, Approved, ShapeOf, Changes,
    PinnedJobs, PinnedProcesses, DemoVersions, SettingsEdits,
    Edits,
    FamilyChoices, GroupCounts, Shifts, MinimumBenign, FoldInputs

VARIABLES
    rows, damaged, caller, overtaken, activations,
    config, dataset, store, bundle, command, changes,
    configured, flow_settings, operation, demo, unreadable, runner, job, created, latest, edits,
    disk, extra, policy, copies, experiment, pinned, reader,
    input, engines, report, outcome

Registry == INSTANCE ModelRegistry

Lab == INSTANCE ModelLab WITH call <- command

Pins == INSTANCE PinnedArtifacts WITH
    Jobs <- PinnedJobs, Processes <- PinnedProcesses, Edits <- SettingsEdits,
    flows <- flow_settings, process <- runner

Pages == INSTANCE EvaluationEvidence WITH writer <- experiment

Splits == INSTANCE HeldOut

RegistryAssumption == Registry!None \notin BundleVersions /\ Activations \in Nat

PinsAssumption ==
    /\ DemoVersions \subseteq Nat \ {0} /\ DemoVersions # {}
    /\ SettingsEdits \in Nat

PagesAssumption == Edits \in Nat

LabAssumption == Changes \in Nat

\* No attack family is named "none", which says that no family was held out, and the
\* inputs of the supervised search have no families.
SplitsAssumption ==
    /\ \A choice \in FamilyChoices : \A p \in DOMAIN choice : choice[p] # "none"
    /\ \A folds \in FoldInputs : "family" \notin DOMAIN folds

ASSUME ModelAssumption ==
    RegistryAssumption /\ LabAssumption /\ PinsAssumption /\ PagesAssumption /\ SplitsAssumption

-----------------------------------------------------------------------------
RegistryVars == << rows, damaged, caller, overtaken, activations >>
LabVars == << config, dataset, store, bundle, command, changes >>
PinVars ==
    << configured, flow_settings, operation, demo, unreadable, runner, job, created, latest >>
PageVars == << disk, extra, policy, copies, experiment, pinned, reader >>
SplitVars == << input, engines, report, outcome >>
ModelVars == << part, edits, RegistryVars, LabVars, PinVars, PageVars, SplitVars >>

RegistryUnused ==
    /\ rows = Unused /\ damaged = Unused /\ caller = Unused /\ overtaken = Unused
    /\ activations = Unused
LabUnused ==
    /\ config = Unused /\ dataset = Unused /\ store = Unused /\ bundle = Unused
    /\ command = Unused /\ changes = Unused
PinsUnused ==
    /\ configured = Unused /\ flow_settings = Unused /\ operation = Unused /\ demo = Unused
    /\ unreadable = Unused /\ runner = Unused /\ job = Unused /\ created = Unused
    /\ latest = Unused
PagesUnused ==
    /\ disk = Unused /\ extra = Unused /\ policy = Unused /\ copies = Unused
    /\ experiment = Unused /\ pinned = Unused /\ reader = Unused
SplitsUnused ==
    input = Unused /\ engines = Unused /\ report = Unused /\ outcome = Unused
ModelUnused ==
    edits = Unused /\ RegistryUnused /\ LabUnused /\ PinsUnused /\ PagesUnused /\ SplitsUnused

ModelInit ==
    \/ /\ part = "registry" /\ Registry!Init
       /\ edits = Unused /\ LabUnused /\ PinsUnused /\ PagesUnused /\ SplitsUnused
    \/ /\ part = "lab" /\ Lab!Init
       /\ edits = Unused /\ RegistryUnused /\ PinsUnused /\ PagesUnused /\ SplitsUnused
    \/ /\ part = "pinned" /\ Pins!Init
       /\ RegistryUnused /\ LabUnused /\ PagesUnused /\ SplitsUnused
    \/ /\ part = "pages" /\ Pages!Init
       /\ RegistryUnused /\ LabUnused /\ PinsUnused /\ SplitsUnused
    \/ /\ part = "splits" /\ Splits!Init
       /\ edits = Unused /\ RegistryUnused /\ LabUnused /\ PinsUnused /\ PagesUnused

RegistryNext ==
    /\ part = "registry" /\ Registry!Next
    /\ UNCHANGED << part, edits, LabVars, PinVars, PageVars, SplitVars >>
LabNext ==
    /\ part = "lab" /\ Lab!Next
    /\ UNCHANGED << part, edits, RegistryVars, PinVars, PageVars, SplitVars >>
PinnedNext ==
    /\ part = "pinned" /\ Pins!Next
    /\ UNCHANGED << part, RegistryVars, LabVars, PageVars, SplitVars >>
PagesNext ==
    /\ part = "pages" /\ Pages!Next
    /\ UNCHANGED << part, RegistryVars, LabVars, PinVars, SplitVars >>
SplitsNext ==
    /\ part = "splits" /\ Splits!Next
    /\ UNCHANGED << part, edits, RegistryVars, LabVars, PinVars, PageVars >>

ModelNext == RegistryNext \/ LabNext \/ PinnedNext \/ PagesNext \/ SplitsNext

ModelSpec == ModelInit /\ [][ModelNext]_ModelVars

-----------------------------------------------------------------------------
\* An activation replaces the version its caller knew to be active, and one version stays
\* active unless a call flushed what another had changed since (ModelRegistry).
ActivationIsOptimistic == [][part = "registry" => Registry!ActivationStep]_ModelVars

\* A published bundle is what its experiment selected and evaluated (ModelLab), and what
\* evaluates a model had no part in fitting or selecting it (HeldOut).
BundleIsEvaluated ==
    /\ part = "lab" => Lab!BundleIsEvaluated
    /\ part = "splits" => Splits!HeldOutStaysOut

\* What a job produces is made with the artifacts of its snapshot (PinnedArtifacts).
RunsPinned == part = "pinned" => Pins!RunsPinned

\* The status pages name the models the latest completed job was pinned to
\* (PinnedArtifacts), the evaluation pages what that job's policy was made from, but for
\* files touched between hashing and reading (EvaluationEvidence).
EffectiveIsPinned ==
    /\ part = "pinned" => Pins!EffectiveIsPinned
    /\ part = "pages" => Pages!EvidenceIsVerified
=============================================================================
