------------------------------ MODULE ModelLab ------------------------------
(***************************************************************************)
(* Training, frozen-test evaluation and publication of models              *)
(* (ml/supervised, ml/anomaly and ml/fusion: service.py, artifacts.py,     *)
(* reporting.py; the data set gate of ml/supervised/data.py).              *)
(*                                                                         *)
(* An experiment is a directory that is created once and whose files are   *)
(* created exclusively.  Training writes the model and then the selection  *)
(* record; a later call evaluates the test partition for that record,      *)
(* writes the frozen report and then publishes the bundle.  Nothing but    *)
(* the files connects the calls: the configuration and the data set are    *)
(* read again each time, may be edited at any moment, and a call may fail  *)
(* or die between any two writes.                                          *)
(*                                                                         *)
(* A data set edition has files and a manifest that are published one      *)
(* after the other.  What a fit, a score or a metric computes is left to   *)
(* ModelSelection; here a model is the configuration and the edition it    *)
(* was fitted with.                                                        *)
(***************************************************************************)
EXTENDS Naturals

CONSTANTS
    Callers,        \* processes of the command line or the HTTP API
    Configs,        \* [kind, experiment, version, candidate]: what the configuration file may hold
    Editions,       \* the editions of the data set
    Approved,       \* the editions that passed their quality and leakage gates
    ShapeOf,        \* [Editions -> shape]: groups, counts and labels of the partitions
    Changes         \* the bound on edits and faults together

VARIABLES
    config,         \* the configuration file
    dataset,        \* [files, manifest]: the editions on disk
    store,          \* experiment -> its directory, or None
    bundle,         \* version -> the published bundle or policy, or None
    call,           \* caller -> what it is doing
    changes

vars == << config, dataset, store, bundle, call, changes >>

None == [absent |-> TRUE]
Kind == config.kind
OfKind == {c \in Configs : c.kind = Kind}
Experiments == {c.experiment : c \in Configs}
Versions == {c.version : c \in Configs}
Idle == [pc |-> "idle"]

Model(c, edition) == [config |-> c, edition |-> edition]

\* A selection record: the checksum of the configuration file and of the manifests,
\* and the model they are recorded for.
Selection(hashed, manifest, model) ==
    [config |-> hashed, manifest |-> manifest, model |-> model,
     status |-> IF model.config.candidate THEN "validation_qualified" ELSE "frozen"]

\* The report of the test partition: the record it was evaluated for, and the
\* configuration and manifest this call found.
Frozen(selection, hashed, manifest) ==
    [selection |-> selection, config |-> hashed, manifest |-> manifest]

EmptyStore == [model |-> None, selection |-> None, frozen |-> None, smoke |-> "none",
               reports |-> FALSE]

Init ==
    /\ config \in Configs
    /\ \E e \in Editions : dataset = [files |-> e, manifest |-> e]
    /\ store = [x \in Experiments |-> None]
    /\ bundle = [v \in Versions |-> None]
    /\ call = [c \in Callers |-> Idle]
    /\ changes = 0

At(c, pc) == call[c].pc = pc
Directory(c) == store[call[c].config.experiment]
Becomes(c, state) == call' = [call EXCEPT ![c] = state]
Continue(c, pc) == Becomes(c, [call[c] EXCEPT !.pc = pc])
Raise(c) == Becomes(c, Idle) /\ UNCHANGED << store, bundle >>
Outside == << config, dataset, changes >>

-----------------------------------------------------------------------------
\* The gate: every file has the checksum of the manifest, and the quality and
\* leakage reports passed.
GateAccepts == dataset.files = dataset.manifest /\ dataset.manifest \in Approved

\* Partitions are read after the gate and compared with its manifest by groups,
\* row counts and class counts; their checksums are not taken again.
PartitionMatches(c) == ShapeOf[dataset.files] = ShapeOf[call[c].manifest]

-----------------------------------------------------------------------------
\* train: the experiment must be new and the gate must accept the data set.
TrainBegin(c) ==
    /\ At(c, "idle") /\ Kind # "fusion"
    /\ store[config.experiment] = None
    /\ config.candidate => bundle[config.version] = None
    /\ GateAccepts
    /\ Becomes(c, [pc |-> "read", config |-> config, manifest |-> dataset.manifest])
    /\ UNCHANGED << store, bundle, Outside >>

\* load_training_validation, and the fits on what it returned.
TrainFit(c) ==
    /\ At(c, "read")
    /\ \/ /\ PartitionMatches(c)
          /\ Becomes(c, [pc |-> "select", config |-> call[c].config,
                         manifest |-> call[c].manifest,
                         model |-> Model(call[c].config, dataset.files)])
          /\ UNCHANGED << store, bundle >>
       \/ ~PartitionMatches(c) /\ Raise(c)
    /\ UNCHANGED Outside

\* The record takes the checksum of the configuration file as it is by now.
TrainSelect(c) ==
    /\ At(c, "select")
    /\ Becomes(c, [pc |-> "create", config |-> call[c].config,
                   selection |-> Selection(config, call[c].manifest, call[c].model)])
    /\ UNCHANGED << store, bundle, Outside >>

\* ExperimentStore.create.
CreateStore(c) ==
    /\ At(c, "create")
    /\ \/ /\ Directory(c) = None
          /\ store' = [store EXCEPT ![call[c].config.experiment] = EmptyStore]
          /\ Continue(c, "payload") /\ UNCHANGED bundle
       \/ Directory(c) # None /\ Raise(c)
    /\ UNCHANGED Outside

\* write_training_artifacts: the tables and selection.skops, and last the record.
WritePayload(c) ==
    /\ At(c, "payload")
    /\ store' = [store EXCEPT ![call[c].config.experiment].model = call[c].selection.model]
    /\ Continue(c, "record")
    /\ UNCHANGED << bundle, Outside >>

WriteRecord(c) ==
    /\ At(c, "record")
    /\ store' = [store EXCEPT ![call[c].config.experiment].selection = call[c].selection]
    /\ IF call[c].config.candidate THEN Continue(c, "smoke") ELSE Becomes(c, Idle)
    /\ UNCHANGED << bundle, Outside >>

-----------------------------------------------------------------------------
\* The fixed smoke sample before the candidate is saved: a failure is recorded.
CandidateSmoke(c) ==
    /\ At(c, "smoke")
    /\ \/ Continue(c, "publish") /\ UNCHANGED store
       \/ /\ store' = [store EXCEPT ![call[c].config.experiment].smoke = "failed"]
          /\ Becomes(c, Idle)
    /\ UNCHANGED << bundle, Outside >>

\* ... and after it was loaded again: a difference raises, the bundle stays.
CandidateReload(c) ==
    /\ At(c, "reload")
    /\ \/ store' = [store EXCEPT ![call[c].config.experiment].smoke = "passed"]
       \/ UNCHANGED store
    /\ Becomes(c, Idle)
    /\ UNCHANGED << bundle, Outside >>

-----------------------------------------------------------------------------
\* The configuration is the one the record was made with, by checksum.
ConfigUnchanged_Identity(s) == s.config.experiment = config.experiment
ConfigUnchanged(s) == s.config = config

\* evaluate_test: one frozen report per experiment, for an unchanged configuration.
EvaluateBegin(c) ==
    /\ At(c, "idle") /\ Kind # "fusion" /\ ~config.candidate
    /\ store[config.experiment] # None
    /\ LET s == store[config.experiment] IN
       /\ s.frozen = None
       /\ Kind = "anomaly" => bundle[config.version] = None
       /\ s.selection # None
       /\ ConfigUnchanged(s.selection)
       /\ GateAccepts
       /\ Becomes(c, [pc |-> "test", config |-> config, manifest |-> dataset.manifest,
                      selection |-> s.selection])
    /\ UNCHANGED << store, bundle, Outside >>

\* load_frozen_test_for_contract: only for a frozen record of this manifest.
TestOpens(c) ==
    /\ call[c].selection.status = "frozen"
    /\ call[c].selection.manifest = call[c].manifest
    /\ PartitionMatches(c)

ReadTest(c) ==
    /\ At(c, "test")
    /\ \/ /\ TestOpens(c)
          /\ Becomes(c, [pc |-> "frozen", config |-> call[c].config,
                         selection |-> call[c].selection,
                         frozen |-> Frozen(call[c].selection, call[c].config,
                                           call[c].manifest)])
          /\ UNCHANGED << store, bundle >>
       \/ ~TestOpens(c) /\ Raise(c)
    /\ UNCHANGED Outside

\* write_frozen_artifacts: the report is created exclusively, before anything else.
WriteFrozen(c) ==
    /\ At(c, "frozen")
    /\ \/ /\ Directory(c).frozen = None
          /\ store' = [store EXCEPT ![call[c].config.experiment].frozen = call[c].frozen]
          /\ Continue(c, "reports") /\ UNCHANGED bundle
       \/ Directory(c).frozen # None /\ Raise(c)
    /\ UNCHANGED Outside

WriteReports(c) ==
    /\ At(c, "reports")
    /\ store' = [store EXCEPT ![call[c].config.experiment].reports = TRUE]
    /\ Continue(c, "publish")
    /\ UNCHANGED << bundle, Outside >>

\* save_bundle: of the model in the directory, under a version that is free.
Published(c) ==
    [model |-> Directory(c).model, selection |-> call[c].selection,
     frozen |-> IF "frozen" \in DOMAIN call[c] THEN call[c].frozen ELSE None,
     experiment |-> call[c].config.experiment]

SaveBundle(c) ==
    /\ At(c, "publish")
    /\ \/ /\ bundle[call[c].config.version] = None
          /\ bundle' = [bundle EXCEPT ![call[c].config.version] = Published(c)]
          /\ IF call[c].config.candidate THEN Continue(c, "reload") ELSE Becomes(c, Idle)
          /\ UNCHANGED store
       \/ bundle[call[c].config.version] # None /\ Raise(c)
    /\ UNCHANGED Outside

-----------------------------------------------------------------------------
\* FusionExperimentService.evaluate: experiment and policy version must be new.
FusionBegin(c) ==
    /\ At(c, "idle") /\ Kind = "fusion"
    /\ store[config.experiment] = None /\ bundle[config.version] = None
    /\ Becomes(c, [pc |-> "fusion_create", config |-> config,
                   selection |-> Selection(config, 0, Model(config, 0))])
    /\ UNCHANGED << store, bundle, Outside >>

\* write_experiment_evidence: the selection and every comparison.
FusionEvidence(c) ==
    /\ At(c, "fusion_create")
    /\ \/ /\ Directory(c) = None
          /\ \E complete \in BOOLEAN :
                /\ store' = [store EXCEPT ![call[c].config.experiment] =
                                [EmptyStore EXCEPT !.model = call[c].selection.model,
                                    !.selection = IF complete THEN call[c].selection ELSE None]]
                /\ IF complete THEN Continue(c, "policy") ELSE Becomes(c, Idle)
          /\ UNCHANGED bundle
       \/ Directory(c) # None /\ Raise(c)
    /\ UNCHANGED Outside

\* save_policy and load_policy, then the summary of the experiment.
FusionPolicy(c) ==
    /\ At(c, "policy")
    /\ \/ /\ bundle[call[c].config.version] = None
          /\ bundle' = [bundle EXCEPT ![call[c].config.version] = Published(c)]
          /\ Continue(c, "final") /\ UNCHANGED store
       \/ bundle[call[c].config.version] # None /\ Raise(c)
    /\ UNCHANGED Outside

FusionFinal(c) ==
    /\ At(c, "final")
    /\ store' = [store EXCEPT ![call[c].config.experiment].reports = TRUE]
    /\ Becomes(c, Idle)
    /\ UNCHANGED << bundle, Outside >>

-----------------------------------------------------------------------------
Changed == changes < Changes /\ changes' = changes + 1

\* The configuration is edited by hand.
Reconfigure ==
    /\ Changed
    /\ config' \in OfKind \ {config}
    /\ UNCHANGED << dataset, store, bundle, call >>

\* datasets prepare: the files of an edition, then its reports.
PublishFiles ==
    /\ Changed
    /\ \E e \in Editions \ {dataset.files} : dataset' = [dataset EXCEPT !.files = e]
    /\ UNCHANGED << config, store, bundle, call >>

PublishManifest ==
    /\ dataset.manifest # dataset.files
    /\ dataset' = [dataset EXCEPT !.manifest = dataset.files]
    /\ UNCHANGED << config, store, bundle, call, changes >>

\* A call dies, or an error of the storage ends it: what it wrote stays.
Stop(c) ==
    /\ Changed
    /\ ~At(c, "idle")
    /\ Becomes(c, Idle)
    /\ UNCHANGED << config, dataset, store, bundle >>

Step(c) ==
    \/ TrainBegin(c) \/ TrainFit(c) \/ TrainSelect(c)
    \/ CreateStore(c) \/ WritePayload(c) \/ WriteRecord(c)
    \/ CandidateSmoke(c) \/ CandidateReload(c)
    \/ EvaluateBegin(c) \/ ReadTest(c) \/ WriteFrozen(c) \/ WriteReports(c)
    \/ SaveBundle(c)
    \/ FusionBegin(c) \/ FusionEvidence(c) \/ FusionPolicy(c) \/ FusionFinal(c)
    \/ Stop(c)

Next ==
    \/ \E c \in Callers : Step(c)
    \/ Reconfigure
    \/ PublishFiles
    \/ PublishManifest

Spec == Init /\ [][Next]_vars

-----------------------------------------------------------------------------
TypeOK ==
    /\ config \in Configs
    /\ dataset \in [files : Editions, manifest : Editions]
    /\ \A x \in Experiments : store[x] = None \/ DOMAIN store[x] = DOMAIN EmptyStore
    /\ \A c \in Callers : At(c, "idle") \/ call[c].config \in Configs
    /\ changes \in 0..Changes

\* What is published under a version is the model of its experiment, with the
\* selection that was on disk before; a validated bundle carries the one report of
\* the test partition, evaluated for that selection under the recorded
\* configuration and manifest; a candidate's test partition was never opened.
BundleIsEvaluated ==
    \A v \in Versions : bundle[v] # None =>
        LET published == bundle[v]
            s == store[published.experiment]
        IN  /\ s # None
            /\ published.model = s.model /\ published.selection = s.selection
            /\ published.selection.model = published.model
            /\ published.selection.status = "frozen" /\ Kind # "fusion" =>
                    /\ published.frozen # None /\ published.frozen = s.frozen
                    /\ published.frozen.selection = published.selection
                    /\ published.frozen.config = published.selection.config
                    /\ published.frozen.manifest = published.selection.manifest
            /\ published.selection.status = "validation_qualified" => s.frozen = None
=============================================================================
