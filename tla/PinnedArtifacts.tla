--------------------------- MODULE PinnedArtifacts --------------------------
(***************************************************************************)
(* Which artifacts a runtime job is pinned to, and which ones creation,    *)
(* workers, recovery and the status pages find for it, while an operator   *)
(* changes the configuration and prepares demo environments.               *)
(*                                                                         *)
(* An environment is what one settings object leads to: the runtime policy *)
(* (its bytes are its checksum), the bundles its versions name (supervised *)
(* and anomaly model, fusion policy, explanation), the risk policy and the *)
(* correlation policy.  A process reads its settings once; policy files    *)
(* are read when they are needed, one after another, and may change in     *)
(* between.  Identities are pairs of an origin and a number; equal         *)
(* versions do not mean equal bundles, since every demo environment uses   *)
(* the same version names.  How a job moves between attempts is            *)
(* RuntimeJobs.                                                            *)
(***************************************************************************)
EXTENDS Naturals, Sequences, SequencesExt

CONSTANTS
    Jobs,           \* one per telemetry source
    Processes,      \* of the API, the workers and the command line
    DemoVersions,   \* values of demo_operation_version, numbers from 1 on
    Edits           \* bound on the changes of the configuration

Absent == [present |-> FALSE]
NoJob == [status |-> "none"]
Unavailable == << "unavailable", 0 >>
Idle == [pc |-> "idle"]

VARIABLES
    configured,     \* the environment the base settings lead to
    flows,          \* the flow settings of the configuration file
    operation,      \* its demo_operation_version
    demo,           \* environments prepared under the demo root
    unreadable,     \* bundles, and sources of jobs, damaged on disk
    process,        \* the settings each process started with, and its call
    job,            \* status, snapshot, and what it was run with (history)
    created,        \* jobs in order of creation
    latest,         \* jobs in the order in which they completed
    edits

vars == << configured, flows, operation, demo, unreadable, process, job, created, latest, edits >>

Artifacts == {"runtime_policy", "bundles", "risk_policy", "correlation_policy"}

TypeOK ==
    /\ operation \in DemoVersions /\ DOMAIN demo = DemoVersions
    /\ \A p \in Processes :
        /\ process[p].operation \in DemoVersions
        /\ process[p].call # Idle =>
            /\ process[p].call.pc \in
                {"bundles", "risk_policy", "correlation_policy", "verify", "running"}
            /\ process[p].call.purpose \in {"create", "recover", "run"}
            /\ process[p].call.job \in Jobs /\ process[p].call.root \in {0} \union DemoVersions
            /\ DOMAIN process[p].call.loaded = Artifacts
    /\ \A j \in Jobs : job[j] # NoJob =>
        /\ job[j].status \in {"queued", "running", "recovery_pending", "failed", "completed"}
        /\ DOMAIN job[j].snapshot = Artifacts \union {"flows"}
    /\ ToSet(created) = {j \in Jobs : job[j] # NoJob}
    /\ ToSet(latest) \subseteq ToSet(created)
    /\ edits \in 0..Edits

Origin(n) == [f \in Artifacts |-> << "configured", n >>]

Started(operates, flow_settings) ==
    [operation |-> operates, flows |-> flow_settings, call |-> Idle]

Init ==
    /\ configured = Origin(0) /\ flows = 0
    /\ operation = CHOOSE d \in DemoVersions : \A x \in DemoVersions : d <= x
    /\ demo = [d \in DemoVersions |-> Absent]
    /\ unreadable = {}
    /\ process = [p \in Processes |-> Started(operation, flows)]
    /\ job = [j \in Jobs |-> NoJob]
    /\ created = << >> /\ latest = << >> /\ edits = 0

-----------------------------------------------------------------------------
(* Demo environments. *)

Prepared == {d \in DemoVersions : demo[d] # Absent}

\* _build and _write_policies: bundles of their own, a risk policy that names
\* them, and policies derived from those of the base configuration.
DemoEnvironment(d) ==
    [f \in Artifacts |->
        << "demo", IF f \in {"bundles", "risk_policy"} THEN d ELSE configured[f][2] >>]

Readable(d) == d \in Prepared /\ demo[d].bundles \notin unreadable

\* read_for_fusion_policy: the one prepared environment with this fusion policy.
HistoricalEnvironments(snapshot) == {d \in Prepared : demo[d].bundles = snapshot.bundles}

\* What settings lead to: those of the configuration, or of a demo environment.
Env(root) == IF root = 0 THEN configured ELSE demo[root]

\* prepare() builds what is missing and verifies what exists.
PrepareDemo(p) ==
    LET d == process[p].operation IN
    /\ process[p].call = Idle
    /\ d \in Prepared => Readable(d)
    /\ demo' = [demo EXCEPT ![d] = IF @ = Absent THEN DemoEnvironment(d) ELSE @]
    /\ UNCHANGED << configured, flows, operation, unreadable, process, job, created, latest, edits >>

-----------------------------------------------------------------------------
(* Preflight.  A verifier has the settings of its process and the runtime   *)
(* policy it was given, which names the versions of the bundles; the policy *)
(* files of its environment are read when their turn comes.                 *)

Calling(p, k) == process' = [process EXCEPT ![p].call = k]

\* The environment is resolved and its runtime policy read.
Resolve(p, purpose, j, root) ==
    Calling(p, [pc |-> "bundles", purpose |-> purpose, job |-> j, root |-> root,
                loaded |-> [f \in Artifacts |->
                    IF f \in {"runtime_policy", "bundles"} THEN Env(root)[f] ELSE Unavailable]])

Unmoved == UNCHANGED << configured, flows, operation, demo, unreadable, edits >>

\* The bundles align with the risk policy: fusion names both models, the risk
\* policy the fusion checksum, the explanation all of them.
AlignedIdentities(loaded) == loaded.risk_policy = loaded.bundles

FlowChecksum_File(p) == flows
FlowChecksum(p) == process[p].flows

Snapshot(loaded, flow_settings) ==
    [f \in Artifacts \union {"flows"} |-> IF f = "flows" THEN flow_settings ELSE loaded[f]]

\* A verification that fails ends a run for good and refuses any other call.
Reject(p) ==
    LET k == process[p].call IN
    /\ Calling(p, Idle)
    /\ job' = IF k.purpose = "run" THEN [job EXCEPT ![k.job].status = "failed"] ELSE job
    /\ UNCHANGED << created, latest >> /\ Unmoved

\* The capture is hashed and every bundle verified against its own inventory.
LoadBundles(p) ==
    LET k == process[p].call IN
    /\ k.pc = "bundles"
    /\ IF k.job \notin unreadable /\ k.loaded.bundles \notin unreadable
       THEN /\ Calling(p, [k EXCEPT !.pc = "risk_policy"])
            /\ UNCHANGED << job, created, latest >> /\ Unmoved
       ELSE Reject(p)

LoadPolicy(p, policy, next) ==
    LET k == process[p].call IN
    /\ k.pc = policy
    /\ Calling(p, [k EXCEPT !.pc = next, !.loaded[policy] = Env(k.root)[policy]])
    /\ UNCHANGED << job, created, latest >> /\ Unmoved

MatchesPinned_Unchecked(p) == AlignedIdentities(process[p].call.loaded)
MatchesPinned(p) ==
    LET k == process[p].call IN
    /\ AlignedIdentities(k.loaded)
    /\ k.purpose \in {"recover", "run"} =>
        Snapshot(k.loaded, FlowChecksum(p)) = job[k.job].snapshot

-----------------------------------------------------------------------------
(* Replay jobs. *)

\* create_replay and the demo: the prepared environment is preferred.
CreateReplay(p, j) ==
    LET d == process[p].operation IN
    /\ process[p].call = Idle /\ job[j] = NoJob
    /\ Resolve(p, "create", j, IF d \in Prepared THEN d ELSE 0)
    /\ UNCHANGED << job, created, latest >> /\ Unmoved

\* One job for each source, also when two calls verified it.
Add(p) ==
    LET k == process[p].call IN
    /\ k.pc = "verify" /\ k.purpose = "create"
    /\ IF MatchesPinned(p) /\ job[k.job] = NoJob
       THEN /\ job' = [job EXCEPT ![k.job] =
                   [status |-> "queued", snapshot |-> Snapshot(k.loaded, FlowChecksum(p)),
                    ran_with |-> {}]]
            /\ created' = Append(created, k.job)
            /\ Calling(p, Idle) /\ UNCHANGED latest /\ Unmoved
       ELSE Reject(p)

\* resolve_job_execution_environment of a worker with settings of its own.
ExecutionRoot(own, snapshot) ==
    IF Env(own).runtime_policy = snapshot.runtime_policy THEN own
    ELSE LET historical == {d \in HistoricalEnvironments(snapshot) :
                               demo[d].runtime_policy = snapshot.runtime_policy}
         IN  IF historical = {} THEN own ELSE CHOOSE d \in historical : TRUE

\* run_once claims the oldest queued job.  A worker has the base settings; the one a demo
\* starts has those of the environment it prepared, and may find another job first.
QueuedAt == {i \in DOMAIN created : job[created[i]].status = "queued"}
Oldest == created[CHOOSE i \in QueuedAt : \A k \in QueuedAt : i <= k]
OwnRoots(p) == {0} \union {d \in {process[p].operation} : Readable(d)}

ClaimJob(p) ==
    /\ process[p].call = Idle /\ QueuedAt # {}
    /\ job' = [job EXCEPT ![Oldest].status = "running"]
    /\ \E own \in OwnRoots(p) :
        Resolve(p, "run", Oldest, ExecutionRoot(own, job[Oldest].snapshot))
    /\ UNCHANGED << created, latest >> /\ Unmoved

StartRun(p) ==
    LET k == process[p].call IN
    /\ k.pc = "verify" /\ k.purpose = "run"
    /\ IF MatchesPinned(p)
       THEN /\ Calling(p, [k EXCEPT !.pc = "running"])
            /\ UNCHANGED << job, created, latest >> /\ Unmoved
       ELSE Reject(p)

\* What packets, scores, alerts and groups are made with: what preflight loaded and the
\* settings of the process.
Used_Current(p) ==
    [Snapshot(process[p].call.loaded, process[p].flows)
        EXCEPT !.correlation_policy = Env(process[p].call.root).correlation_policy]
Used(p) == Snapshot(process[p].call.loaded, process[p].flows)

\* Batches, and correlations between them, any number of them.
Replay(p) ==
    LET k == process[p].call IN
    /\ k.pc = "running"
    /\ job' = [job EXCEPT ![k.job].ran_with = @ \union {Used(p)}]
    /\ UNCHANGED << process, created, latest >> /\ Unmoved

\* The final correlation and completion.
CompleteRun(p) ==
    LET k == process[p].call IN
    /\ k.pc = "running"
    /\ job' = [job EXCEPT ![k.job].ran_with = @ \union {Used(p)}, ![k.job].status = "completed"]
    /\ latest' = Append(latest, k.job)
    /\ Calling(p, Idle) /\ UNCHANGED created /\ Unmoved

\* The run fails for good, or leaves its job to be recovered.
EndRun(p) ==
    LET k == process[p].call IN
    /\ k.pc = "running"
    /\ \E s \in {"failed", "recovery_pending"} : job' = [job EXCEPT ![k.job].status = s]
    /\ Calling(p, Idle) /\ UNCHANGED << created, latest >> /\ Unmoved

\* recover() verifies the snapshot against the base settings.
RecoveryRoot == 0
Recover(p, j) ==
    /\ process[p].call = Idle /\ job[j].status = "recovery_pending"
    /\ Resolve(p, "recover", j, RecoveryRoot)
    /\ UNCHANGED << job, created, latest >> /\ Unmoved

Requeue(p) ==
    LET k == process[p].call IN
    /\ k.pc = "verify" /\ k.purpose = "recover"
    /\ IF MatchesPinned(p) /\ job[k.job].status = "recovery_pending"
       THEN /\ job' = [job EXCEPT ![k.job].status = "queued"]
            /\ Calling(p, Idle) /\ UNCHANGED << created, latest >> /\ Unmoved
       ELSE Reject(p)

\* A process ends, at any point of its call, and another one starts with the settings of
\* now.  The job it ran is left to be recovered, once its lease is over (RuntimeJobs).
Restart(p) ==
    LET k == process[p].call IN
    /\ process' = [process EXCEPT ![p] = Started(operation, flows)]
    /\ process' # process
    /\ job' = IF k # Idle /\ k.purpose = "run"
              THEN [job EXCEPT ![k.job].status = "recovery_pending"] ELSE job
    /\ UNCHANGED << created, latest >> /\ Unmoved

-----------------------------------------------------------------------------
(* What the status pages report. *)

LatestCompleted == IF latest = << >> THEN NoJob ELSE job[Last(latest)]

\* Bundle versions: the base root has one per generation, demo roots the same
\* version each.
VersionOf(bundle) == IF bundle[1] = "demo" THEN 0 ELSE bundle[2]
BaseBundle(v) == << "configured", v >>

\* _candidate_settings, _effective_supervised, _effective_anomaly: the first
\* readable bundle of the version with the pinned id and checksum, the base root
\* before those of the demo environments.
Candidates(snapshot) ==
    {BaseBundle(VersionOf(snapshot.bundles))}
        \union {demo[d].bundles : d \in HistoricalEnvironments(snapshot)}
Identical_ByVersion(bundle, snapshot) == VersionOf(bundle) = VersionOf(snapshot.bundles)
Identical(bundle, snapshot) == bundle = snapshot.bundles
EffectiveModel(snapshot) ==
    LET found == {b \in Candidates(snapshot) : b \notin unreadable /\ Identical(b, snapshot)}
        base == BaseBundle(VersionOf(snapshot.bundles))
    IN  IF found = {} THEN Unavailable ELSE IF base \in found THEN base ELSE CHOOSE b \in found : TRUE

\* _runtime_importance: the environment of the job, then the pinned explanation.
Importance(snapshot) ==
    LET env == Env(ExecutionRoot(0, snapshot))
    IN  IF env.bundles \notin unreadable /\ env.bundles = snapshot.bundles
        THEN env.bundles ELSE Unavailable

-----------------------------------------------------------------------------
(* The operator and the disk. *)

\* New bundles with the policies that name them, or one policy on its own.
Reconfigure(fields) ==
    /\ edits < Edits /\ edits' = edits + 1
    /\ configured' = [f \in Artifacts |->
                         IF f \in fields THEN << "configured", edits' >> ELSE configured[f]]
    /\ flows' = IF "flows" \in fields THEN edits' ELSE flows
    /\ UNCHANGED << operation, demo, unreadable, process, job, created, latest >>

UpgradeDemo ==
    /\ \E d \in DemoVersions : d > operation /\ operation' = d
    /\ UNCHANGED << configured, flows, demo, unreadable, process, job, created, latest, edits >>

Damage ==
    /\ edits < Edits /\ edits' = edits + 1
    /\ \E x \in Jobs \union {configured.bundles} \union {demo[d].bundles : d \in Prepared} :
        unreadable' = unreadable \union {x}
    /\ UNCHANGED << configured, flows, operation, demo, process, job, created, latest >>

Next ==
    \/ \E p \in Processes :
        \/ PrepareDemo(p) \/ ClaimJob(p) \/ \E j \in Jobs : CreateReplay(p, j) \/ Recover(p, j)
        \/ LoadBundles(p)
        \/ LoadPolicy(p, "risk_policy", "correlation_policy")
        \/ LoadPolicy(p, "correlation_policy", "verify")
        \/ Add(p) \/ StartRun(p) \/ Requeue(p)
        \/ Replay(p) \/ CompleteRun(p) \/ EndRun(p) \/ Restart(p)
    \/ UpgradeDemo \/ Damage
    \/ \E fields \in {Artifacts, {"risk_policy"}, {"correlation_policy"}, {"flows"}} :
           Reconfigure(fields)

Spec == Init /\ [][Next]_vars

-----------------------------------------------------------------------------
\* Whatever changes between creation, attempts and recovery, and in the middle of a
\* preflight or a run, and whichever process runs it with the settings it started with:
\* everything a job produces is made with the artifacts of its snapshot, and these belong
\* together, although they are read one after another.
RunsPinned ==
    \A j \in Jobs : job[j] # NoJob =>
        /\ job[j].ran_with \subseteq {job[j].snapshot}
        /\ AlignedIdentities(job[j].snapshot)

\* The status pages name the pinned models of the latest completed job as long
\* as they can be read, and never other ones, equal in version or not.
EffectiveIsPinned ==
    LatestCompleted # NoJob =>
        LET s == LatestCompleted.snapshot IN
        /\ EffectiveModel(s) = IF s.bundles \in unreadable THEN Unavailable ELSE s.bundles
        /\ Importance(s) \in {s.bundles, Unavailable}

\* docs/runtime_recovery.md: recovery queues the same pinned snapshot.  A job
\* pinned to a prepared demo environment that is still as it was cannot be
\* recovered, since recover() only looks at the base settings.
Intact(j, env) ==
    /\ j \notin unreadable /\ env.bundles \notin unreadable
    /\ Snapshot(env, flows) = job[j].snapshot
RecoveryFindsPinned ==
    \A j \in Jobs :
        /\ job[j].status = "recovery_pending"
        /\ \E d \in Prepared : Intact(j, demo[d])
        => Intact(j, Env(RecoveryRoot))
=============================================================================
