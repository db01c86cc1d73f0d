--------------------------- MODULE RuntimeOutput ---------------------------
(***************************************************************************)
(* What one replayed capture leaves in the database: flows, detections,    *)
(* alerts, the output ledger, groups and hypotheses, and the durable       *)
(* counters of every attempt.                                              *)
(*                                                                         *)
(* A worker reads the capture from its first packet on every attempt.      *)
(* Flows that close are kept pending; a full batch is one transaction; so  *)
(* is each correlation.  A worker may be interrupted, crash or hit a       *)
(* database error between and inside transactions, and an operator may     *)
(* recover the job.  Meanwhile analysts give verdicts, score stored flows, *)
(* correlate and generate hypotheses.                                      *)
(*                                                                         *)
(* Who owns the job is RuntimeJobs' matter: here a job has one worker, and *)
(* a crash together with the reconciliation of its lease is one step.      *)
(* The flow aggregator is deterministic (FlowAggregation): flow f closes   *)
(* with packet ClosedBy[f], or with the flush after the last packet.       *)
(* Flows are numbered; an alert has the number of its flow and detection.  *)
(* A checksum stands for what it is computed from.                         *)
(*                                                                         *)
(* An operator Op_Variant is a faulty form of Op that no action uses.      *)
(***************************************************************************)
EXTENDS Correlation, Sequences

CONSTANTS
    Flows,             \* flows the capture closes
    Packets,           \* packets of the capture
    ClosedBy,          \* the packet each flow closes with; Packets + 1 is the flush
    BatchSize,         \* persistence_batch_size
    CorrelationBatch,  \* correlation_alert_batch_size
    MaximumAttempts,   \* maximum_attempts
    Verdicts,          \* verdicts an analyst may give
    ExcludedVerdicts,  \* excluded_verdicts
    Gated,             \* groups that pass the hypothesis gate
    MaxVerdicts,       \* bound: alerts given a verdict, and verdicts of each
    MaxScored          \* bound: flows scored outside of the job

ASSUME CaptureAssumption ==
    /\ IsFiniteSet(Flows)
    /\ Alerts \subseteq Flows
    /\ Packets \in Nat
    /\ ClosedBy \in [Flows -> 1..(Packets + 1)]
    /\ Gated \subseteq GroupId
ASSUME RunAssumption ==
    /\ BatchSize \in Nat \ {0}
    /\ CorrelationBatch \in Nat \ {0}
    /\ MaximumAttempts \in Nat \ {0}
    /\ MaxVerdicts \in Nat
    /\ MaxScored \in Nat
    /\ ExcludedVerdicts \subseteq Verdicts
    /\ Verdicts \intersect {"unreviewed", "none", "missing"} = {}

VARIABLES
    \* the job and its attempts
    status,            \* status of the job, latest_error_retryable as part of it
    attempts,          \* durable counters of each attempt, the current one last
    \* the evidence
    flows,             \* stored flows
    detections,        \* flows with a stored detection
    alert,             \* the stored alert of a flow, or NoAlert
    ledger,            \* output_checksum of a flow's ledger entry, or NoEntry
    groups,            \* stored groups with the verdicts in their evidence
    hypotheses,        \* groups with a hypothesis
    \* the worker
    pc,                \* what it does next
    position,          \* packets read
    pending,           \* closed flows not yet persisted
    correlated,        \* _last_correlation_alert_count
    observed,          \* _observed_group_ids, _observed_hypothesis_ids
    \* history
    processed,         \* flows in the committed batches of the current attempt
    foreign,           \* what others than the replay stored
    refusal            \* why the last transaction was refused, or "none"

job == <<status, attempts>>
evidence == <<flows, detections, alert, ledger, groups, hypotheses>>
worker == <<pc, position, pending, correlated, observed>>
history == <<processed, foreign, refusal>>
vars == <<job, evidence, worker, history>>

Status ==
    {"queued", "running", "completed", "failed", "failed_retryable",
     "recovery_pending"}

Output == {"flows", "detections", "alerts", "groups", "hypotheses"}

Counters == [Output -> [created : Nat, reused : Nat]]

NoCounters == [o \in Output |-> [created |-> 0, reused |-> 0]]

Alert == [verdict : Verdicts \union {"unreviewed"}, updates : Nat]

NoAlert == [verdict |-> "none", updates |-> 0]

NewAlert == [verdict |-> "unreviewed", updates |-> 0]

NoEntry == [verdict |-> "missing", updates |-> 0]

Snapshot(g) == [a \in g.alerts |-> alert[a].verdict]

TypeOK ==
    /\ status \in Status
    /\ attempts \in Seq(Counters)
    /\ flows \subseteq Flows
    /\ detections \subseteq Flows
    /\ alert \in [Flows -> Alert \union {NoAlert}]
    /\ ledger \in [Flows -> Alert \union {NoAlert, NoEntry}]
    /\ \A r \in groups : r.id \in GroupId
    /\ hypotheses \subseteq GroupId
    /\ pc \in {"idle", "read", "persist", "correlate", "finish"}
    /\ position \in 0..(Packets + 1)
    /\ pending \subseteq Flows
    /\ correlated \in Nat
    /\ observed \in [groups : SUBSET GroupId, hypotheses : SUBSET GroupId]
    /\ processed \subseteq Flows
    /\ foreign \in [flows : SUBSET Flows, detections : SUBSET Flows,
                    groups : SUBSET GroupId, hypotheses : SUBSET GroupId]
    /\ refusal \in {"none", "ledger_conflict", "foreign_detection", "group_conflict",
                    "input", "database"}

-----------------------------------------------------------------------------
Attempt == Len(attempts)

Count(credit) ==
    attempts' = [attempts EXCEPT ![Attempt] =
        [o \in Output |-> [created |-> @[o].created + credit[o].created,
                           reused  |-> @[o].reused + credit[o].reused]]]

Credit(new, old) == [created |-> Cardinality(new), reused |-> Cardinality(old)]

Nothing == [created |-> 0, reused |-> 0]

Processed(o) ==
    attempts[Attempt][o].created + attempts[Attempt][o].reused

\* The worker's memory is gone.
StopWorker ==
    /\ pc' = "idle"
    /\ position' = 0
    /\ pending' = {}
    /\ correlated' = 0
    /\ observed' = [groups |-> {}, hypotheses |-> {}]

Fail(reason) ==
    /\ status' = IF reason \in {"ledger_conflict", "foreign_detection", "database"}
                 THEN "failed_retryable" ELSE "failed"
    /\ refusal' = reason
    /\ StopWorker
    /\ UNCHANGED <<attempts, evidence, processed, foreign>>

Claim ==
    /\ status = "queued"
    /\ status' = "running"
    /\ attempts' = Append(attempts, NoCounters)
    /\ pc' = "read"
    /\ processed' = {}
    /\ UNCHANGED <<evidence, position, pending, correlated, observed, foreign, refusal>>

-----------------------------------------------------------------------------
(***************************************************************************)
(* Reading the capture.                                                    *)
(***************************************************************************)
Closing(p) == {f \in Flows : ClosedBy[f] = p}

AfterRead_BelowBatch ==            \* the rest below a full batch is not persisted
    IF Cardinality(pending') >= BatchSize THEN "persist"
    ELSE IF position' <= Packets THEN "read"
    ELSE "finish"

AfterRead ==
    IF Cardinality(pending') >= BatchSize THEN "persist"
    ELSE IF position' <= Packets THEN "read"
    ELSE IF pending' # {} THEN "persist" ELSE "finish"

\* A packet, or with position = Packets the flush at the end of the capture.
Read ==
    /\ pc = "read"
    /\ position' = position + 1
    /\ pending' = pending \union Closing(position + 1)
    /\ pc' = AfterRead
    /\ UNCHANGED <<job, evidence, correlated, observed, history>>

-----------------------------------------------------------------------------
(***************************************************************************)
(* A batch: one transaction for its flows.                                 *)
(***************************************************************************)
OutputChecksum_Attempt(f) ==       \* the checksum takes in what a recovery changes
    [alert[f] EXCEPT !.updates = @ + Attempt]

OutputChecksum(f) == alert[f]

Ledgered == {f \in Flows : ledger[f] # NoEntry}

LedgerConflict ==
    \E f \in pending \intersect Ledgered :
        f \notin flows \/ f \notin detections \/ OutputChecksum(f) # ledger[f]

ForeignDetection_Ignored == FALSE  \* a detection without ledger entry goes unnoticed

ForeignDetection == \E f \in pending \ Ledgered : f \in detections

EvaluatedAlert(f) == IF f \in Alerts THEN NewAlert ELSE NoAlert

Fresh_All == pending               \* a recovery evaluates its flows once more

Fresh == pending \ Ledgered

Store(fresh) ==
    /\ flows' = flows \union fresh
    /\ detections' = detections \union fresh
    /\ alert' = [f \in Flows |-> IF f \in fresh THEN EvaluatedAlert(f) ELSE alert[f]]

BatchCredit(fresh) ==
    [flows      |-> Credit(fresh \ flows, pending \ (fresh \ flows)),
     detections |-> Credit(fresh, pending \ fresh),
     alerts     |-> Credit(fresh \intersect Alerts,
                           {f \in pending \ fresh : alert[f] # NoAlert}),
     groups     |-> Nothing,
     hypotheses |-> Nothing]

CorrelationDue ==
    Processed("alerts")' - correlated >= CorrelationBatch

AfterBatch_Read == "read"          \* the batch after the flush goes back to reading

AfterBatch == IF position <= Packets THEN "read" ELSE "finish"

PersistBatch ==
    /\ pc = "persist"
    /\ ~LedgerConflict
    /\ ~ForeignDetection
    /\ Store(Fresh)
    /\ Count(BatchCredit(Fresh))
    /\ ledger' = [f \in Flows |-> IF f \in Fresh THEN OutputChecksum(f)' ELSE ledger[f]]
    /\ pending' = {}
    /\ processed' = processed \union pending
    /\ pc' = IF CorrelationDue THEN "correlate" ELSE AfterBatch
    /\ UNCHANGED <<status, groups, hypotheses, position, correlated, observed,
                   foreign, refusal>>

RefuseBatch ==
    /\ pc = "persist"
    /\ \/ LedgerConflict /\ Fail("ledger_conflict")
       \/ ForeignDetection /\ Fail("foreign_detection")

-----------------------------------------------------------------------------
(***************************************************************************)
(* Correlation and hypotheses: one transaction, in which the last one also *)
(* completes the job.                                                      *)
(***************************************************************************)
JobAlerts == {f \in Alerts : ledger[f] \notin {NoEntry, NoAlert}}

Eligible(S) == {f \in S : alert[f].verdict \notin ExcludedVerdicts}

\* The limit of a run counts excluded alerts too.
Acceptable(S) == Cardinality(S) <= MaximumAlertsPerRun /\ Eligible(S) \in AcceptableRuns

Stored == {r.id : r \in groups}

Conflicting(ids) == \E r \in groups : r.id \in ids /\ r.snapshot # Snapshot(r.id)

StoreGroups(ids) ==
    groups' = groups \union {[id |-> g, snapshot |-> Snapshot(g)] : g \in ids \ Stored}

Generated(ids) == {g \in ids : g \in hypotheses \/ g \in Gated}

DownstreamCredit_Unseen(ids) ==    \* groups are counted at every correlation
    LET before == {g \in Stored : g.alerts \intersect JobAlerts # {}}
    IN  [NoCounters EXCEPT
           !["groups"]     = Credit(ids \ before, ids \intersect before),
           !["hypotheses"] = Credit(Generated(ids) \ (hypotheses \intersect before),
                                    Generated(ids) \intersect hypotheses \intersect before)]

DownstreamCredit(ids) ==
    LET before         == {g \in Stored : g.alerts \intersect JobAlerts # {}}
        new_groups     == ids \ observed.groups
        new_hypotheses == Generated(ids) \ observed.hypotheses
    IN  [NoCounters EXCEPT
           !["groups"]     = Credit(new_groups \ before, new_groups \intersect before),
           !["hypotheses"] = Credit(new_hypotheses \ (hypotheses \intersect before),
                                    new_hypotheses \intersect hypotheses \intersect before)]

\* Correlation of the job's own alerts.
RunDownstream(ids) ==
    /\ Acceptable(JobAlerts)
    /\ ~Conflicting(ids)
    /\ StoreGroups(ids)
    /\ hypotheses' = hypotheses \union Generated(ids)
    /\ Count(DownstreamCredit(ids))
    /\ UNCHANGED <<flows, detections, alert, ledger, history>>

JobGroups == CorrelatedGroups[Eligible(JobAlerts)]

Correlate ==
    /\ pc = "correlate"
    /\ RunDownstream(JobGroups)
    /\ pc' = AfterBatch
    /\ correlated' = Processed("alerts")
    /\ observed' = [groups     |-> observed.groups \union JobGroups,
                    hypotheses |-> observed.hypotheses \union Generated(JobGroups)]
    /\ UNCHANGED <<status, position, pending>>

Complete ==
    /\ pc = "finish"
    /\ RunDownstream(JobGroups)
    /\ status' = "completed"
    /\ StopWorker

RefuseDownstream ==
    /\ pc \in {"correlate", "finish"}
    /\ \/ ~Acceptable(JobAlerts) /\ Fail("input")
       \/ /\ Acceptable(JobAlerts)
          /\ Conflicting(JobGroups)
          /\ Fail("group_conflict")

-----------------------------------------------------------------------------
(***************************************************************************)
(* What goes wrong, and what operators and analysts do.                    *)
(***************************************************************************)
\* The transaction rolls back.
DatabaseError == pc \in {"persist", "correlate", "finish"} /\ Fail("database")

\* A shutdown, or a crash found by the reconciliation of the lease.
Interrupt ==
    /\ pc # "idle"
    /\ status' = "recovery_pending"
    /\ StopWorker
    /\ UNCHANGED <<attempts, evidence, history>>

Recover ==
    /\ status \in {"recovery_pending", "failed_retryable"}
    /\ Attempt < MaximumAttempts
    /\ status' = "queued"
    /\ UNCHANGED <<attempts, evidence, worker, history>>

VerdictsGiven == {f \in Flows : alert[f].updates > 0}

GiveVerdict(f, verdict) ==
    /\ alert[f] # NoAlert
    /\ alert[f].verdict # verdict
    /\ alert[f].updates < MaxVerdicts
    /\ Cardinality(VerdictsGiven \union {f}) <= MaxVerdicts
    /\ alert' = [alert EXCEPT ![f] = [verdict |-> verdict, updates |-> @.updates + 1]]
    /\ UNCHANGED <<job, flows, detections, ledger, groups, hypotheses, worker, history>>

\* aegishunt detection evaluate: a stored flow is scored outside of any job.
ScoreFlow(f) ==
    /\ f \in flows \ detections
    /\ Cardinality(foreign.detections) < MaxScored
    /\ Store({f})
    /\ foreign' = [foreign EXCEPT !.detections = @ \union {f}]
    /\ UNCHANGED <<job, ledger, groups, hypotheses, worker, processed, refusal>>

\* aegishunt hunt correlate: all alerts, whoever stored them.
CorrelateAll ==
    LET all == {f \in Flows : alert[f] # NoAlert}
        ids == CorrelatedGroups[Eligible(all)]
    IN  /\ Acceptable(all)
        /\ ~Conflicting(ids)
        /\ ids \ Stored # {}
        /\ StoreGroups(ids)
        /\ foreign' = [foreign EXCEPT !.groups = @ \union (ids \ Stored)]
        /\ UNCHANGED <<job, flows, detections, alert, ledger, hypotheses, worker,
                       processed, refusal>>

\* aegishunt hunt generate-hypotheses: every open group.
GenerateAll ==
    /\ ~(Generated(Stored) \subseteq hypotheses)
    /\ hypotheses' = hypotheses \union Generated(Stored)
    /\ foreign' = [foreign EXCEPT !.hypotheses = @ \union (Generated(Stored) \ hypotheses)]
    /\ UNCHANGED <<job, flows, detections, alert, ledger, groups, worker,
                   processed, refusal>>

-----------------------------------------------------------------------------
Init ==
    /\ status = "queued"
    /\ attempts = << >>
    /\ flows \in {{}, Flows}       \* ingestion may have stored them already
    /\ detections = {}
    /\ alert = [f \in Flows |-> NoAlert]
    /\ ledger = [f \in Flows |-> NoEntry]
    /\ groups = {}
    /\ hypotheses = {}
    /\ pc = "idle"
    /\ position = 0
    /\ pending = {}
    /\ correlated = 0
    /\ observed = [groups |-> {}, hypotheses |-> {}]
    /\ processed = {}
    /\ foreign = [flows |-> flows, detections |-> {}, groups |-> {}, hypotheses |-> {}]
    /\ refusal = "none"

Work == Read \/ PersistBatch \/ RefuseBatch \/ Correlate \/ Complete \/ RefuseDownstream

Next ==
    \/ Claim
    \/ Work
    \/ DatabaseError
    \/ Interrupt
    \/ Recover
    \/ \E f \in Flows, verdict \in Verdicts : GiveVerdict(f, verdict)
    \/ \E f \in Flows : ScoreFlow(f)
    \/ CorrelateAll
    \/ GenerateAll

Spec == Init /\ [][Next]_vars

-----------------------------------------------------------------------------
\* The durable counters of an attempt say what its committed batches and
\* correlations covered, each flow, alert, group and hypothesis once, whether
\* it was created or found; and whatever they covered is in the ledger.
CountersTruthful ==
    Attempt > 0 =>
        /\ processed \subseteq Ledgered
        /\ Processed("flows") = Cardinality(processed)
        /\ Processed("detections") = Cardinality(processed)
        /\ Processed("alerts") = Cardinality(processed \intersect Alerts)
        /\ pc # "idle" =>
             /\ Processed("groups") = Cardinality(observed.groups)
             /\ Processed("hypotheses") = Cardinality(observed.hypotheses)

\* Rows of o that the attempts a counted as created.
Total(a, o) ==
    LET upto[n \in 0..Len(a)] == IF n = 0 THEN 0 ELSE upto[n - 1] + a[n][o].created
    IN  upto[Len(a)]

Created(o) == Total(attempts, o)

\* However often a job is interrupted, fails and is recovered, its attempts
\* together count every row the replay stored as created exactly once, and
\* none that ingestion or an analyst stored.
CreatedOnce ==
    /\ Created("flows") = Cardinality(flows \ foreign.flows)
    /\ Created("detections") = Cardinality(detections \ foreign.detections)
    /\ Created("alerts") = Cardinality((detections \ foreign.detections) \intersect Alerts)
    /\ Created("groups") = Cardinality(Stored \ foreign.groups)
    /\ Created("hypotheses") = Cardinality(hypotheses \ foreign.hypotheses)

\* An attempt never trips over what an earlier attempt of the same job left
\* behind, wherever that one stopped: evidence is refused only after an analyst
\* gave a verdict or scored a flow.
OnlyAnalystsRefuse ==
    /\ refusal \in {"ledger_conflict", "group_conflict"} => VerdictsGiven # {}
    /\ refusal = "foreign_detection" => foreign.detections # {}

\* A group is what its entities have in common within one window: enough
\* alerts, all of them with every entity of its identity, from the first start
\* to the last end no longer than the window (docs/alert_correlation.md).
GroupsBounded ==
    \A r \in groups :
        /\ Cardinality(r.id.alerts) >= MinimumAlerts
        /\ r.id.entity_keys # {}
        /\ \A a, b \in r.id.alerts :
             /\ r.id.entity_keys \subseteq EntityKeys[a]
             /\ EventEnd[b] - EventStart[a] <= CorrelationWindow

\* A job completes only when the ledger covers every flow of the capture, all
\* of them seen by the attempt that completes, and the groups and hypotheses of
\* its eligible alerts are stored.
CompletionIsWhole ==
    [][status # "completed" /\ status' = "completed" =>
         /\ processed = Flows
         /\ Ledgered' = Flows
         /\ JobGroups \subseteq Stored'
         /\ {g \in JobGroups : g \in Gated} \subseteq hypotheses']_vars

\* The replay as UninterruptedReplay sees it.
AsOne == INSTANCE UninterruptedReplay WITH
    durable <- Ledgered,
    outcome <- IF status \in {"completed", "failed"} THEN status ELSE "open"

\* Wherever its attempts stop, what a replay leaves in the ledger is at any time
\* what one that is never interrupted has committed, and when it completes it is
\* whole.
ReplaysAsOne == AsOne!Spec /\ CompletionIsWhole

\* Evidence stays: no step removes or replaces a row, and an alert changes only
\* by a further verdict. In particular no recovery undoes a verdict.
EvidenceKept ==
    [][/\ flows \subseteq flows'
       /\ detections \subseteq detections'
       /\ groups \subseteq groups'
       /\ hypotheses \subseteq hypotheses'
       /\ \A f \in Flows :
            /\ ledger[f] # NoEntry => ledger'[f] = ledger[f]
            /\ alert[f] # NoAlert =>
                 \/ alert'[f] = alert[f]
                 \/ alert'[f].updates = alert[f].updates + 1]_vars

\* Verdicts are no part of the evidence ("Verdict updates mutate only the
\* nullable verdict and timestamp", docs/architecture.md:288-289), and "exact
\* output is reused" (docs/runtime_recovery.md:26-27): no batch is refused for
\* a conflict with the ledger.
ExactOutputReused == refusal # "ledger_conflict"

=============================================================================
