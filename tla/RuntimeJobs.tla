---------------------------- MODULE RuntimeJobs ----------------------------
(***************************************************************************)
(* The durable replay queue: operators, worker processes and the SQLite    *)
(* tables runtime_jobs, runtime_attempts and runtime_workers, with wall    *)
(* clock leases.  Every transaction (one session.begin() block) is one     *)
(* action; RuntimeSessions drops that assumption.                          *)
(*                                                                         *)
(* A worker process runs RuntimeWorkerProcess.run_forever.  pc names the   *)
(* point its thread has reached between two transactions:                  *)
(*   off        no process                                                 *)
(*   idle       in run_forever, between two run_once                       *)
(*   preflight  a job is claimed, its snapshot is being verified           *)
(*   started    running is recorded, capture_resource_sample is next       *)
(*   loop       top of the packet loop, sleeping between packets           *)
(*   captured   a packet was taken (or the capture ended) and the flows it *)
(*              closed may fill a batch                                    *)
(*   batch      observed progress is recorded, _persist_batch is next      *)
(*   correlate  the batch is committed, _maybe_correlate is next           *)
(*   check      control.check after the packet                             *)
(*   paused     inside _wait_while_paused                                  *)
(*   final      _run_downstream(complete=True) is next                     *)
(*   sample     completed, capture_resource_sample is next                 *)
(*   failing    run_once caught an error and calls _fail                   *)
(*   interrupt  run_once caught ReplayInterrupted and calls _interrupt     *)
(*   release    the finally clause, _set_idle_or_stopped                   *)
(*   exit       run_forever is left, _set_stopped is next                  *)
(*                                                                         *)
(* Jobs are numbered in the order (created_at, job_id).                    *)
(*                                                                         *)
(* An operator Op_Variant is a faulty form of Op.  No action uses it: it   *)
(* is put in the place of Op to see that a property notices the fault.     *)
(***************************************************************************)
EXTENDS RuntimeJobRow

CONSTANTS
    JobCount,         \* bound: telemetry sources that get a job
    HeartbeatTicks,   \* heartbeat_interval_seconds, in ticks
    StaleTicks,       \* stale_after_seconds, in ticks
    MaxFaults         \* bound: crashes, signals and errors in a behaviour

Jobs == 1..JobCount

ASSUME TimingAssumption ==
    /\ JobCount \in Nat /\ MaxFaults \in Nat
    /\ HeartbeatTicks \in Nat \ {0} /\ StaleTicks \in Nat
    /\ HeartbeatTicks < LeaseTicks /\ LeaseTicks < StaleTicks

VARIABLES
    jobs,      \* runtime_jobs with their attempts
    workers,   \* runtime_workers: status, degraded reason, ticks since heartbeat_at
    proc,      \* local state of the worker processes
    stop,      \* the stop event of each process
    faults     \* faults injected so far

vars == << jobs, workers, proc, stop, faults >>

WorkerStatus ==
    {"absent", "idle", "busy", "stopping", "stopped", "failed", "degraded"}
ActiveWorker == {"idle", "busy", "stopping", "degraded"}

Point == {"off", "idle", "preflight", "started", "loop", "captured", "batch", "correlate",
          "check", "paused", "final", "sample", "failing", "interrupt",
          "release", "exit"}

\* Points at which the process is driving the attempt it claimed.
Driving == {"preflight", "started", "loop", "captured", "batch", "correlate", "check",
            "paused", "final", "failing", "interrupt"}

Process ==
    [pc      : Point,
     job     : Jobs \union {0},      \* the job of this run_once, 0 for none
     attempt : 0..MaxAttempts,       \* job.current_attempt_id as claimed
     seen    : 0..Packets,           \* observed_counters.captured_packets
     eof     : BOOLEAN,              \* flush_capture_end was called
     beat    : 0..HeartbeatTicks,    \* ticks since _last_heartbeat, saturating
     again   : BOOLEAN,              \* retryable flag of the error to record
     dying   : BOOLEAN]              \* an exception is escaping run_once

NoProcess ==
    [pc |-> "off", job |-> 0, attempt |-> 0, seen |-> 0, eof |-> FALSE,
     beat |-> 0, again |-> FALSE, dying |-> FALSE]

\* The retained row of a worker; degraded says that degraded_reason is set.
WorkerRow ==
    [status : WorkerStatus, degraded : BOOLEAN, age : 0..(StaleTicks + 1)]

FreshWorker(s) == [status |-> s, degraded |-> FALSE, age |-> 0]

TypeOK ==
    /\ jobs \in [Jobs -> RuntimeJob]
    /\ workers \in [Workers -> WorkerRow]
    /\ proc \in [Workers -> Process]
    /\ stop \in [Workers -> BOOLEAN]
    /\ faults \in 0..MaxFaults

Init ==
    /\ jobs = [j \in Jobs |-> AbsentJob]
    /\ workers = [w \in Workers |-> FreshWorker("absent")]
    /\ proc = [w \in Workers |-> NoProcess]
    /\ stop = [w \in Workers |-> FALSE]
    /\ faults = 0

-----------------------------------------------------------------------------
JobOf(w) == jobs[proc[w].job]

Goto(w, p) == proc' = [proc EXCEPT ![w].pc = p]
Write_ByWorker(w, row) ==
    jobs' = [j \in Jobs |->
               IF j = proc[w].job THEN row
               ELSE IF Owned(jobs[j], w) THEN [jobs[j] EXCEPT !.lease = row.lease]
               ELSE jobs[j]]
Write(w, row) == jobs' = [jobs EXCEPT ![proc[w].job] = row]
Upsert(w, s) == workers' = [workers EXCEPT ![w] = [@ EXCEPT !.status = s, !.age = 0]]

\* The worker row after a control transaction: a broken resource sampler marks
\* it degraded and refreshes heartbeat_at, a due heartbeat refreshes it.
Monitored_JobOnly(row, beats, broken) ==
    IF broken THEN [status |-> "degraded", degraded |-> TRUE, age |-> 0] ELSE row
Monitored(row, beats, broken) ==
    IF broken THEN [status |-> "degraded", degraded |-> TRUE, age |-> 0]
    ELSE IF beats THEN [row EXCEPT !.age = 0] ELSE row

Monitor(w, beats, broken) ==
    workers' = [workers EXCEPT ![w] = Monitored(@, beats, broken)]

\* run_once catches an error of the pipeline: _fail is called with it.
CaughtError(w, retryable) ==
    proc' = [proc EXCEPT ![w].pc = "failing", ![w].again = retryable]

\* A repository method raises RuntimeClaimError or RuntimeStateError: the
\* transaction rolls back and the error is not retryable.
Refused(w) == CaughtError(w, FALSE) /\ UNCHANGED << jobs, workers >>

Injected == faults < MaxFaults /\ faults' = faults + 1

-----------------------------------------------------------------------------
(* The operator: RuntimeJobService *)

\* create_replay: the source has no job yet and passed preflight.
CreateReplay(j) ==
    /\ CanAdd(jobs[j])
    /\ \A i \in Jobs : i < j => ~CanAdd(jobs[i])
    /\ jobs' = [jobs EXCEPT ![j] = Add(@)]
    /\ UNCHANGED << workers, proc, stop, faults >>

Pause(j) ==
    /\ CanRequestPause(jobs[j])
    /\ jobs' = [jobs EXCEPT ![j] = RequestPause(@)]
    /\ UNCHANGED << workers, proc, stop, faults >>

ResumeReplay(j) ==
    /\ CanResume(jobs[j])
    /\ jobs' = [jobs EXCEPT ![j] = Resume(@)]
    /\ UNCHANGED << workers, proc, stop, faults >>

RecoverReplay(j) ==
    /\ CanRecover(jobs[j])
    /\ jobs' = [jobs EXCEPT ![j] = Recover(@)]
    /\ UNCHANGED << workers, proc, stop, faults >>

-----------------------------------------------------------------------------
(* The worker process *)

StaleWorker(row) == row.status \in ActiveWorker /\ row.age > StaleTicks

\* start: mark stale worker rows failed, register this one, reconcile the
\* expired leases of every job, in one transaction.
Start(w) ==
    /\ proc[w].pc = "off"
    /\ workers' = [v \in Workers |->
                     IF v = w THEN FreshWorker("idle")
                     ELSE IF StaleWorker(workers[v])
                          THEN [workers[v] EXCEPT !.status = "failed"]
                          ELSE workers[v]]
    /\ jobs' = [j \in Jobs |-> Reconcile(jobs[j])]
    /\ proc' = [proc EXCEPT ![w] = [NoProcess EXCEPT !.pc = "idle"]]
    /\ stop' = [stop EXCEPT ![w] = FALSE]
    /\ UNCHANGED faults

Queued == {j \in Jobs : CanClaim(jobs[j])}

\* run_once without a queued job refreshes the worker row.
PollEmpty(w) ==
    /\ proc[w].pc = "idle" /\ ~stop[w]
    /\ Queued = {}
    /\ Upsert(w, "idle")
    /\ UNCHANGED << jobs, proc, stop, faults >>

\* run_once: claim the oldest queued job, start its attempt and become busy,
\* in one transaction.  The runner and its control monitor are created here.
ClaimJob(w) ==
    /\ proc[w].pc = "idle" /\ ~stop[w]
    /\ \E j \in Queued :
         /\ \A i \in Queued : j <= i
         /\ LET claimed == Claim(jobs[j], w)
            IN  /\ CanStartAttempt(claimed, w)
                /\ jobs' = [jobs EXCEPT ![j] = StartAttempt(claimed, w)]
                /\ proc' = [proc EXCEPT ![w] =
                              [NoProcess EXCEPT !.pc = "preflight", !.job = j,
                                 !.attempt = StartAttempt(claimed, w).current_attempt]]
    /\ Upsert(w, "busy")
    /\ UNCHANGED << stop, faults >>

\* The claim transaction fails in the database: nothing catches the error.
PollError(w) ==
    /\ proc[w].pc = "idle" /\ ~stop[w]
    /\ Injected
    /\ Goto(w, "exit")
    /\ UNCHANGED << jobs, workers, stop >>

\* run: preflight succeeded, mark_running.
PreflightOk(w) ==
    /\ proc[w].pc = "preflight"
    /\ \/ /\ CanMarkRunning(JobOf(w), w)
          /\ Write(w, MarkRunning(JobOf(w)))
          /\ Goto(w, "started")
          /\ UNCHANGED workers
       \/ ~CanMarkRunning(JobOf(w), w) /\ Refused(w)
    /\ UNCHANGED << stop, faults >>

\* The next packet of the capture; the pacer has just seen no stop request.
Capture(w) ==
    /\ proc[w].pc = "loop" /\ ~stop[w]
    /\ proc[w].seen < Packets
    /\ proc' = [proc EXCEPT ![w].pc = "captured", ![w].seen = @ + 1]
    /\ UNCHANGED << jobs, workers, stop, faults >>

\* End of the capture: flush_capture_end closes the open flows.
EndOfCapture(w) ==
    /\ proc[w].pc = "loop"
    /\ proc[w].seen = Packets
    /\ proc' = [proc EXCEPT ![w].pc = "captured", ![w].eof = TRUE]
    /\ UNCHANGED << jobs, workers, stop, faults >>

\* Where the runner goes once the packet, or the flush, is dealt with.
AfterBatch(w) == IF proc[w].eof THEN "final" ELSE "check"

NoBatch(w) ==
    /\ proc[w].pc = "captured"
    /\ Goto(w, AfterBatch(w))
    /\ UNCHANGED << jobs, workers, stop, faults >>

\* Enough flows are pending: record_observed_progress before the batch.
ObserveBatch(w) ==
    /\ proc[w].pc = "captured"
    /\ \/ /\ CanObserve(JobOf(w), w, proc[w].seen)
          /\ Write(w, Observe(JobOf(w), proc[w].seen))
          /\ Goto(w, "batch")
          /\ UNCHANGED workers
       \/ ~CanObserve(JobOf(w), w, proc[w].seen) /\ Refused(w)
    /\ UNCHANGED << stop, faults >>

\* _persist_batch commits evidence and durable counters if the job is still
\* this worker's.
PersistBatch(w) ==
    /\ proc[w].pc = "batch"
    /\ \/ CanPersist(JobOf(w), w) /\ Goto(w, "correlate") /\ UNCHANGED << jobs, workers >>
       \/ ~CanPersist(JobOf(w), w) /\ Refused(w)
    /\ UNCHANGED << stop, faults >>

\* _maybe_correlate: too few new alerts, or a downstream transaction that
\* leaves the row in its stage.
Correlate(w) ==
    /\ proc[w].pc = "correlate"
    /\ \/ Goto(w, AfterBatch(w)) /\ UNCHANGED << jobs, workers >>
       \/ ~CanPersist(JobOf(w), w) /\ Refused(w)
    /\ UNCHANGED << stop, faults >>

-----------------------------------------------------------------------------
(* Control points: RuntimeControlMonitor *)

HeartbeatDue(w) == proc[w].beat = HeartbeatTicks

\* Where a control point happens: after every packet, and between two packets
\* while the pacer sleeps.  After the last packet there is nothing to sleep for.
ControlPoint(w) ==
    \/ proc[w].pc = "check"
    \/ proc[w].pc = "loop" /\ proc[w].seen < Packets

PointAfter(status) == IF status = "paused" THEN "paused" ELSE "loop"

\* check without a stop request.  observe stands for the packet and time
\* thresholds and a due resource sample, broken for a sample that fails; a row
\* that needs no update is only read, and its owner is not looked at.
ControlTurn(w, broken) ==
    /\ ControlPoint(w) /\ ~stop[w]
    /\ \E observe \in BOOLEAN :
         LET row == JobOf(w)
             due == HeartbeatDue(w)
             records == observe \/ broken \/ due \/ row.status = "pause_requested"
         IN  \/ /\ records /\ CanObserve(row, w, proc[w].seen)
                /\ LET observed == Observe(row, proc[w].seen)
                       paused == IF row.status = "pause_requested"
                                 THEN MarkPaused(observed) ELSE observed
                   IN  /\ Write(w, IF due THEN Heartbeat(paused) ELSE paused)
                       /\ proc' = [proc EXCEPT ![w].pc = PointAfter(paused.status),
                                               ![w].beat = IF due THEN 0 ELSE @]
                /\ Monitor(w, due, broken)
             \/ /\ ~records /\ row.status \in {"running", "paused"}
                /\ Goto(w, PointAfter(row.status))
                /\ UNCHANGED << jobs, workers >>
             \/ /\ ~broken
                /\ IF records THEN ~CanObserve(row, w, proc[w].seen)
                              ELSE row.status \notin {"running", "paused"}
                /\ Refused(w)
    /\ UNCHANGED stop

PausedTurn_Deaf(w, broken) ==
    /\ proc[w].pc = "paused" /\ ~stop[w]
    /\ JobOf(w).status = "paused" /\ (HeartbeatDue(w) \/ broken)
    /\ IF HeartbeatDue(w)
       THEN /\ CanHeartbeat(JobOf(w), w)
            /\ Write(w, Heartbeat(JobOf(w)))
            /\ proc' = [proc EXCEPT ![w].beat = 0]
       ELSE UNCHANGED << jobs, proc >>
    /\ Monitor(w, HeartbeatDue(w), broken)
    /\ UNCHANGED stop

\* One turn of _wait_while_paused without a stop request.
PausedTurn(w, broken) ==
    /\ proc[w].pc = "paused" /\ ~stop[w]
    /\ \/ /\ JobOf(w).status = "paused" /\ HeartbeatDue(w)
          /\ CanHeartbeat(JobOf(w), w)
          /\ Write(w, Heartbeat(JobOf(w)))
          /\ proc' = [proc EXCEPT ![w].beat = 0]
          /\ Monitor(w, TRUE, broken)
       \/ /\ JobOf(w).status = "paused" /\ ~HeartbeatDue(w) /\ broken
          /\ Monitor(w, FALSE, TRUE)
          /\ UNCHANGED << jobs, proc >>
       \/ /\ JobOf(w).status = "running" /\ ~broken
          /\ Goto(w, "loop")
          /\ UNCHANGED << jobs, workers >>
       \/ /\ \/ JobOf(w).status = "paused" /\ HeartbeatDue(w) /\ ~CanHeartbeat(JobOf(w), w)
             \/ JobOf(w).status \notin {"paused", "running"}
          /\ ~broken
          /\ Refused(w)
    /\ UNCHANGED stop

Check(w) == ControlTurn(w, FALSE) /\ UNCHANGED faults
PauseTurn(w) == PausedTurn(w, FALSE) /\ UNCHANGED faults

StopSeen_NotPaused(w) ==
    /\ ControlPoint(w)
    /\ stop[w]
    /\ \/ /\ CanObserve(JobOf(w), w, proc[w].seen)
          /\ Write(w, Observe(JobOf(w), proc[w].seen))
          /\ Goto(w, "interrupt")
          /\ UNCHANGED workers
       \/ ~CanObserve(JobOf(w), w, proc[w].seen) /\ Refused(w)
    /\ UNCHANGED << stop, faults >>

\* A control point sees the stop event: record the telemetry, then raise
\* ReplayInterrupted out of run.
StopSeen(w) ==
    /\ ControlPoint(w) \/ proc[w].pc = "paused"
    /\ stop[w]
    /\ \/ /\ CanObserve(JobOf(w), w, proc[w].seen)
          /\ Write(w, Observe(JobOf(w), proc[w].seen))
          /\ Goto(w, "interrupt")
          /\ UNCHANGED workers
       \/ ~CanObserve(JobOf(w), w, proc[w].seen) /\ Refused(w)
    /\ UNCHANGED << stop, faults >>

-----------------------------------------------------------------------------
(* The end of a replay *)

\* _run_downstream(complete=True): set_stage and complete in one transaction.
Finish(w) ==
    /\ proc[w].pc = "final"
    /\ \/ /\ CanPersist(JobOf(w), w)
          /\ CanComplete(JobOf(w), w, proc[w].seen)
          /\ Write(w, Complete(JobOf(w)))
          /\ Goto(w, "sample")
          /\ UNCHANGED workers
       \/ /\ ~(CanPersist(JobOf(w), w) /\ CanComplete(JobOf(w), w, proc[w].seen))
          /\ Refused(w)
    /\ UNCHANGED << stop, faults >>

\* capture_resource_sample, after mark_running and after complete, touches no
\* job.
SampleTurn(w, broken) ==
    /\ proc[w].pc \in {"started", "sample"}
    /\ Goto(w, IF proc[w].pc = "started" THEN "loop" ELSE "release")
    /\ Monitor(w, FALSE, broken)
    /\ UNCHANGED << jobs, stop >>

Sample(w) == SampleTurn(w, FALSE) /\ UNCHANGED faults

\* _fail and _interrupt: RuntimeClaimError raised inside the except clause of
\* run_once escapes it and ends run_forever.
RecordFailure(w) ==
    /\ proc[w].pc = "failing"
    /\ \/ /\ Owned(JobOf(w), w)
          /\ Write(w, Fail(JobOf(w), proc[w].again))
          /\ Goto(w, "release")
       \/ /\ ~Owned(JobOf(w), w)
          /\ proc' = [proc EXCEPT ![w].pc = "release", ![w].dying = TRUE]
          /\ UNCHANGED jobs
    /\ UNCHANGED << workers, stop, faults >>

RecordInterrupt(w) ==
    /\ proc[w].pc = "interrupt"
    /\ \/ /\ Owned(JobOf(w), w)
          /\ Write(w, Interrupt(JobOf(w)))
          /\ Goto(w, "release")
       \/ /\ ~Owned(JobOf(w), w)
          /\ proc' = [proc EXCEPT ![w].pc = "release", ![w].dying = TRUE]
          /\ UNCHANGED jobs
    /\ UNCHANGED << workers, stop, faults >>

\* The finally clause of run_once: _set_idle_or_stopped.
Release(w) ==
    /\ proc[w].pc = "release"
    /\ Upsert(w, IF stop[w] THEN "stopping"
                 ELSE IF workers[w].degraded THEN "degraded" ELSE "idle")
    /\ proc' = [proc EXCEPT ![w] = [NoProcess EXCEPT
                  !.pc = IF proc[w].dying THEN "exit" ELSE "idle"]]
    /\ UNCHANGED << jobs, stop, faults >>

\* run_forever leaves its loop.
LeaveLoop(w) ==
    /\ proc[w].pc = "idle" /\ stop[w]
    /\ Goto(w, "exit")
    /\ UNCHANGED << jobs, workers, stop, faults >>

\* The finally clause of run_forever: _set_stopped.
Exit(w) ==
    /\ proc[w].pc = "exit"
    /\ Upsert(w, "stopped")
    /\ proc' = [proc EXCEPT ![w] = NoProcess]
    /\ UNCHANGED << jobs, stop, faults >>

-----------------------------------------------------------------------------
(* Faults and time *)

\* A transaction of the pipeline fails in the database: the error recorded is
\* retryable.
DatabaseError(w) ==
    /\ proc[w].pc \in {"preflight", "started", "loop", "captured", "batch",
                       "correlate", "check", "paused", "final", "sample"}
    /\ Injected
    /\ CaughtError(w, TRUE)
    /\ UNCHANGED << jobs, workers, stop >>

\* The pinned snapshot differs, or the capture, a model or the evidence is bad.
\* Some errors of the packet loop have the telemetry recorded first.
PipelineError(w) ==
    /\ proc[w].pc \in {"preflight", "loop", "captured", "batch", "correlate", "final"}
    /\ Injected
    /\ \/ UNCHANGED jobs
       \/ /\ proc[w].pc # "preflight"
          /\ CanObserve(JobOf(w), w, proc[w].seen)
          /\ Write(w, Observe(JobOf(w), proc[w].seen))
    /\ CaughtError(w, FALSE)
    /\ UNCHANGED << workers, stop >>

\* The resource sampler fails: the replay goes on, the worker is degraded.
SamplerFails(w) ==
    /\ ControlTurn(w, TRUE) \/ PausedTurn(w, TRUE) \/ SampleTurn(w, TRUE)
    /\ Injected

\* _fail or _interrupt itself fails in the database, and so does the release:
\* the exception escapes and the job stays leased.
RecordLost(w) ==
    /\ proc[w].pc \in {"failing", "interrupt", "release"}
    /\ Injected
    /\ proc' = [proc EXCEPT ![w].pc = IF proc[w].pc = "release" THEN "exit" ELSE "release",
                            ![w].dying = TRUE]
    /\ UNCHANGED << jobs, workers, stop >>

\* The process dies without running any finally clause.
Crash(w) ==
    /\ proc[w].pc # "off"
    /\ Injected
    /\ proc' = [proc EXCEPT ![w] = NoProcess]
    /\ UNCHANGED << jobs, workers, stop >>

\* SIGINT or SIGTERM: request_shutdown.
Signal(w) ==
    /\ proc[w].pc # "off" /\ ~stop[w]
    /\ Injected
    /\ stop' = [stop EXCEPT ![w] = TRUE]
    /\ UNCHANGED << jobs, workers, proc >>

Older(n, most) == IF n < most THEN n + 1 ELSE n

Tick ==
    /\ jobs' = [j \in Jobs |-> Age(jobs[j])]
    /\ workers' = [w \in Workers |->
                     [workers[w] EXCEPT !.age =
                        IF workers[w].status = "absent" THEN 0
                        ELSE Older(workers[w].age, StaleTicks + 1)]]
    /\ proc' = [w \in Workers |->
                  IF proc[w].pc \in {"off", "idle", "exit"} THEN proc[w]
                  ELSE [proc[w] EXCEPT !.beat = Older(proc[w].beat, HeartbeatTicks)]]
    /\ UNCHANGED << stop, faults >>

-----------------------------------------------------------------------------
Operator(j) ==
    CreateReplay(j) \/ Pause(j) \/ ResumeReplay(j) \/ RecoverReplay(j)

\* What the thread of worker w does by itself once it has been started.
Advance(w) ==
    \/ PollEmpty(w) \/ ClaimJob(w) \/ PreflightOk(w)
    \/ Capture(w) \/ EndOfCapture(w)
    \/ NoBatch(w) \/ ObserveBatch(w) \/ PersistBatch(w) \/ Correlate(w)
    \/ Check(w) \/ PauseTurn(w) \/ StopSeen(w)
    \/ Finish(w) \/ Sample(w) \/ RecordFailure(w) \/ RecordInterrupt(w)
    \/ Release(w) \/ LeaveLoop(w) \/ Exit(w)

Fault(w) ==
    PollError(w) \/ DatabaseError(w) \/ PipelineError(w) \/ SamplerFails(w)
    \/ RecordLost(w) \/ Crash(w) \/ Signal(w)

Next ==
    \/ \E j \in Jobs : Operator(j)
    \/ \E w \in Workers : Start(w) \/ Advance(w) \/ Fault(w)
    \/ Tick

Spec == Init /\ [][Next]_vars

\* A started process keeps taking its steps, and the pacer's sleep, which is
\* cut into quanta with a control point each, ends.  Nothing makes operators
\* act, workers start or time pass.
Fairness == \A w \in Workers : WF_vars(Advance(w)) /\ WF_vars(Capture(w))

FairSpec == Spec /\ Fairness

\* The same, and a worker that is down is started again.
RestartSpec == FairSpec /\ \A w \in Workers : WF_vars(Start(w))

-----------------------------------------------------------------------------
(***************************************************************************)
(* Properties                                                              *)
(***************************************************************************)

\* Every committed row satisfies the contract RuntimeJob.validate_state
\* re-checks on each read, and the operator's wish agrees with the status.
RowsValid == \A j \in Jobs : RowContract(jobs[j]) /\ WishAgrees(jobs[j])

\* The attempt history of every job agrees with its row: at most one attempt
\* is open, it belongs to the lease holder, and it mirrors the observed
\* progress (job_store._set_attempt, _current_attempt).
HistoryValid == \A j \in Jobs : AttemptHistory(jobs[j])

\* recover and start_attempt count attempts in two different ways (a column
\* and a COUNT query) against the same limit: a queued job can always be
\* claimed, so the attempt limit never raises out of run_once and never
\* blocks the head of the queue.
QueueNeverJams == \A j \in Jobs : RecoveryCounted(jobs[j])

Drives(w, j) == proc[w].pc \in Driving /\ proc[w].job = j

\* worker_id is the only fence between attempts: a process that the row names
\* as its owner is in the attempt the row is in, and has read at least as many
\* packets as the row says were observed.
Fenced ==
    \A w \in Workers, j \in Jobs :
        Drives(w, j) /\ Owned(jobs[j], w) =>
            /\ jobs[j].current_attempt = proc[w].attempt
            /\ jobs[j].observed <= proc[w].seen

\* A process whose job is still its own finds it in a status its next
\* transaction accepts; only the two pause races reported below are left.
OwnerInStep ==
    \A w \in Workers, j \in Jobs :
        Drives(w, j) /\ Owned(jobs[j], w) =>
            CASE proc[w].pc = "preflight" -> jobs[j].status = "validating"
              [] proc[w].pc = "paused" ->
                    jobs[j].status \in {"running", "pause_requested", "paused"}
              [] proc[w].pc \in {"failing", "interrupt"} -> Leased(jobs[j])
              [] OTHER -> jobs[j].status \in {"running", "pause_requested"}

\* start marks a worker failed when its heartbeat is older than the stale
\* threshold, and reconciles jobs by their leases: the two clocks agree, so a
\* worker shown as failed never appears as the holder of a job.
FailedHoldsNothing ==
    \A w \in Workers, j \in Jobs :
        workers[w].status = "failed" => jobs[j].claimed_by # w

\* The row as RuntimeLifecycle sees it.
Phase(r) ==
    CASE r.status = "absent" -> "absent"
      [] r.status = "queued" -> "waiting"
      [] r.status \in LeasedStatus -> "held"
      [] r.status = "recovery_pending" -> "stopped"
      [] r.status = "failed" -> IF r.retryable THEN "stopped" ELSE "ended"
      [] r.status = "completed" -> "ended"

History(r) ==
    [n \in 1..Len(r.attempts) |->
       [worker |-> r.attempts[n].worker_id,
        outcome |-> IF r.attempts[n].status \in LiveAttempt
                    THEN "open" ELSE r.attempts[n].status]]

\* The queue implements RuntimeLifecycle: claims in order, one holder at a
\* time, an append-only history of attempts within the limit, final ends.
Lifecycle ==
    INSTANCE RuntimeLifecycle
    WITH phase <- [j \in Jobs |-> Phase(jobs[j])],
         attempts <- [j \in Jobs |-> History(jobs[j])]

\* Every transaction on the tables is a step of that lifecycle or leaves what
\* it sees alone (docs/runtime_recovery.md, "Lifecycle").
LifecycleSpec == Lifecycle!Spec

\* A lease that has not expired is ended by its holder only.
LeaseNotStolen ==
    [][\A j \in Jobs, w \in Workers :
          jobs[j].claimed_by = w /\ ~LeaseExpired(jobs[j])
            /\ jobs'[j].claimed_by # w
          => Drives(w, j) /\ proc'[w].pc \in {"sample", "release"}]_vars

\* A process renews the lease of the job it drives and of no other: what an
\* earlier process with the same worker_id left claimed (a restart inside the
\* lease) runs out even though its owner's name is alive and heartbeating.
OrphanLeaseRunsOut ==
    [][\A j \in Jobs, w \in Workers :
          jobs[j].claimed_by = w /\ jobs'[j].claimed_by = w /\ ~Drives(w, j)
          => jobs'[j].lease <= jobs[j].lease]_vars

\* A shutdown request ends the process, also while the replay is paused.
StopDrains == \A w \in Workers : stop[w] ~> proc[w].pc = "off"

\* A replay settles: it ends, is given up, or waits paused for the operator.
ReplaySettles ==
    \A w \in Workers, j \in Jobs :
        Drives(w, j) ~> (~Drives(w, j) \/ jobs[j].status = "paused")

\* A pause request is answered while its replay is being driven.
PauseAnswered ==
    \A w \in Workers, j \in Jobs :
        (Drives(w, j) /\ jobs[j].status = "pause_requested")
            ~> (~Drives(w, j) \/ jobs[j].status # "pause_requested")

-----------------------------------------------------------------------------
(***************************************************************************)
(* Statements of the documentation that the code does not keep             *)
(***************************************************************************)

\* "preserving the documented pause_requested boundary instead of failing the
\* job" (docs/pr-phase14-corrective.md): without any error, the transaction
\* that finishes a replay is not refused while the job is its worker's.
PauseKeepsFinalBatch ==
    [][\A w \in Workers :
          proc[w].pc = "final" /\ faults = 0 /\ Owned(JobOf(w), w)
          => proc'[w].pc # "failing"]_vars

\* "Expired or interrupted leases become recovery_pending"
\* (docs/architecture.md): a job nobody drives whose lease has expired is
\* reconciled.
ExpiredLeaseReconciled ==
    \A j \in Jobs :
        (LeaseExpired(jobs[j]) /\ \A w \in Workers : ~Drives(w, j))
            ~> jobs[j].status \notin LeasedStatus
=============================================================================
