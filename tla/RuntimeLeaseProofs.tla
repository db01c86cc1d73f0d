------------------------- MODULE RuntimeLeaseProofs -------------------------
(***************************************************************************)
(* What the leases of RuntimeJobs guarantee between processes: fencing by  *)
(* worker_id, the clocks of leases and heartbeats, and who may end or      *)
(* renew a lease.                                                          *)
(***************************************************************************)
EXTENDS RuntimeJobsProofs

Resting == {"off", "idle", "exit"}

\* Process w still knows the job it claimed, whatever it does with it.
Knows(w, j) == proc[w].pc \notin Resting /\ proc[w].job = j

\* Fenced, also for the points at which the process no longer drives the job.
Fence ==
    \A w \in Workers, j \in Jobs :
        Knows(w, j) /\ Owned(jobs[j], w) =>
            /\ jobs[j].current_attempt = proc[w].attempt
            /\ jobs[j].observed <= proc[w].seen

\* While a lease has not run out, its holder's heartbeat is at most as old as
\* the part of the lease that is used up.
Clocks ==
    \A w \in Workers, j \in Jobs :
        Owned(jobs[j], w) /\ jobs[j].lease >= 0 =>
            jobs[j].lease + workers[w].age <= LeaseTicks

\* The inductive invariant of the lease properties.
LInv == IInv /\ Fence /\ OwnerInStep /\ Clocks /\ FailedHoldsNothing

-----------------------------------------------------------------------------
(* What one step does to the lease of job j *)

SameHold(r, s) ==
    /\ s.claimed_by = r.claimed_by /\ s.lease = r.lease
    /\ s.current_attempt = r.current_attempt /\ s.observed = r.observed

Switched(j) == (Pause(j) \/ ResumeReplay(j)) /\ SameHold(jobs[j], jobs'[j])

Unowned(j) == jobs[j].claimed_by = NoWorker /\ jobs'[j].claimed_by = NoWorker

Reconciled(j) ==
    /\ \E v \in Workers : Start(v)
    /\ LeaseExpired(jobs[j]) /\ jobs'[j].claimed_by = NoWorker

Aged(j) == Tick /\ jobs'[j] = Age(jobs[j])

Claimed(w, j) ==
    /\ ClaimJob(w) /\ jobs[j].claimed_by = NoWorker /\ Owned(jobs'[j], w)
    /\ jobs'[j].status = "validating" /\ jobs'[j].observed = 0
    /\ jobs'[j].lease = LeaseTicks
    /\ workers'[w].status = "busy" /\ workers'[w].age = 0
    /\ proc'[w].pc = "preflight" /\ proc'[w].job = j
    /\ proc'[w].attempt = jobs'[j].current_attempt

Renewed(w, j) ==
    /\ Drives(w, j) /\ Owned(jobs[j], w) /\ Owned(jobs'[j], w)
    /\ jobs'[j].current_attempt = jobs[j].current_attempt
    /\ jobs'[j].observed \in {jobs[j].observed, proc[w].seen}
    /\ \/ jobs'[j].lease = jobs[j].lease
       \/ jobs'[j].lease = LeaseTicks /\ workers'[w].age = 0

Released(w, j) ==
    /\ Drives(w, j) /\ Owned(jobs[j], w)
    /\ jobs'[j].claimed_by = NoWorker /\ proc'[w].pc \in {"sample", "release"}

Held(j) ==
    \/ jobs'[j] = jobs[j]
    \/ Switched(j) \/ Unowned(j) \/ Reconciled(j) \/ Aged(j)
    \/ \E w \in Workers : Claimed(w, j) \/ Renewed(w, j) \/ Released(w, j)

\* _set_attempt leaves the row of the job alone.
LEMMA SetAttemptHold ==
    ASSUME NEW r \in RuntimeJob, NEW s
    PROVE  SameHold(r, SetAttempt(r, s)) /\ SetAttempt(r, s).status = r.status
BY DEF SetAttempt, SameHold, RuntimeJob

LEMMA RowEffects ==
    ASSUME NEW r \in RuntimeJob
    PROVE  /\ SameHold(r, MarkRunning(r)) /\ MarkRunning(r).status = "running"
           /\ SameHold(r, RequestPause(r)) /\ RequestPause(r).status = "pause_requested"
           /\ SameHold(r, MarkPaused(r)) /\ MarkPaused(r).status = "paused"
           /\ SameHold(r, Resume(r)) /\ Resume(r).status = "running"
           /\ Complete(r).claimed_by = NoWorker
           /\ \A again \in BOOLEAN : Fail(r, again).claimed_by = NoWorker
           /\ Interrupt(r).claimed_by = NoWorker
           /\ Recover(r).claimed_by = NoWorker
           /\ Add(r).claimed_by = r.claimed_by
           /\ Heartbeat(r).claimed_by = r.claimed_by /\ Heartbeat(r).lease = LeaseTicks
           /\ Heartbeat(r).current_attempt = r.current_attempt
           /\ Heartbeat(r).observed = r.observed /\ Heartbeat(r).status = r.status
           /\ \A n \in 0..Packets :
                /\ Observe(r, n).claimed_by = r.claimed_by /\ Observe(r, n).lease = r.lease
                /\ Observe(r, n).current_attempt = r.current_attempt
                /\ Observe(r, n).observed = n /\ Observe(r, n).status = r.status
<1>1. SameHold(r, MarkPaused(r)) /\ MarkPaused(r).status = "paused"
  <2> DEFINE b == [r EXCEPT !.status = "paused"]
  <2>1. b \in RuntimeJob /\ b.status = "paused" /\ SameHold(r, b)
    BY DEF RuntimeJob, Status, RuntimeJobStatus, SameHold
  <2>. QED  BY <2>1, SetAttemptHold DEF MarkPaused, SameHold
<1>2. SameHold(r, Resume(r)) /\ Resume(r).status = "running"
  <2> DEFINE b == [r EXCEPT !.status = "running", !.desired_action = "run"]
  <2>1. b \in RuntimeJob /\ b.status = "running" /\ SameHold(r, b)
    BY DEF RuntimeJob, Status, RuntimeJobStatus, SameHold
  <2>. QED  BY <2>1, SetAttemptHold DEF Resume, SameHold
<1>3. SameHold(r, MarkRunning(r)) /\ MarkRunning(r).status = "running"
  BY DEF MarkRunning, SameHold, RuntimeJob
<1>4. SameHold(r, RequestPause(r)) /\ RequestPause(r).status = "pause_requested"
  BY DEF RequestPause, SameHold, RuntimeJob
<1>5. Complete(r).claimed_by = NoWorker
  BY DEF Complete, ClearLease, SetAttempt, RuntimeJob
<1>6. \A again \in BOOLEAN : Fail(r, again).claimed_by = NoWorker
  BY DEF Fail, ClearLease, SetAttempt, RuntimeJob
<1>7. Interrupt(r).claimed_by = NoWorker /\ Recover(r).claimed_by = NoWorker
  BY DEF Interrupt, Recover, ClearLease, SetAttempt, RuntimeJob
<1>8. Add(r).claimed_by = r.claimed_by
  BY DEF Add, RuntimeJob
<1>9. /\ Heartbeat(r).claimed_by = r.claimed_by /\ Heartbeat(r).lease = LeaseTicks
      /\ Heartbeat(r).current_attempt = r.current_attempt
      /\ Heartbeat(r).observed = r.observed /\ Heartbeat(r).status = r.status
  BY DEF Heartbeat, RuntimeJob
<1>10. \A n \in 0..Packets :
         /\ Observe(r, n).claimed_by = r.claimed_by /\ Observe(r, n).lease = r.lease
         /\ Observe(r, n).current_attempt = r.current_attempt
         /\ Observe(r, n).observed = n /\ Observe(r, n).status = r.status
  BY DEF Observe, RuntimeJob
<1>. QED  BY <1>1, <1>2, <1>3, <1>4, <1>5, <1>6, <1>7, <1>8, <1>9, <1>10

LEMMA WrittenRow ==
    ASSUME IInv, NEW w \in Workers, proc[w].job \in Jobs, NEW row, Write(w, row),
           NEW j \in Jobs
    PROVE  jobs'[j] = IF j = proc[w].job THEN row ELSE jobs[j]
BY DEF Write, IInv, TypeOK

\* A transaction of the process that owns its job: nobody else's lease changes,
\* its own is kept, renewed together with the heartbeat, or given up.
LEMMA HolderStep ==
    ASSUME IInv, NEW w \in Workers, Turn(w), ~ClaimJob(w), NEW j \in Jobs
    PROVE  jobs'[j] = jobs[j] \/ Renewed(w, j) \/ Released(w, j)
<1>0. /\ proc[w].pc \notin Resting => proc[w].job \in Jobs /\ JobOf(w) \in RuntimeJob
      /\ proc[w].seen \in 0..Packets /\ proc[w].again \in BOOLEAN
  BY RowOfProcess DEF Resting, IInv, TypeOK, Process, RowOK
<1>1. CASE jobs' = jobs
  BY <1>1
<1>2. ASSUME NEW row, Write(w, row), proc[w].pc \in Driving, Owned(JobOf(w), w),
             \/ /\ row.claimed_by = NoWorker /\ proc'[w].pc \in {"sample", "release"}
             \/ /\ row.claimed_by = JobOf(w).claimed_by
                /\ row.current_attempt = JobOf(w).current_attempt
                /\ row.observed \in {JobOf(w).observed, proc[w].seen}
                /\ \/ row.lease = JobOf(w).lease
                   \/ row.lease = LeaseTicks /\ workers'[w].age = 0
      PROVE  jobs'[j] = jobs[j] \/ Renewed(w, j) \/ Released(w, j)
  <2>1. proc[w].job \in Jobs
    BY <1>0, <1>2 DEF Driving, Resting
  <2>2. CASE j # proc[w].job
    BY <1>2, <2>1, <2>2, WrittenRow
  <2>3. CASE j = proc[w].job
    <3>1. jobs'[j] = row /\ JobOf(w) = jobs[j] /\ Drives(w, j)
      BY <1>2, <2>1, <2>3, WrittenRow DEF JobOf, Drives
    <3>. QED  BY <1>2, <3>1 DEF Renewed, Released, Owned
  <2>. QED  BY <2>2, <2>3
<1>3. CASE PreflightOk(w) /\ jobs' # jobs
  <2>1. /\ Write(w, MarkRunning(JobOf(w))) /\ Owned(JobOf(w), w)
        /\ proc[w].pc = "preflight"
    BY <1>3 DEF PreflightOk, Refused, CanMarkRunning
  <2>. QED  BY <1>0, <1>2, <2>1, RowEffects DEF Driving, Resting, SameHold
<1>4. CASE ObserveBatch(w) \/ StopSeen(w)
  <2>1. CASE jobs' # jobs
    <3>1. /\ Write(w, Observe(JobOf(w), proc[w].seen)) /\ Owned(JobOf(w), w)
          /\ proc[w].pc \in {"captured", "check", "loop", "paused"}
      BY <1>4, <2>1 DEF ObserveBatch, StopSeen, ControlPoint, Refused, CanObserve
    <3>. QED  BY <1>0, <1>2, <3>1, RowEffects DEF Driving, Resting
  <2>. QED  BY <1>1, <2>1
<1>5. CASE Controlled(w) /\ jobs' # jobs
  <2> DEFINE row == JobOf(w)
             due == HeartbeatDue(w)
             observed == Observe(row, proc[w].seen)
             paused == IF row.status = "pause_requested" THEN MarkPaused(observed)
                       ELSE observed
  <2>1. /\ proc[w].pc \in {"check", "loop"} /\ Owned(row, w) /\ RowOK(row)
        /\ CanObserve(row, w, proc[w].seen)
        /\ Write(w, IF due THEN Heartbeat(paused) ELSE paused)
        /\ \E broken \in BOOLEAN : Monitor(w, due, broken)
    BY <1>5, RowOfProcess DEF Controlled, ControlTurn, ControlPoint, Refused, CanObserve
  <2>2. observed \in RuntimeJob
    BY <1>0, <2>1, ObserveFollows DEF Follows, RowOK
  <2>3. /\ observed.claimed_by = row.claimed_by /\ observed.lease = row.lease
        /\ observed.current_attempt = row.current_attempt
        /\ observed.observed = proc[w].seen
    BY <1>0, <2>1, RowEffects DEF RowOK
  <2>4. SameHold(observed, paused)
    BY <2>2, RowEffects DEF SameHold
  <2>5. paused \in RuntimeJob
    <3>1. CASE row.status = "pause_requested"
      <4>1. CanMarkPaused(observed, w) /\ RowOK(observed)
        BY <1>0, <2>1, <2>3, <3>1, RowEffects, ObserveFollows
           DEF CanMarkPaused, Owned, RowOK, Follows
      <4>. QED  BY <3>1, <4>1, MarkPausedFollows DEF Follows, RowOK
    <3>. QED  BY <3>1, <2>2
  <2> HIDE DEF observed, paused
  <2>6. CASE due
    <3>1. Write(w, Heartbeat(paused)) /\ workers'[w].age = 0
      BY <2>1, <2>6 DEF Monitor, Monitored, IInv, TypeOK, WorkerRow
    <3>. QED  BY <1>2, <2>1, <2>3, <2>4, <2>5, <3>1, RowEffects DEF SameHold, Driving
  <2>7. CASE ~due
    BY <1>2, <2>1, <2>3, <2>4, <2>7 DEF SameHold, Driving
  <2>. QED  BY <2>6, <2>7
<1>6. CASE Waited(w) /\ jobs' # jobs
  <2>1. /\ proc[w].pc = "paused" /\ Owned(JobOf(w), w)
        /\ Write(w, Heartbeat(JobOf(w)))
        /\ \E broken \in BOOLEAN : Monitor(w, TRUE, broken)
    BY <1>6 DEF Waited, PausedTurn, Refused, CanHeartbeat
  <2>2. workers'[w].age = 0
    BY <2>1 DEF Monitor, Monitored, IInv, TypeOK, WorkerRow
  <2>. QED  BY <1>0, <1>2, <2>1, <2>2, RowEffects DEF Driving, Resting
<1>7. CASE Finish(w) /\ jobs' # jobs
  <2>1. /\ proc[w].pc = "final" /\ Owned(JobOf(w), w)
        /\ Write(w, Complete(JobOf(w))) /\ proc'[w].pc = "sample"
    BY <1>7 DEF Finish, Refused, CanComplete, Goto, IInv, TypeOK, Process
  <2>. QED  BY <1>0, <1>2, <2>1, RowEffects DEF Driving, Resting
<1>8. CASE RecordFailure(w) /\ jobs' # jobs
  <2>1. /\ proc[w].pc = "failing" /\ Owned(JobOf(w), w)
        /\ Write(w, Fail(JobOf(w), proc[w].again)) /\ proc'[w].pc = "release"
    BY <1>8 DEF RecordFailure, Goto, IInv, TypeOK, Process
  <2>. QED  BY <1>0, <1>2, <2>1, RowEffects DEF Driving, Resting
<1>9. CASE RecordInterrupt(w) /\ jobs' # jobs
  <2>1. /\ proc[w].pc = "interrupt" /\ Owned(JobOf(w), w)
        /\ Write(w, Interrupt(JobOf(w))) /\ proc'[w].pc = "release"
    BY <1>9 DEF RecordInterrupt, Goto, IInv, TypeOK, Process
  <2>. QED  BY <1>0, <1>2, <2>1, RowEffects DEF Driving, Resting
<1>10. CASE \/ PollEmpty(w) \/ Capture(w) \/ EndOfCapture(w) \/ NoBatch(w)
            \/ PersistBatch(w) \/ Correlate(w) \/ Sampled(w) \/ Release(w)
            \/ LeaveLoop(w) \/ Exit(w)
  BY <1>1, <1>10
     DEF PollEmpty, Capture, EndOfCapture, NoBatch, PersistBatch, Correlate, Sampled,
         SampleTurn, Release, LeaveLoop, Exit, Refused
<1>. QED  BY <1>1, <1>3, <1>4, <1>5, <1>6, <1>7, <1>8, <1>9, <1>10 DEF Turn

LEMMA ClaimStep ==
    ASSUME IInv, NEW w \in Workers, ClaimJob(w), NEW j \in Jobs
    PROVE  jobs'[j] = jobs[j] \/ Claimed(w, j)
<1>1. PICK i \in Jobs :
        /\ CanClaim(jobs[i]) /\ CanStartAttempt(Claim(jobs[i], w), w)
        /\ jobs' = [jobs EXCEPT ![i] = StartAttempt(Claim(jobs[i], w), w)]
        /\ proc' = [proc EXCEPT ![w] =
                      [NoProcess EXCEPT !.pc = "preflight", !.job = i,
                         !.attempt = StartAttempt(Claim(jobs[i], w), w).current_attempt]]
  BY DEF ClaimJob, Queued
<1>2. /\ RowOK(jobs[i]) /\ jobs[i].claimed_by = NoWorker /\ jobs[i].observed = 0
  BY <1>1 DEF CanClaim, IInv, RowOK, RowContract, Fresh, Leased, LeasedStatus
<1>3. LET s == StartAttempt(Claim(jobs[i], w), w)
      IN  /\ s.claimed_by = w /\ s.status = "validating" /\ s.lease = LeaseTicks
          /\ s.observed = jobs[i].observed
  BY <1>2 DEF StartAttempt, Claim, RowOK, RuntimeJob
<1>4. workers'[w].status = "busy" /\ workers'[w].age = 0
  BY DEF ClaimJob, Upsert, IInv, TypeOK, WorkerRow
<1>5. CASE j = i
  <2>1. jobs'[j] = StartAttempt(Claim(jobs[i], w), w)
    BY <1>1, <1>5 DEF IInv, TypeOK
  <2>2. /\ proc'[w].pc = "preflight" /\ proc'[w].job = j
        /\ proc'[w].attempt = jobs'[j].current_attempt
    BY <1>1, <1>5, <2>1 DEF IInv, TypeOK, NoProcess
  <2>. QED  BY <1>2, <1>3, <1>4, <1>5, <2>1, <2>2 DEF Claimed, Owned
<1>6. CASE j # i
  BY <1>1, <1>6 DEF IInv, TypeOK
<1>. QED  BY <1>5, <1>6

\* Every step treats the lease of a job in one of these ways.
LEMMA LeaseStep ==
    ASSUME IInv, [Next]_vars, NEW j \in Jobs
    PROVE  Held(j)
<1>1. ASSUME NEW i \in Jobs, Operator(i)
      PROVE  Held(j)
  <2>1. RowOK(jobs[i]) /\ jobs[i] \in RuntimeJob
    BY DEF IInv, RowOK
  <2>2. CASE i # j
    BY <1>1, <2>2
       DEF Operator, CreateReplay, Pause, ResumeReplay, RecoverReplay, IInv, TypeOK, Held
  <2>3. CASE i = j /\ Pause(j)
    <3>1. jobs'[j] = RequestPause(jobs[j])
      BY <2>3 DEF Pause, IInv, TypeOK
    <3>. QED  BY <2>1, <2>3, <3>1, RowEffects DEF Held, Switched
  <2>4. CASE i = j /\ ResumeReplay(j)
    <3>1. jobs'[j] = Resume(jobs[j])
      BY <2>4 DEF ResumeReplay, IInv, TypeOK
    <3>. QED  BY <2>1, <2>4, <3>1, RowEffects DEF Held, Switched
  <2>5. CASE i = j /\ (CreateReplay(j) \/ RecoverReplay(j))
    <3>1. jobs[j].claimed_by = NoWorker
      BY <2>1, <2>5
         DEF CreateReplay, RecoverReplay, CanAdd, CanRecover, RowOK, RowContract, Leased,
             LeasedStatus
    <3>2. jobs'[j] = Add(jobs[j]) \/ jobs'[j] = Recover(jobs[j])
      BY <2>5 DEF CreateReplay, RecoverReplay, IInv, TypeOK
    <3>. QED  BY <2>1, <2>5, <3>1, <3>2, RowEffects DEF Held, Unowned
  <2>. QED  BY <1>1, <2>2, <2>3, <2>4, <2>5 DEF Operator
<1>2. ASSUME NEW w \in Workers, Start(w)
      PROVE  Held(j)
  <2>1. jobs'[j] = Reconcile(jobs[j]) /\ jobs[j] \in RuntimeJob
    BY <1>2 DEF Start, IInv, RowOK
  <2>2. CASE CanReconcile(jobs[j])
    BY <1>2, <2>1, <2>2, RowEffects DEF Reconcile, CanReconcile, Held, Reconciled
  <2>3. CASE ~CanReconcile(jobs[j])
    BY <2>1, <2>3 DEF Reconcile, Held
  <2>. QED  BY <2>2, <2>3
<1>3. ASSUME NEW w \in Workers, Turn(w)
      PROVE  Held(j)
  BY <1>3, ClaimStep, HolderStep DEF Held
<1>4. ASSUME NEW w \in Workers, Fault(w), ~SamplerFails(w)
      PROVE  Held(j)
  <2>1. CASE jobs' = jobs
    BY <2>1 DEF Held
  <2>2. CASE PipelineError(w) /\ jobs' # jobs
    <3>1. /\ Write(w, Observe(JobOf(w), proc[w].seen)) /\ Owned(JobOf(w), w)
          /\ proc[w].pc \in {"loop", "captured", "batch", "correlate", "final"}
      BY <2>2 DEF PipelineError, CanObserve
    <3>2. /\ proc[w].job \in Jobs /\ JobOf(w) \in RuntimeJob
          /\ proc[w].seen \in 0..Packets
      BY <3>1, RowOfProcess DEF RowOK
    <3>3. CASE j # proc[w].job
      BY <3>1, <3>2, <3>3, WrittenRow DEF Held
    <3>4. CASE j = proc[w].job
      <4>1. jobs'[j] = Observe(jobs[j], proc[w].seen) /\ JobOf(w) = jobs[j] /\ Drives(w, j)
        BY <3>1, <3>2, <3>4, WrittenRow DEF JobOf, Drives, Driving
      <4>. QED  BY <3>1, <3>2, <4>1, RowEffects DEF Held, Renewed, Owned
    <3>. QED  BY <3>3, <3>4
  <2>. QED
    BY <1>4, <2>1, <2>2
       DEF Fault, PollError, DatabaseError, PipelineError, RecordLost, Crash, Signal
<1>5. CASE Tick
  BY <1>5 DEF Tick, Held, Aged
<1>6. CASE UNCHANGED vars
  BY <1>6 DEF vars, Held
<1>. QED  BY <1>1, <1>2, <1>3, <1>4, <1>5, <1>6, ThreadsTakeTurns DEF Next

-----------------------------------------------------------------------------
(* What one step does to the processes and to the worker rows *)

\* The assignments a control point makes leave the claim alone.
LEMMA SameClaim ==
    ASSUME proc \in [Workers -> Process], NEW w \in Workers, NEW pc, NEW flag,
           \/ proc' = [proc EXCEPT ![w].pc = pc]
           \/ proc' = [proc EXCEPT ![w].beat = 0]
           \/ proc' = [proc EXCEPT ![w].pc = pc, ![w].beat = 0]
           \/ proc' = [proc EXCEPT ![w].pc = pc, ![w].beat = @]
           \/ proc' = [proc EXCEPT ![w].pc = pc, ![w].again = flag]
    PROVE  /\ proc'[w].job = proc[w].job /\ proc'[w].attempt = proc[w].attempt
           /\ proc'[w].seen = proc[w].seen
BY DEF Process

\* A process keeps the attempt it claimed and forgets no packet it read.
LEMMA KnowsStep ==
    ASSUME IInv, [Next]_vars, NEW w \in Workers, NEW j \in Jobs, Knows(w, j)'
    PROVE  \/ Claimed(w, j)
           \/ /\ Knows(w, j) /\ proc'[w].attempt = proc[w].attempt
              /\ proc[w].seen <= proc'[w].seen
<1> DEFINE Good == \/ Claimed(w, j)
                   \/ /\ Knows(w, j) /\ proc'[w].attempt = proc[w].attempt
                      /\ proc[w].seen <= proc'[w].seen
<1>0. proc[w].seen \in Int /\ proc \in [Workers -> Process]
  BY DEF IInv, TypeOK, Process
<1>1. CASE proc'[w] = proc[w]
  BY <1>0, <1>1 DEF Knows
<1>2. ASSUME NEW v \in Workers, Start(v)
      PROVE  Good
  BY <1>0, <1>2 DEF Start, Knows, Resting, NoProcess
<1>3. ASSUME NEW v \in Workers, Turn(v), proc'[w] # proc[w]
      PROVE  Good
  <2>1. v = w
    BY <1>0, <1>3
       DEF Turn, PollEmpty, ClaimJob, PreflightOk, Capture, EndOfCapture, NoBatch,
           ObserveBatch, PersistBatch, Correlate, Controlled, ControlTurn, Waited,
           PausedTurn, StopSeen, Finish, Sampled, SampleTurn, RecordFailure,
           RecordInterrupt, Release, LeaveLoop, Exit, Refused, CaughtError, Goto
  <2>2. CASE ClaimJob(w)
    <3>1. PICK i \in Jobs :
            proc' = [proc EXCEPT ![w] =
                      [NoProcess EXCEPT !.pc = "preflight", !.job = i,
                         !.attempt = StartAttempt(Claim(jobs[i], w), w).current_attempt]]
            /\ CanClaim(jobs[i]) /\ jobs' = [jobs EXCEPT ![i] = StartAttempt(Claim(jobs[i], w), w)]
      BY <2>2 DEF ClaimJob, Queued
    <3>2. i = j
      BY <1>0, <3>1 DEF Knows, NoProcess
    <3>3. jobs'[j] # jobs[j]
      <4>1. jobs[j] \in RuntimeJob /\ jobs'[j] = StartAttempt(Claim(jobs[j], w), w)
        BY <3>1, <3>2 DEF IInv, TypeOK
      <4>2. jobs'[j].status = "validating"
        BY <4>1 DEF StartAttempt, Claim, RuntimeJob
      <4>. QED  BY <3>1, <3>2, <4>2 DEF CanClaim
    <3>. QED  BY <2>2, <3>3, ClaimStep
  <2>3. CASE Release(w) \/ Exit(w) \/ LeaveLoop(w) \/ PollEmpty(w)
    <3>1. proc'[w].pc \in Resting \/ proc'[w] = proc[w]
      BY <1>0, <2>3
         DEF Release, Exit, LeaveLoop, PollEmpty, Goto, Resting, NoProcess, Process
    <3>. QED  BY <1>1, <3>1 DEF Knows
  <2>4. CASE Capture(w)
    BY <1>0, <2>4 DEF Capture, Knows, Resting, Process
  <2>5. CASE \/ PreflightOk(w) \/ EndOfCapture(w) \/ NoBatch(w) \/ ObserveBatch(w)
             \/ PersistBatch(w) \/ Correlate(w) \/ Controlled(w) \/ Waited(w) \/ StopSeen(w)
             \/ Finish(w) \/ Sampled(w) \/ RecordFailure(w) \/ RecordInterrupt(w)
    <3>1. proc[w].pc \notin Resting
      BY <2>5
         DEF PreflightOk, EndOfCapture, NoBatch, ObserveBatch, PersistBatch, Correlate,
             Controlled, ControlTurn, ControlPoint, Waited, PausedTurn, StopSeen, Finish,
             Sampled, SampleTurn, RecordFailure, RecordInterrupt, Resting
    <3>2. /\ proc'[w].job = proc[w].job /\ proc'[w].attempt = proc[w].attempt
          /\ proc'[w].seen = proc[w].seen
      <4>1. CASE Controlled(w)
        <5>1. CASE \E pc : proc' = [proc EXCEPT ![w].pc = pc, ![w].beat = 0]
          BY <1>0, <5>1, SameClaim
        <5>2. CASE \E pc : proc' = [proc EXCEPT ![w].pc = pc, ![w].beat = @]
          BY <1>0, <5>2, SameClaim
        <5>3. CASE \E pc : Goto(w, pc)
          BY <1>0, <5>3, SameClaim DEF Goto
        <5>4. CASE CaughtError(w, FALSE)
          BY <1>0, <5>4, SameClaim DEF CaughtError
        <5>. QED  BY <4>1, <5>1, <5>2, <5>3, <5>4, ControlMoves
      <4>2. CASE Waited(w)
        <5>1. \/ proc' = [proc EXCEPT ![w].beat = 0] \/ UNCHANGED proc
              \/ Goto(w, "loop") \/ CaughtError(w, FALSE)
          BY <4>2 DEF Waited, PausedTurn, Refused
        <5>. QED  BY <1>0, <5>1, SameClaim DEF CaughtError, Goto
      <4>3. CASE Sampled(w)
        BY <1>0, <4>3 DEF Sampled, SampleTurn, Goto, Process
      <4>4. CASE ~(Controlled(w) \/ Waited(w) \/ Sampled(w))
        BY <1>0, <2>5, <4>4
           DEF PreflightOk, EndOfCapture, NoBatch, ObserveBatch, PersistBatch, Correlate,
               StopSeen, Finish, RecordFailure, RecordInterrupt, Refused, CaughtError, Goto,
               Process
      <4>. QED  BY <4>1, <4>2, <4>3, <4>4
    <3>. QED  BY <1>0, <3>1, <3>2 DEF Knows
  <2>. QED  BY <1>3, <2>1, <2>2, <2>3, <2>4, <2>5 DEF Turn
<1>4. ASSUME NEW v \in Workers, Fault(v), ~SamplerFails(v), proc'[w] # proc[w]
      PROVE  Good
  <2>1. CASE PollError(v) \/ Crash(v)
    BY <1>0, <1>4, <2>1 DEF PollError, Crash, Goto, Knows, Resting, NoProcess, Process
  <2>2. CASE DatabaseError(v) \/ PipelineError(v) \/ RecordLost(v)
    <3>1. v = w /\ proc[w].pc \notin Resting
      BY <1>0, <1>4, <2>2 DEF DatabaseError, PipelineError, RecordLost, CaughtError, Resting
    <3>2. /\ proc'[w].job = proc[w].job /\ proc'[w].attempt = proc[w].attempt
          /\ proc'[w].seen = proc[w].seen
      BY <1>0, <2>2, <3>1 DEF DatabaseError, PipelineError, RecordLost, CaughtError, Process
    <3>. QED  BY <1>0, <3>1, <3>2 DEF Knows
  <2>. QED  BY <1>4, <2>1, <2>2 DEF Fault, Signal
<1>5. CASE Tick
  <2>1. \/ proc'[w] = proc[w]
        \/ proc'[w] = [proc[w] EXCEPT !.beat = Older(proc[w].beat, HeartbeatTicks)]
    BY <1>5 DEF Tick
  <2>2. /\ proc'[w].job = proc[w].job /\ proc'[w].attempt = proc[w].attempt
        /\ proc'[w].seen = proc[w].seen /\ proc'[w].pc = proc[w].pc
    BY <1>0, <2>1 DEF Process
  <2>. QED  BY <1>0, <2>2 DEF Knows
<1>. QED
  BY <1>1, <1>2, <1>3, <1>4, <1>5, ThreadsTakeTurns
     DEF Next, vars, Operator, CreateReplay, Pause, ResumeReplay, RecoverReplay

\* A heartbeat only gets older with time, and only start calls a worker failed.
LEMMA WorkerStep ==
    ASSUME IInv, [Next]_vars, NEW w \in Workers
    PROVE  /\ \/ Tick /\ workers'[w].age \in {0, workers[w].age, workers[w].age + 1}
              \/ workers'[w].age \in {0, workers[w].age}
           /\ workers'[w].status = "failed" =>
                \/ workers[w].status = "failed"
                \/ (\E v \in Workers : Start(v)) /\ StaleWorker(workers[w])
<1> DEFINE Aging == workers'[w].age \in {0, workers[w].age}
           Failing == workers'[w].status = "failed" =>
                        \/ workers[w].status = "failed"
                        \/ (\E v \in Workers : Start(v)) /\ StaleWorker(workers[w])
<1>0. workers \in [Workers -> WorkerRow]
  BY DEF IInv, TypeOK
<1>1. CASE UNCHANGED workers
  BY <1>1
<1>2. ASSUME NEW v \in Workers, Start(v)
      PROVE  Aging /\ Failing
  BY <1>0, <1>2 DEF Start, FreshWorker, WorkerRow
<1>3. ASSUME NEW v \in Workers, \/ \E beats, broken \in BOOLEAN : Monitor(v, beats, broken)
                                \/ \E s \in WorkerStatus \ {"failed"} : Upsert(v, s)
      PROVE  Aging /\ Failing
  <2>1. CASE w = v
    <3>1. \A beats, broken \in BOOLEAN :
            /\ Monitored(workers[w], beats, broken).age \in {0, workers[w].age}
            /\ Monitored(workers[w], beats, broken).status \in {"degraded", workers[w].status}
      BY <1>0 DEF Monitored, WorkerRow
    <3>2. CASE \E beats, broken \in BOOLEAN : Monitor(v, beats, broken)
      BY <1>0, <2>1, <3>1, <3>2 DEF Monitor
    <3>3. CASE \E s \in WorkerStatus \ {"failed"} : Upsert(v, s)
      BY <1>0, <2>1, <3>3 DEF Upsert, WorkerRow
    <3>. QED  BY <1>3, <3>2, <3>3
  <2>2. CASE w # v
    BY <1>0, <1>3, <2>2 DEF Monitor, Upsert
  <2>. QED  BY <2>1, <2>2
<1>4. ASSUME NEW v \in Workers, Turn(v), workers' # workers
      PROVE  \/ \E beats, broken \in BOOLEAN : Monitor(v, beats, broken)
             \/ \E s \in WorkerStatus \ {"failed"} : Upsert(v, s)
  BY <1>4
     DEF Turn, PollEmpty, ClaimJob, PreflightOk, Capture, EndOfCapture, NoBatch,
         ObserveBatch, PersistBatch, Correlate, Controlled, ControlTurn, Waited, PausedTurn,
         StopSeen, Finish, Sampled, SampleTurn, RecordFailure, RecordInterrupt, Release,
         LeaveLoop, Exit, Refused, HeartbeatDue, WorkerStatus
<1>5. CASE Tick
  BY <1>0, <1>5 DEF Tick, Older, WorkerRow
<1>. QED
  BY <1>1, <1>2, <1>3, <1>4, <1>5, ThreadsTakeTurns
     DEF Next, vars, Operator, CreateReplay, Pause, ResumeReplay, RecoverReplay, Fault,
         PollError, DatabaseError, PipelineError, RecordLost, Crash, Signal

-----------------------------------------------------------------------------
(* The lease invariants are inductive *)

LEMMA FenceStep ==
    ASSUME IInv, [Next]_vars, Fence
    PROVE  Fence'
<1> SUFFICES ASSUME NEW w \in Workers, NEW j \in Jobs, Knows(w, j)', Owned(jobs'[j], w)
             PROVE  /\ jobs'[j].current_attempt = proc'[w].attempt
                    /\ jobs'[j].observed <= proc'[w].seen
  BY DEF Fence
<1>0. /\ proc[w].seen \in Nat /\ proc'[w].seen \in Nat
      /\ jobs[j] \in RuntimeJob /\ jobs'[j] \in RuntimeJob
  BY InvStep DEF IInv, TypeOK, Process
<1>1. CASE Claimed(w, j)
  BY <1>0, <1>1 DEF Claimed
<1>2. CASE ~Claimed(w, j)
  <2>1. /\ Knows(w, j) /\ proc'[w].attempt = proc[w].attempt
        /\ proc[w].seen <= proc'[w].seen
    BY <1>2, KnowsStep
  <2>2. /\ Owned(jobs[j], w)
        /\ jobs'[j].current_attempt = jobs[j].current_attempt
        /\ jobs'[j].observed \in {jobs[j].observed, proc[w].seen}
    <3>1. CASE jobs'[j] = jobs[j] \/ Switched(j)
      BY <3>1 DEF Switched, SameHold, Owned
    <3>2. CASE Unowned(j) \/ Reconciled(j)
      BY <3>2, WorkerAssumption DEF Unowned, Reconciled, Owned
    <3>3. CASE Aged(j)
      BY <1>0, <3>3 DEF Aged, Age, Owned, RuntimeJob
    <3>4. ASSUME NEW v \in Workers, Claimed(v, j) \/ Renewed(v, j) \/ Released(v, j)
          PROVE  /\ Owned(jobs[j], w)
                 /\ jobs'[j].current_attempt = jobs[j].current_attempt
                 /\ jobs'[j].observed \in {jobs[j].observed, proc[w].seen}
      BY <1>2, <3>4, WorkerAssumption DEF Claimed, Renewed, Released, Owned
    <3>. QED  BY <3>1, <3>2, <3>3, <3>4, LeaseStep DEF Held
  <2>3. jobs[j].current_attempt = proc[w].attempt /\ jobs[j].observed <= proc[w].seen
    BY <2>1, <2>2 DEF Fence
  <2>4. jobs[j].observed \in Int
    BY <1>0 DEF RuntimeJob
  <2>. QED  BY <1>0, <2>1, <2>2, <2>3, <2>4
<1>. QED  BY <1>1, <1>2

LEMMA ClocksStep ==
    ASSUME IInv, [Next]_vars, Clocks
    PROVE  Clocks'
<1> SUFFICES ASSUME NEW w \in Workers, NEW j \in Jobs, Owned(jobs'[j], w),
                    jobs'[j].lease >= 0
             PROVE  jobs'[j].lease + workers'[w].age <= LeaseTicks
  BY DEF Clocks
<1>0. /\ jobs[j] \in RuntimeJob /\ jobs[j].lease \in Int /\ jobs'[j].lease \in Int
      /\ workers[w].age \in Nat /\ workers'[w].age \in Nat /\ LeaseTicks \in Nat
  <2>1. jobs[j] \in RuntimeJob /\ jobs'[j] \in RuntimeJob
    BY InvStep DEF IInv, TypeOK
  <2>2. workers[w] \in WorkerRow /\ workers'[w] \in WorkerRow
    BY InvStep DEF IInv, TypeOK
  <2>3. \A r \in RuntimeJob : r.lease \in Int
    BY DEF RuntimeJob
  <2>4. \A r \in WorkerRow : r.age \in Nat
    BY DEF WorkerRow
  <2>. QED  BY <2>1, <2>2, <2>3, <2>4, BoundAssumption
<1>1. CASE Tick
  <2>1. jobs'[j] = Age(jobs[j])
    BY <1>1 DEF Tick
  <2>2. Owned(jobs[j], w) /\ jobs[j].lease >= 0 /\ jobs'[j].lease = jobs[j].lease - 1
    BY <1>0, <2>1 DEF Age, Owned, RuntimeJob
  <2>3. workers'[w].age \in {0, workers[w].age, workers[w].age + 1}
    BY WorkerStep
  <2>. QED  BY <1>0, <2>2, <2>3 DEF Clocks
<1>2. CASE ~Tick
  <2>1. workers'[w].age \in {0, workers[w].age}
    BY <1>2, WorkerStep
  <2>2. \/ Owned(jobs[j], w) /\ jobs'[j].lease = jobs[j].lease
        \/ jobs'[j].lease = LeaseTicks /\ workers'[w].age = 0
    <3>1. CASE jobs'[j] = jobs[j] \/ Switched(j)
      BY <3>1 DEF Switched, SameHold, Owned
    <3>2. CASE Unowned(j) \/ Reconciled(j) \/ Aged(j)
      BY <1>2, <3>2, WorkerAssumption DEF Unowned, Reconciled, Aged, Owned
    <3>3. ASSUME NEW v \in Workers, Claimed(v, j) \/ Renewed(v, j) \/ Released(v, j)
          PROVE  \/ Owned(jobs[j], w) /\ jobs'[j].lease = jobs[j].lease
                 \/ jobs'[j].lease = LeaseTicks /\ workers'[w].age = 0
      BY <3>3, WorkerAssumption DEF Claimed, Renewed, Released, Owned
    <3>. QED  BY <3>1, <3>2, <3>3, LeaseStep DEF Held
  <2>. QED  BY <1>0, <2>1, <2>2 DEF Clocks
<1>. QED  BY <1>1, <1>2

LEMMA FailedStep ==
    ASSUME IInv, [Next]_vars, Clocks, FailedHoldsNothing
    PROVE  FailedHoldsNothing'
<1> SUFFICES ASSUME NEW w \in Workers, NEW j \in Jobs, workers'[w].status = "failed",
                    Owned(jobs'[j], w)
             PROVE  FALSE
  BY DEF FailedHoldsNothing, Owned
<1>0. jobs[j] \in RuntimeJob /\ RowOK(jobs[j])
  BY DEF IInv, RowOK
<1>1. Owned(jobs[j], w)
  <2>1. CASE jobs'[j] = jobs[j] \/ Switched(j)
    BY <2>1 DEF Switched, SameHold, Owned
  <2>2. CASE Unowned(j) \/ Reconciled(j)
    BY <2>2, WorkerAssumption DEF Unowned, Reconciled, Owned
  <2>3. CASE Aged(j)
    BY <1>0, <2>3 DEF Aged, Age, Owned, RuntimeJob
  <2>4. ASSUME NEW v \in Workers, Claimed(v, j) \/ Renewed(v, j) \/ Released(v, j)
        PROVE  Owned(jobs[j], w)
    BY <2>4, WorkerAssumption DEF Claimed, Renewed, Released, Owned
  <2>. QED  BY <2>1, <2>2, <2>3, <2>4, LeaseStep DEF Held
<1>2. PICK v \in Workers : Start(v) /\ StaleWorker(workers[w])
  BY <1>1, WorkerStep DEF FailedHoldsNothing, Owned
<1>3. workers[w].age \in Nat /\ workers[w].age > StaleTicks /\ jobs[j].lease \in Int
  BY <1>0, <1>2 DEF StaleWorker, IInv, TypeOK, WorkerRow, RuntimeJob
<1>4. ~(jobs[j].lease >= 0)
  BY <1>1, <1>3, TimingAssumption, BoundAssumption DEF Clocks
<1>5. jobs[j].lease = Expired /\ Leased(jobs[j])
  BY <1>0, <1>1, <1>3, <1>4, OwnedIsLeased
     DEF RowOK, RowContract, RuntimeJob, Expired, NoLease
<1>6. jobs'[j] = Interrupt(jobs[j])
  BY <1>2, <1>5 DEF Start, Reconcile, CanReconcile, LeaseExpired
<1>. QED  BY <1>0, <1>6, RowEffects, WorkerAssumption DEF Owned

\* The statuses OwnerInStep allows at a point of the process.
InStep(pc) ==
    CASE pc = "preflight" -> {"validating"}
      [] pc = "paused" -> {"running", "pause_requested", "paused"}
      [] pc \in {"failing", "interrupt"} -> LeasedStatus
      [] OTHER -> {"running", "pause_requested"}

LEMMA OwnerInStepMeans ==
    OwnerInStep <=>
        \A w \in Workers, j \in Jobs :
            Drives(w, j) /\ Owned(jobs[j], w) => jobs[j].status \in InStep(proc[w].pc)
BY DEF OwnerInStep, InStep, Leased

\* A step of the process itself leaves it at a point that suits its job.
LEMMA OwnStepInStep ==
    ASSUME IInv, OwnerInStep, NEW w \in Workers, Turn(w), ~ClaimJob(w), NEW j \in Jobs,
           IInv', Drives(w, j)', Owned(jobs'[j], w), Drives(w, j), Owned(jobs[j], w)
    PROVE  jobs'[j].status \in InStep(proc'[w].pc)
<1> DEFINE Good == jobs'[j].status \in InStep(proc'[w].pc)
<1>0. /\ proc[w].pc \in Driving /\ proc[w].job = j /\ proc[w].seen \in 0..Packets
      /\ JobOf(w) = jobs[j] /\ jobs[j] \in RuntimeJob
      /\ jobs[j].status \in InStep(proc[w].pc) /\ proc'[w].pc \in Driving
      /\ jobs'[j].status \in LeasedStatus /\ proc \in [Workers -> Process]
  <2>1. jobs'[j].status \in LeasedStatus
    BY OwnedIsLeased DEF IInv, RowOK, RowContract, Owned, Leased, LeasedStatus
  <2>. QED  BY <2>1, OwnerInStepMeans DEF Drives, IInv, TypeOK, Process, JobOf
<1>1. ASSUME NEW row, Write(w, row)
      PROVE  jobs'[j] = row
  BY <1>0, <1>1 DEF Write, IInv, TypeOK
<1>2. CASE proc'[w].pc \in {"failing", "interrupt"}
  BY <1>0, <1>2 DEF InStep
<1>3. CASE proc'[w].pc \notin {"failing", "interrupt"}
  <2>1. CASE PreflightOk(w)
    <3>1. proc'[w].pc = "started" /\ jobs'[j] = MarkRunning(jobs[j])
      BY <1>0, <1>1, <1>3, <2>1 DEF PreflightOk, Refused, CaughtError, Goto, Process
    <3>. QED  BY <1>0, <3>1, RowEffects DEF InStep
  <2>2. CASE Capture(w) \/ EndOfCapture(w) \/ NoBatch(w) \/ PersistBatch(w) \/ Correlate(w)
    <3>1. jobs'[j] = jobs[j] /\ proc'[w].pc \in {"captured", "correlate", "final", "check"}
      BY <1>0, <1>3, <2>2
         DEF Capture, EndOfCapture, NoBatch, PersistBatch, Correlate, AfterBatch, Refused,
             CaughtError, Goto, Process
    <3>2. proc[w].pc \in {"loop", "captured", "batch", "correlate"}
      BY <2>2 DEF Capture, EndOfCapture, NoBatch, PersistBatch, Correlate
    <3>. QED  BY <1>0, <3>1, <3>2 DEF InStep
  <2>3. CASE ObserveBatch(w)
    <3>1. /\ proc'[w].pc = "batch" /\ jobs'[j] = Observe(jobs[j], proc[w].seen)
          /\ proc[w].pc = "captured"
      BY <1>0, <1>1, <1>3, <2>3 DEF ObserveBatch, Refused, CaughtError, Goto, Process
    <3>. QED  BY <1>0, <3>1, RowEffects DEF InStep
  <2>4. CASE Controlled(w)
    <3> DEFINE due == HeartbeatDue(w)
               observed == Observe(jobs[j], proc[w].seen)
               paused == IF jobs[j].status = "pause_requested" THEN MarkPaused(observed)
                         ELSE observed
    <3>1. /\ proc[w].pc \in {"check", "loop"}
          /\ jobs[j].status \in {"running", "pause_requested"}
      BY <1>0, <2>4 DEF Controlled, ControlTurn, ControlPoint, InStep
    <3>2. \/ /\ CanObserve(jobs[j], w, proc[w].seen)
             /\ Write(w, IF due THEN Heartbeat(paused) ELSE paused)
             /\ proc' = [proc EXCEPT ![w].pc = PointAfter(paused.status),
                                     ![w].beat = IF due THEN 0 ELSE @]
          \/ /\ jobs[j].status \in {"running", "paused"} /\ jobs[j].status # "pause_requested"
             /\ Goto(w, PointAfter(jobs[j].status)) /\ jobs' = jobs
          \/ Refused(w)
      BY <1>0, <2>4 DEF Controlled, ControlTurn
    <3>3. CASE Refused(w)
      BY <1>0, <1>3, <3>3 DEF Refused, CaughtError, Process
    <3>4. CASE /\ jobs[j].status \in {"running", "paused"} /\ jobs[j].status # "pause_requested"
               /\ Goto(w, PointAfter(jobs[j].status)) /\ jobs' = jobs
      <4>1. jobs'[j].status = "running" /\ proc'[w].pc = "loop"
        BY <1>0, <3>1, <3>4 DEF Goto, PointAfter, Process
      <4>. QED  BY <4>1 DEF InStep
    <3>5. CASE /\ CanObserve(jobs[j], w, proc[w].seen)
               /\ Write(w, IF due THEN Heartbeat(paused) ELSE paused)
               /\ proc' = [proc EXCEPT ![w].pc = PointAfter(paused.status),
                                       ![w].beat = IF due THEN 0 ELSE @]
      <4>1. observed \in RuntimeJob /\ observed.status = jobs[j].status
        BY <1>0, <3>5, ObserveFollows, RowEffects DEF IInv, Follows, RowOK
      <4>2. /\ paused.status = IF jobs[j].status = "pause_requested" THEN "paused" ELSE "running"
            /\ jobs[j].status = "pause_requested" => paused = MarkPaused(observed)
            /\ jobs[j].status # "pause_requested" => paused = observed
        BY <3>1, <4>1, RowEffects
      <4>3. paused \in RuntimeJob
        <5>1. CASE jobs[j].status = "pause_requested"
          <6>1. RowOK(observed) /\ CanMarkPaused(observed, w)
            BY <1>0, <3>5, <4>1, <5>1, ObserveFollows, RowEffects
               DEF IInv, Follows, CanMarkPaused, Owned
          <6>. QED  BY <4>2, <5>1, <6>1, MarkPausedFollows DEF Follows, RowOK
        <5>. QED  BY <4>1, <4>2, <5>1
      <4> HIDE DEF observed, paused
      <4>4. jobs'[j].status = paused.status
        BY <1>1, <3>5, <4>3, RowEffects
      <4>5. proc'[w].pc = PointAfter(paused.status)
        BY <1>0, <3>5 DEF Process
      <4>. QED  BY <3>1, <4>2, <4>4, <4>5 DEF PointAfter, InStep
    <3>. QED  BY <3>2, <3>3, <3>4, <3>5
  <2>5. CASE Waited(w)
    <3>1. CASE Refused(w)
      BY <1>0, <1>3, <3>1 DEF Refused, CaughtError, Process
    <3>2. CASE jobs[j].status = "running" /\ Goto(w, "loop") /\ jobs' = jobs
      <4>1. proc'[w].pc = "loop"
        BY <1>0, <3>2 DEF Goto, Process
      <4>. QED  BY <3>2, <4>1 DEF InStep
    <3>3. CASE Write(w, Heartbeat(jobs[j])) /\ proc'[w].pc = proc[w].pc
      BY <1>0, <1>1, <3>3, RowEffects
    <3>. QED  BY <1>0, <2>5, <3>1, <3>2, <3>3 DEF Waited, PausedTurn, Process
  <2>6. CASE \/ StopSeen(w) \/ Finish(w) \/ RecordFailure(w) \/ RecordInterrupt(w)
             \/ Release(w) \/ LeaveLoop(w) \/ Exit(w)
    <3>1. proc'[w].pc \in {"failing", "interrupt", "sample", "release", "idle", "exit", "off"}
      BY <1>0, <2>6
         DEF StopSeen, Finish, RecordFailure, RecordInterrupt, Release, LeaveLoop, Exit,
             Refused, CaughtError, Goto, Process, NoProcess
    <3>. QED  BY <1>0, <1>3, <3>1 DEF Driving
  <2>7. CASE PollEmpty(w)
    BY <1>0, <2>7 DEF PollEmpty, Driving
  <2>8. CASE Sampled(w)
    <3>1. /\ proc[w].pc = "started" /\ proc'[w].pc = "loop" /\ jobs' = jobs
      BY <1>0, <2>8 DEF Sampled, SampleTurn, Goto, Driving, Process
    <3>. QED  BY <1>0, <3>1 DEF InStep
  <2>. QED  BY <2>1, <2>2, <2>3, <2>4, <2>5, <2>6, <2>7, <2>8 DEF Turn
<1>. QED  BY <1>2, <1>3

LEMMA OwnerStep ==
    ASSUME IInv, [Next]_vars, Fence, OwnerInStep
    PROVE  OwnerInStep'
<1>0. OwnerInStep' <=>
        \A w \in Workers, j \in Jobs :
            Drives(w, j)' /\ Owned(jobs'[j], w) => jobs'[j].status \in InStep(proc'[w].pc)
  BY DEF OwnerInStep, InStep, Leased, Drives, Owned
<1> SUFFICES ASSUME NEW w \in Workers, NEW j \in Jobs, Drives(w, j)', Owned(jobs'[j], w)
             PROVE  jobs'[j].status \in InStep(proc'[w].pc)
  BY <1>0
<1>1. /\ IInv' /\ jobs[j] \in RuntimeJob /\ RowOK(jobs[j])
      /\ jobs'[j].status \in LeasedStatus /\ proc \in [Workers -> Process]
  <2>1. IInv' /\ RowOK(jobs'[j])
    BY InvStep DEF IInv
  <2>2. jobs'[j].status \in LeasedStatus
    BY <2>1, OwnedIsLeased DEF Leased
  <2>. QED  BY <2>1, <2>2 DEF IInv, TypeOK, RowOK
<1>2. CASE Claimed(w, j)
  BY <1>2 DEF Claimed, InStep
<1>3. CASE ~Claimed(w, j)
  <2>1. Knows(w, j)' => Knows(w, j)
    BY <1>3, KnowsStep
  <2>2. Owned(jobs[j], w)
    <3>1. CASE jobs'[j] = jobs[j] \/ Switched(j)
      BY <3>1 DEF Switched, SameHold, Owned
    <3>2. CASE Unowned(j) \/ Reconciled(j)
      BY <3>2, WorkerAssumption DEF Unowned, Reconciled, Owned
    <3>3. CASE Aged(j)
      BY <1>1, <3>3 DEF Aged, Age, Owned, RuntimeJob
    <3>4. ASSUME NEW v \in Workers, Claimed(v, j) \/ Renewed(v, j) \/ Released(v, j)
          PROVE  Owned(jobs[j], w)
      BY <1>3, <3>4, WorkerAssumption DEF Claimed, Renewed, Released, Owned
    <3>. QED  BY <3>1, <3>2, <3>3, <3>4, LeaseStep DEF Held
  <2>3. CASE proc'[w].pc \in {"failing", "interrupt"}
    BY <1>1, <2>3 DEF InStep
  <2>4. CASE jobs'[j] = jobs[j] /\ proc'[w].pc = proc[w].pc /\ proc'[w].job = proc[w].job
    BY <2>2, <2>4, OwnerInStepMeans DEF Drives
  <2>5. ASSUME NEW i \in Jobs, Operator(i)
        PROVE  jobs'[j].status \in InStep(proc'[w].pc)
    <3>1. proc' = proc /\ Drives(w, j)
      BY <2>5 DEF Operator, CreateReplay, Pause, ResumeReplay, RecoverReplay, Drives
    <3>2. jobs[j].status \in InStep(proc[w].pc)
      BY <2>2, <3>1, OwnerInStepMeans
    <3>3. CASE i # j
      BY <2>4, <2>5, <3>1, <3>3
         DEF Operator, CreateReplay, Pause, ResumeReplay, RecoverReplay, IInv, TypeOK
    <3>4. CASE i = j /\ Pause(j)
      <4>1. jobs[j].status = "running" /\ jobs'[j].status = "pause_requested"
        BY <1>1, <3>4, RowEffects DEF Pause, CanRequestPause, IInv, TypeOK
      <4>. QED  BY <1>1, <3>1, <3>2, <4>1 DEF InStep
    <3>5. CASE i = j /\ ResumeReplay(j)
      <4>1. jobs[j].status = "paused" /\ jobs'[j].status = "running"
        BY <1>1, <3>5, RowEffects DEF ResumeReplay, CanResume, IInv, TypeOK
      <4>. QED  BY <1>1, <3>1, <3>2, <4>1 DEF InStep
    <3>6. CASE i = j /\ (CreateReplay(j) \/ RecoverReplay(j))
      <4>1. jobs[j].status \in {"absent", "recovery_pending", "failed"}
        BY <3>6 DEF CreateReplay, RecoverReplay, CanAdd, CanRecover
      <4>. QED  BY <1>1, <2>2, <4>1, OwnedIsLeased DEF Leased, LeasedStatus
    <3>. QED  BY <2>5, <3>3, <3>4, <3>5, <3>6 DEF Operator
  <2>6. ASSUME NEW v \in Workers, Start(v)
        PROVE  jobs'[j].status \in InStep(proc'[w].pc)
    <3>1. v # w
      BY <1>1, <2>6 DEF Start, Drives, Driving, NoProcess
    <3>2. jobs'[j] = jobs[j]
      BY <1>1, <2>6, RowEffects, WorkerAssumption DEF Start, Reconcile, Owned
    <3>. QED  BY <1>1, <2>4, <2>6, <3>1, <3>2 DEF Start
  <2>7. ASSUME NEW v \in Workers, Turn(v), v # w
        PROVE  jobs'[j].status \in InStep(proc'[w].pc)
    <3>1. proc'[w] = proc[w]
      BY <1>1, <2>7
         DEF Turn, PollEmpty, ClaimJob, PreflightOk, Capture, EndOfCapture, NoBatch,
             ObserveBatch, PersistBatch, Correlate, Controlled, ControlTurn, Waited,
             PausedTurn, StopSeen, Finish, Sampled, SampleTurn, RecordFailure,
             RecordInterrupt, Release, LeaveLoop, Exit, Refused, CaughtError, Goto
    <3>2. jobs'[j] = jobs[j]
      BY <2>2, <2>7, ClaimStep, HolderStep, WorkerAssumption
         DEF Claimed, Renewed, Released, Owned
    <3>. QED  BY <2>4, <3>1, <3>2
  <2>8. CASE Turn(w)
    <3>1. ~ClaimJob(w)
      <4>1. CASE ClaimJob(w)
        <5>1. jobs'[j] # jobs[j] \/ proc'[w].job # j
          BY <1>1, <2>2, <4>1, OwnedIsLeased
             DEF ClaimJob, Queued, CanClaim, IInv, TypeOK, NoProcess, Leased, LeasedStatus
        <5>. QED  BY <1>3, <4>1, <5>1, ClaimStep DEF Drives
      <4>. QED  BY <4>1
    <3>2. Drives(w, j)
      <4>1. Knows(w, j)
        BY <2>1 DEF Drives, Knows, Driving, Resting
      <4>2. CASE proc[w].pc \in {"sample", "release"}
        <5>1. Sampled(w) \/ Release(w)
          BY <2>8, <3>1, <4>2
             DEF Turn, PollEmpty, PreflightOk, Capture, EndOfCapture, NoBatch, ObserveBatch,
                 PersistBatch, Correlate, Controlled, ControlTurn, Waited, PausedTurn,
                 StopSeen, Finish, RecordFailure, RecordInterrupt, LeaveLoop, Exit,
                 ControlPoint
        <5>2. proc'[w].pc \in {"release", "exit", "idle"}
          BY <1>1, <4>2, <5>1 DEF Sampled, SampleTurn, Release, Goto, NoProcess, Process
        <5>. QED  BY <5>2 DEF Drives, Driving
      <4>3. proc[w].pc \in Point
        BY <1>1 DEF Process
      <4>. QED  BY <4>1, <4>2, <4>3 DEF Knows, Resting, Drives, Driving, Point
    <3>. QED  BY <1>1, <2>2, <2>8, <3>1, <3>2, OwnStepInStep
  <2>9. ASSUME NEW v \in Workers, Fault(v), ~SamplerFails(v)
        PROVE  jobs'[j].status \in InStep(proc'[w].pc)
    <3>1. CASE v = w
      <4>1. \/ proc'[w].pc \in {"failing", "release", "exit", "off"}
            \/ UNCHANGED << jobs, proc >>
        BY <1>1, <2>9, <3>1
           DEF Fault, PollError, DatabaseError, PipelineError, RecordLost, Crash, Signal,
               CaughtError, Goto, NoProcess, Process
      <4>. QED  BY <2>3, <2>4, <4>1 DEF Drives, Driving
    <3>2. CASE v # w
      <4>1. proc'[w] = proc[w]
        BY <1>1, <2>9, <3>2
           DEF Fault, PollError, DatabaseError, PipelineError, RecordLost, Crash, Signal,
               CaughtError, Goto
      <4>2. jobs'[j] = jobs[j]
        <5>1. CASE jobs' # jobs
          <6>1. /\ proc[v].pc \notin {"off", "idle", "exit"} /\ Owned(JobOf(v), v)
                /\ Write(v, Observe(JobOf(v), proc[v].seen))
            BY <2>9, <5>1
               DEF Fault, PollError, DatabaseError, PipelineError, RecordLost, Crash,
                   Signal, CanObserve
          <6>2. proc[v].job \in Jobs /\ proc[v].job # j
            BY <2>2, <3>2, <6>1, RowOfProcess DEF JobOf, Owned
          <6>. QED  BY <6>1, <6>2, WrittenRow
        <5>. QED  BY <5>1
      <4>. QED  BY <2>4, <4>1, <4>2
    <3>. QED  BY <3>1, <3>2
  <2>10. CASE Tick
    <3>1. jobs'[j].status = jobs[j].status
      BY <1>1, <2>10 DEF Tick, Age, RuntimeJob
    <3>2. proc'[w].pc = proc[w].pc /\ proc'[w].job = proc[w].job
      BY <1>1, <2>10 DEF Tick, Process
    <3>. QED  BY <2>2, <3>1, <3>2, OwnerInStepMeans DEF Drives
  <2>11. CASE UNCHANGED vars
    BY <2>4, <2>11 DEF vars
  <2>. QED  BY <2>5, <2>6, <2>7, <2>8, <2>9, <2>10, <2>11,
             ThreadsTakeTurns DEF Next
<1>. QED  BY <1>2, <1>3

LEMMA LeaseInvariance ==
    Spec => []LInv
<1>1. Init => LInv
  <2>1. ASSUME Init
        PROVE  LInv
    <3>1. IInv
      BY <2>1, InitOK
    <3>2. \A w \in Workers : proc[w].pc = "off" /\ workers[w].status = "absent"
      BY <2>1 DEF Init, NoProcess, FreshWorker
    <3>3. \A j \in Jobs : jobs[j].claimed_by = NoWorker
      BY <2>1 DEF Init, AbsentJob
    <3>. QED
      BY <3>1, <3>2, <3>3, WorkerAssumption
         DEF LInv, Fence, OwnerInStep, Clocks, FailedHoldsNothing, Knows, Resting, Drives,
             Driving, Owned
  <2>. QED  BY <2>1
<1>2. LInv /\ [Next]_vars => LInv'
  BY InvStep, FenceStep, ClocksStep, FailedStep, OwnerStep DEF LInv
<1>. QED  BY <1>1, <1>2, PTL DEF Spec

-----------------------------------------------------------------------------
\* The worker's name is fence enough: while the row of a job names a worker as
\* its owner, the process of that worker that drives the job is in the very
\* attempt the row is in, and is not behind the progress the row records.
THEOREM WorkersAreFenced ==
    Spec => []Fenced
<1>1. LInv => Fenced
  BY DEF LInv, Fence, Fenced, Drives, Driving, Knows, Resting
<1>. QED  BY <1>1, LeaseInvariance, PTL

\* A process whose job is still its own finds it in a status the next
\* transaction of run_once was written for.
THEOREM OwnersAreInStep ==
    Spec => []OwnerInStep
<1>1. LInv => OwnerInStep
  BY DEF LInv
<1>. QED  BY <1>1, LeaseInvariance, PTL

\* The stale clock of workers and the lease clock of jobs agree: start never
\* shows a worker as failed while a job is still leased to it.
THEOREM FailedWorkersHoldNothing ==
    Spec => []FailedHoldsNothing
<1>1. LInv => FailedHoldsNothing
  BY DEF LInv
<1>. QED  BY <1>1, LeaseInvariance, PTL

\* Nobody but its holder ends a lease that has not run out: neither another
\* worker that starts, nor an operator who recovers, nor a late process.
THEOREM LeasesAreNotStolen ==
    Spec => LeaseNotStolen
<1>1. ASSUME IInv, [Next]_vars, NEW j \in Jobs, NEW w \in Workers,
             jobs[j].claimed_by = w, ~LeaseExpired(jobs[j]), jobs'[j].claimed_by # w
      PROVE  Drives(w, j) /\ proc'[w].pc \in {"sample", "release"}
  <2>1. jobs[j] \in RuntimeJob
    BY <1>1 DEF IInv, TypeOK
  <2>2. CASE jobs'[j] = jobs[j] \/ Switched(j) \/ Unowned(j) \/ Reconciled(j)
    BY <1>1, <2>2, WorkerAssumption DEF Switched, SameHold, Unowned, Reconciled
  <2>3. CASE Aged(j)
    BY <1>1, <2>1, <2>3 DEF Aged, Age, RuntimeJob
  <2>4. ASSUME NEW v \in Workers, Claimed(v, j) \/ Renewed(v, j) \/ Released(v, j)
        PROVE  Drives(w, j) /\ proc'[w].pc \in {"sample", "release"}
    BY <1>1, <2>4, WorkerAssumption DEF Claimed, Renewed, Released, Owned
  <2>. QED  BY <1>1, <2>2, <2>3, <2>4, LeaseStep DEF Held
<1>2. IInv /\ [Next]_vars =>
        [\A j \in Jobs, w \in Workers :
            jobs[j].claimed_by = w /\ ~LeaseExpired(jobs[j])
              /\ jobs'[j].claimed_by # w
            => Drives(w, j) /\ proc'[w].pc \in {"sample", "release"}]_vars
  BY <1>1
<1>. QED  BY <1>2, Invariance, PTL DEF Spec, LeaseNotStolen

\* What a dead process left claimed is never renewed by a later process that
\* took its worker_id, so that it can be reconciled.
THEOREM OrphanLeasesRunOut ==
    Spec => OrphanLeaseRunsOut
<1>1. ASSUME IInv, [Next]_vars, NEW j \in Jobs, NEW w \in Workers,
             jobs[j].claimed_by = w, jobs'[j].claimed_by = w, ~Drives(w, j)
      PROVE  jobs'[j].lease <= jobs[j].lease
  <2>1. jobs[j] \in RuntimeJob /\ jobs[j].lease \in Int
    BY <1>1 DEF IInv, TypeOK, RuntimeJob
  <2>2. CASE jobs'[j] = jobs[j] \/ Switched(j) \/ Unowned(j) \/ Reconciled(j)
    BY <1>1, <2>1, <2>2, WorkerAssumption DEF Switched, SameHold, Unowned, Reconciled
  <2>3. CASE Aged(j)
    BY <1>1, <2>1, <2>3 DEF Aged, Age, RuntimeJob
  <2>4. ASSUME NEW v \in Workers, Claimed(v, j) \/ Renewed(v, j) \/ Released(v, j)
        PROVE  jobs'[j].lease <= jobs[j].lease
    BY <1>1, <2>4, WorkerAssumption DEF Claimed, Renewed, Released, Owned
  <2>. QED  BY <1>1, <2>2, <2>3, <2>4, LeaseStep DEF Held
<1>2. IInv /\ [Next]_vars =>
        [\A j \in Jobs, w \in Workers :
            jobs[j].claimed_by = w /\ jobs'[j].claimed_by = w /\ ~Drives(w, j)
            => jobs'[j].lease <= jobs[j].lease]_vars
  BY <1>1
<1>. QED  BY <1>2, Invariance, PTL DEF Spec, OrphanLeaseRunsOut

-----------------------------------------------------------------------------
(***************************************************************************)
(* RuntimeJobs implements RuntimeLifecycle, for every number of workers,   *)
(* jobs, attempts, packets, ticks and faults: each step of the queue is    *)
(* one step of the lifecycle or leaves what it sees of the rows alone.     *)
(***************************************************************************)

\* What the lifecycle sees of all rows.
Phases == [j \in Jobs |-> Phase(jobs[j])]
Histories == [j \in Jobs |-> History(jobs[j])]

\* What it sees of one attempt.
Seen(a) ==
    [worker |-> a.worker_id,
     outcome |-> IF a.status \in LiveAttempt THEN "open" ELSE a.status]

Alike(r, s) == Phase(s) = Phase(r) /\ History(s) = History(r)

StepAllowed == Lifecycle!Next \/ UNCHANGED << Phases, Histories >>

-----------------------------------------------------------------------------
LEMMA HistoryShape ==
    ASSUME NEW r, RowOK(r)
    PROVE  /\ Len(r.attempts) \in Nat
           /\ History(r) = [n \in 1..Len(r.attempts) |-> Seen(r.attempts[n])]
           /\ Len(History(r)) = Len(r.attempts)
           /\ DOMAIN History(r) = 1..Len(r.attempts)
<1>1. Len(r.attempts) \in Nat
  BY LenProperties DEF RowOK, RuntimeJob
<1>2. History(r) = [n \in 1..Len(r.attempts) |-> Seen(r.attempts[n])]
  BY DEF History, Seen
<1>. QED  BY <1>1, <1>2

LEMMA SameHistory ==
    ASSUME NEW r, NEW s, s.attempts = r.attempts
    PROVE  History(s) = History(r)
BY DEF History

\* The history depends on owners and outcomes of the attempts only.
LEMMA SameOutcomes ==
    ASSUME NEW r, NEW s, RowOK(r), RowOK(s), Len(s.attempts) = Len(r.attempts),
           \A n \in 1..Len(r.attempts) : Seen(s.attempts[n]) = Seen(r.attempts[n])
    PROVE  History(s) = History(r)
BY HistoryShape

\* The phase by the columns it depends on.
LEMMA PhaseByStatus ==
    ASSUME NEW r
    PROVE  /\ r.status = "absent" => Phase(r) = "absent"
           /\ r.status = "queued" => Phase(r) = "waiting"
           /\ r.status = "recovery_pending" => Phase(r) = "stopped"
           /\ r.status = "failed" /\ r.retryable => Phase(r) = "stopped"
BY DEF Phase, LeasedStatus

-----------------------------------------------------------------------------
(* Transitions the lifecycle does not see. *)

LEMMA MarkRunningAlike ==
    ASSUME NEW r, RowOK(r), NEW w \in Workers, CanMarkRunning(r, w)
    PROVE  Alike(r, MarkRunning(r))
BY SameHistory DEF Alike, Phase, CanMarkRunning, MarkRunning, LeasedStatus, RowOK, RuntimeJob

LEMMA HeartbeatAlike ==
    ASSUME NEW r, RowOK(r)
    PROVE  Alike(r, Heartbeat(r))
BY SameHistory DEF Alike, Phase, Heartbeat, RowOK, RuntimeJob

LEMMA RequestPauseAlike ==
    ASSUME NEW r, RowOK(r), CanRequestPause(r)
    PROVE  Alike(r, RequestPause(r))
BY SameHistory DEF Alike, Phase, CanRequestPause, RequestPause, LeasedStatus, RowOK, RuntimeJob

LEMMA AgeAlike ==
    ASSUME NEW r, RowOK(r)
    PROVE  Alike(r, Age(r))
BY SameHistory DEF Alike, Phase, Age, RowOK, RuntimeJob

LEMMA ObserveAlike ==
    ASSUME NEW r, RowOK(r), NEW w \in Workers, NEW n \in 0..Packets, CanObserve(r, w, n)
    PROVE  Alike(r, Observe(r, n))
<1> DEFINE s == Observe(r, n)
           k == r.current_attempt
           e == [r.attempts[k] EXCEPT !.observed = n]
<1>1. Leased(r)
  BY OwnedIsLeased DEF CanObserve
<1>2. k \in 1..Len(r.attempts) /\ r.attempts[k] \in RuntimeAttempt
  BY <1>1, LeasedAttempt
<1>3. s.attempts = [r.attempts EXCEPT ![k] = e]
  BY <1>2 DEF Observe, RowOK, RuntimeJob
<1>4. e \in RuntimeAttempt /\ Seen(e) = Seen(r.attempts[k])
  BY <1>2 DEF RuntimeAttempt, Seen
<1>5. r.attempts \in Seq(RuntimeAttempt)
  BY DEF RowOK, RuntimeJob
<1> HIDE DEF e
<1>6. /\ Len(s.attempts) = Len(r.attempts)
      /\ \A i \in 1..Len(r.attempts) :
            s.attempts[i] = IF i = k THEN e ELSE r.attempts[i]
  BY <1>3, <1>4, <1>5, UpdateOne
<1>7. RowOK(s)
  BY ObserveFollows DEF Follows
<1>8. s.status = r.status /\ s.retryable = r.retryable
  BY DEF Observe, RowOK, RuntimeJob
<1> HIDE DEF s
<1>9. History(s) = History(r)
  BY <1>4, <1>6, <1>7, SameOutcomes
<1>. QED  BY <1>8, <1>9 DEF Alike, Phase, s

\* Pausing and resuming rewrite the open attempt, which stays open.
LEMMA RewrittenAlike ==
    ASSUME NEW r, RowOK(r), Leased(r), NEW b \in RuntimeJob,
           b.attempts = r.attempts, b.current_attempt = r.current_attempt,
           Leased(b), NEW st \in LiveAttempt, RowOK(SetAttempt(b, st))
    PROVE  Alike(r, SetAttempt(b, st))
<1> DEFINE t == SetAttempt(b, st)
           k == r.current_attempt
<1>1. /\ t = [b EXCEPT !.attempts = t.attempts]
      /\ Len(t.attempts) = Len(r.attempts)
      /\ t.attempts[k].status = st /\ t.attempts[k].worker_id = r.claimed_by
      /\ \A n \in 1..Len(r.attempts) : n # k => t.attempts[n] = r.attempts[n]
  BY AttemptRewritten DEF LiveAttempt, RuntimeAttemptStatus
<1>2. /\ r.attempts[k].status \in LiveAttempt
      /\ r.attempts[k].worker_id = r.claimed_by
  BY LeasedAttempt DEF RowOK, AttemptHistory
<1>3. t.status = b.status
  BY <1>1 DEF RuntimeJob
<1> HIDE DEF t
<1>4. \A n \in 1..Len(r.attempts) : Seen(t.attempts[n]) = Seen(r.attempts[n])
  BY <1>1, <1>2 DEF Seen
<1>5. History(t) = History(r)
  BY <1>1, <1>4, SameOutcomes DEF t
<1>6. Phase(t) = "held" /\ Phase(r) = "held"
  BY <1>3 DEF Phase, Leased, LeasedStatus
<1>. QED  BY <1>5, <1>6 DEF Alike, t

LEMMA MarkPausedAlike ==
    ASSUME NEW r, RowOK(r), NEW w \in Workers, CanMarkPaused(r, w)
    PROVE  Alike(r, MarkPaused(r))
<1> DEFINE b == [r EXCEPT !.status = "paused"]
<1>1. /\ b \in RuntimeJob /\ Leased(b)
      /\ b.attempts = r.attempts /\ b.current_attempt = r.current_attempt
  BY DEF RowOK, RuntimeJob, Status, RuntimeJobStatus, Leased, LeasedStatus
<1>2. Leased(r)
  BY DEF CanMarkPaused, Leased, LeasedStatus
<1>3. RowOK(MarkPaused(r)) /\ MarkPaused(r) = SetAttempt(b, "paused")
  BY MarkPausedFollows DEF Follows, MarkPaused
<1> HIDE DEF b
<1>. QED  BY <1>1, <1>2, <1>3, RewrittenAlike DEF LiveAttempt

LEMMA ResumeAlike ==
    ASSUME NEW r, RowOK(r), CanResume(r)
    PROVE  Alike(r, Resume(r))
<1> DEFINE b == [r EXCEPT !.status = "running", !.desired_action = "run"]
<1>1. /\ b \in RuntimeJob /\ Leased(b)
      /\ b.attempts = r.attempts /\ b.current_attempt = r.current_attempt
  BY DEF RowOK, RuntimeJob, Status, RuntimeJobStatus, Leased, LeasedStatus
<1>2. Leased(r)
  BY DEF CanResume, Leased, LeasedStatus
<1>3. RowOK(Resume(r)) /\ Resume(r) = SetAttempt(b, "running")
  BY ResumeFollows DEF Follows, Resume
<1> HIDE DEF b
<1>. QED  BY <1>1, <1>2, <1>3, RewrittenAlike DEF LiveAttempt

\* The transaction of control.check.
LEMMA CheckAlike ==
    ASSUME NEW r, RowOK(r), NEW w \in Workers, NEW n \in 0..Packets, CanObserve(r, w, n),
           NEW due \in BOOLEAN
    PROVE  LET observed == Observe(r, n)
               paused == IF r.status = "pause_requested" THEN MarkPaused(observed) ELSE observed
           IN  Alike(r, IF due THEN Heartbeat(paused) ELSE paused)
<1> DEFINE observed == Observe(r, n)
           paused == IF r.status = "pause_requested" THEN MarkPaused(observed) ELSE observed
<1>1. Alike(r, observed) /\ RowOK(observed)
  BY ObserveAlike, ObserveFollows DEF Follows
<1>2. observed.status = r.status /\ observed.claimed_by = r.claimed_by
  BY DEF Observe, RowOK, RuntimeJob
<1> HIDE DEF observed
<1>3. Alike(observed, paused) /\ RowOK(paused)
  <2>1. CASE r.status = "pause_requested"
    <3>1. CanMarkPaused(observed, w)
      BY <1>2, <2>1 DEF CanMarkPaused, CanObserve, Owned
    <3>2. Alike(observed, MarkPaused(observed)) /\ RowOK(MarkPaused(observed))
      BY <1>1, <3>1, MarkPausedAlike, MarkPausedFollows DEF Follows
    <3>. QED  BY <2>1, <3>2
  <2>2. CASE r.status # "pause_requested"
    BY <1>1, <2>2 DEF Alike
  <2>. QED  BY <2>1, <2>2
<1> HIDE DEF paused
<1>4. Alike(paused, Heartbeat(paused))
  BY <1>3, HeartbeatAlike
<1>. QED  BY <1>1, <1>3, <1>4 DEF Alike, paused, observed

-----------------------------------------------------------------------------
(* Transitions that are a step of the lifecycle. *)

LEMMA ClaimTakes ==
    ASSUME NEW r, RowOK(r), NEW w \in Workers, CanClaim(r), CanStartAttempt(Claim(r, w), w)
    PROVE  LET s == StartAttempt(Claim(r, w), w)
           IN  /\ Phase(r) = "waiting" /\ Phase(s) = "held"
               /\ Len(History(r)) < MaxAttempts
               /\ History(s) = Append(History(r), [worker |-> w, outcome |-> "open"])
<1> DEFINE s == StartAttempt(Claim(r, w), w)
           q == r.attempts
           a == [status |-> "running", worker_id |-> w, observed |-> 0]
           H == [n \in 1..Len(q) |-> Seen(q[n])]
<1>1. q \in Seq(RuntimeAttempt) /\ Len(q) \in Nat
  BY LenProperties DEF RowOK, RuntimeJob
<1>2. s.attempts = Append(q, a) /\ s.status = "validating"
  BY DEF StartAttempt, Claim, RowOK, RuntimeJob
<1>3. Seen(a) = [worker |-> w, outcome |-> "open"]
  BY DEF Seen, LiveAttempt
<1>4. History(r) = H /\ Len(H) = Len(q)
  BY HistoryShape
<1>5. Len(q) < MaxAttempts
  BY <1>1, BoundAssumption DEF CanStartAttempt, Claim, RowOK, RuntimeJob
<1>6. RowOK(s)
  BY ClaimFollows DEF Follows
<1> HIDE DEF a
<1>7. /\ Len(Append(q, a)) = Len(q) + 1
      /\ \A n \in 1..Len(q) : Append(q, a)[n] = q[n]
      /\ Append(q, a)[Len(q) + 1] = a
  BY <1>1
<1> HIDE DEF s
<1>8. History(s) = [n \in 1..(Len(q) + 1) |-> IF n = Len(q) + 1 THEN Seen(a) ELSE Seen(q[n])]
  BY <1>1, <1>2, <1>6, <1>7, HistoryShape
<1>9. Append(H, Seen(a)) = [n \in 1..(Len(q) + 1) |-> IF n = Len(q) + 1 THEN Seen(a) ELSE H[n]]
  BY <1>1, <1>4
<1>10. History(s) = Append(H, Seen(a))
  BY <1>1, <1>8, <1>9
<1>11. Phase(r) = "waiting" /\ Phase(s) = "held"
  BY <1>2 DEF Phase, CanClaim, LeasedStatus
<1>. QED  BY <1>3, <1>4, <1>5, <1>10, <1>11 DEF s

\* Completion, failure and interruption close the open attempt with their outcome.
LEMMA CloseEnds ==
    ASSUME NEW r, RowOK(r), Leased(r), NEW b \in RuntimeJob,
           b.attempts = r.attempts, b.current_attempt = r.current_attempt,
           NEW st \in RuntimeAttemptStatus, st \notin LiveAttempt,
           RowOK(ClearLease(SetAttempt(b, st)))
    PROVE  LET s == ClearLease(SetAttempt(b, st))
           IN  /\ Phase(r) = "held"
               /\ s.status = b.status /\ s.retryable = b.retryable
               /\ History(s) = [History(r) EXCEPT ![Len(History(r))].outcome = st]
<1> DEFINE t == SetAttempt(b, st)
           s == ClearLease(t)
           k == r.current_attempt
<1>1. /\ t = [b EXCEPT !.attempts = t.attempts]
      /\ Len(t.attempts) = Len(r.attempts)
      /\ k \in 1..Len(r.attempts) /\ k = r.attempt_number
      /\ t.attempts[k].status = st /\ t.attempts[k].worker_id = r.claimed_by
      /\ \A n \in 1..Len(r.attempts) : n # k => t.attempts[n] = r.attempts[n]
  BY AttemptRewritten
<1>2. k = Len(r.attempts) /\ r.attempts[k].worker_id = r.claimed_by
  BY <1>1 DEF RowOK, AttemptHistory
<1>3. /\ s.attempts = t.attempts /\ s.status = b.status /\ s.retryable = b.retryable
  BY <1>1 DEF ClearLease, RuntimeJob
<1> HIDE DEF t
<1>4. Seen(t.attempts[k]) = [Seen(r.attempts[k]) EXCEPT !.outcome = st]
  BY <1>1, <1>2 DEF Seen
<1>5. RowOK(s)
  BY DEF t
<1> HIDE DEF s
<1>6. History(s) = [n \in 1..Len(r.attempts) |->
                      IF n = k THEN Seen(t.attempts[k]) ELSE Seen(r.attempts[n])]
  BY <1>1, <1>3, <1>5, HistoryShape
<1>7. /\ Len(History(r)) = k
      /\ History(r) = [n \in 1..Len(r.attempts) |-> Seen(r.attempts[n])]
  BY <1>2, HistoryShape
<1>8. History(s) = [History(r) EXCEPT ![k].outcome = st]
  <2> DEFINE H == History(r)
  <2>1. H[k] = Seen(r.attempts[k])
    BY <1>1, <1>7
  <2>2. History(s) = [n \in 1..Len(r.attempts) |->
                        IF n = k THEN [H[k] EXCEPT !.outcome = st] ELSE H[n]]
    BY <1>4, <1>6, <1>7, <2>1
  <2>3. DOMAIN H = 1..Len(r.attempts)
    BY <1>7
  <2> HIDE DEF H
  <2>4. [H EXCEPT ![k].outcome = st] =
           [n \in 1..Len(r.attempts) |-> IF n = k THEN [H[k] EXCEPT !.outcome = st] ELSE H[n]]
    BY <2>3
  <2>. QED  BY <2>2, <2>4 DEF H
<1>9. Phase(r) = "held"
  BY DEF Leased, Phase, LeasedStatus
<1>. QED  BY <1>3, <1>7, <1>8, <1>9 DEF s, t

LEMMA CompleteEnds ==
    ASSUME NEW r, RowOK(r), NEW w \in Workers, NEW n \in 0..Packets, CanComplete(r, w, n)
    PROVE  /\ Phase(r) = "held" /\ Phase(Complete(r)) = "ended"
           /\ History(Complete(r)) = [History(r) EXCEPT ![Len(History(r))].outcome = "completed"]
<1> DEFINE b == [r EXCEPT !.status = "completed", !.desired_action = "run",
                          !.observed = Packets, !.progress = 1]
<1>1. /\ b \in RuntimeJob /\ b.status = "completed"
      /\ b.attempts = r.attempts /\ b.current_attempt = r.current_attempt
  <2>1. Packets \in 0..Packets
    BY BoundAssumption
  <2>. QED  BY <2>1 DEF RowOK, RuntimeJob, Status, RuntimeJobStatus
<1>2. Leased(r)
  BY DEF CanComplete, Leased, LeasedStatus
<1>3. RowOK(Complete(r)) /\ Complete(r) = ClearLease(SetAttempt(b, "completed"))
  BY CompleteFollows DEF Follows, Complete
<1> HIDE DEF b
<1>4. "completed" \in RuntimeAttemptStatus /\ "completed" \notin LiveAttempt
  BY DEF RuntimeAttemptStatus, LiveAttempt
<1>5. /\ Phase(r) = "held"
      /\ Complete(r).status = b.status /\ Complete(r).retryable = b.retryable
      /\ History(Complete(r)) = [History(r) EXCEPT ![Len(History(r))].outcome = "completed"]
  BY <1>1, <1>2, <1>3, <1>4, CloseEnds
<1>6. Phase(Complete(r)) = "ended"
  BY <1>1, <1>5 DEF Phase, LeasedStatus
<1>. QED  BY <1>5, <1>6

LEMMA FailEnds ==
    ASSUME NEW r, RowOK(r), NEW w \in Workers, Owned(r, w), NEW again \in BOOLEAN
    PROVE  /\ Phase(r) = "held" /\ Phase(Fail(r, again)) \in {"ended", "stopped"}
           /\ History(Fail(r, again)) = [History(r) EXCEPT ![Len(History(r))].outcome = "failed"]
<1> DEFINE b == [r EXCEPT !.status = "failed", !.retryable = again]
<1>1. /\ b \in RuntimeJob /\ b.status = "failed"
      /\ b.attempts = r.attempts /\ b.current_attempt = r.current_attempt
  BY DEF RowOK, RuntimeJob, Status, RuntimeJobStatus
<1>2. Leased(r)
  BY OwnedIsLeased
<1>3. RowOK(Fail(r, again)) /\ Fail(r, again) = ClearLease(SetAttempt(b, "failed"))
  BY FailFollows DEF Follows, Fail
<1> HIDE DEF b
<1>4. "failed" \in RuntimeAttemptStatus /\ "failed" \notin LiveAttempt
  BY DEF RuntimeAttemptStatus, LiveAttempt
<1>5. /\ Phase(r) = "held"
      /\ Fail(r, again).status = b.status /\ Fail(r, again).retryable = b.retryable
      /\ History(Fail(r, again)) = [History(r) EXCEPT ![Len(History(r))].outcome = "failed"]
  BY <1>1, <1>2, <1>3, <1>4, CloseEnds
<1>6. Phase(Fail(r, again)) \in {"ended", "stopped"}
  BY <1>1, <1>5 DEF Phase, LeasedStatus
<1>. QED  BY <1>5, <1>6

LEMMA InterruptEnds ==
    ASSUME NEW r, RowOK(r), Leased(r)
    PROVE  /\ Phase(r) = "held" /\ Phase(Interrupt(r)) = "stopped"
           /\ History(Interrupt(r)) =
                 [History(r) EXCEPT ![Len(History(r))].outcome = "interrupted"]
<1> DEFINE b == [r EXCEPT !.status = "recovery_pending", !.retryable = TRUE]
<1>1. /\ b \in RuntimeJob /\ b.status = "recovery_pending"
      /\ b.attempts = r.attempts /\ b.current_attempt = r.current_attempt
  BY DEF RowOK, RuntimeJob, Status, RuntimeJobStatus
<1>2. ~Over(r)
  BY DEF Over, Leased, LeasedStatus
<1>3. RowOK(Interrupt(r)) /\ Interrupt(r) = ClearLease(SetAttempt(b, "interrupted"))
  BY <1>2, InterruptFollows DEF Follows, Interrupt
<1> HIDE DEF b
<1>4. "interrupted" \in RuntimeAttemptStatus /\ "interrupted" \notin LiveAttempt
  BY DEF RuntimeAttemptStatus, LiveAttempt
<1>5. /\ Phase(r) = "held"
      /\ Interrupt(r).status = b.status /\ Interrupt(r).retryable = b.retryable
      /\ History(Interrupt(r)) = [History(r) EXCEPT ![Len(History(r))].outcome = "interrupted"]
  BY <1>1, <1>3, <1>4, CloseEnds
<1>6. Phase(Interrupt(r)) = "stopped"
  BY <1>1, <1>5 DEF Phase, LeasedStatus
<1>. QED  BY <1>5, <1>6

\* Recovery queues a stopped job again and keeps its history.
LEMMA RecoverRequeues ==
    ASSUME NEW r, RowOK(r), CanRecover(r)
    PROVE  /\ Phase(r) = "stopped" /\ Phase(Recover(r)) = "waiting"
           /\ Len(History(r)) < MaxAttempts
           /\ History(Recover(r)) = History(r)
<1>1. r \in RuntimeJob
  BY DEF RowOK
<1>2. Recover(r).status = "queued" /\ Recover(r).attempts = r.attempts
  BY <1>1 DEF Recover, ClearLease, RuntimeJob
<1>3. Phase(Recover(r)) = "waiting"
  BY <1>2, PhaseByStatus
<1>4. Phase(r) = "stopped"
  BY PhaseByStatus DEF CanRecover
<1>5. Len(History(r)) < MaxAttempts
  BY HistoryShape DEF CanRecover, RowOK, AttemptHistory
<1>. QED  BY <1>2, <1>3, <1>4, <1>5, SameHistory

LEMMA AddSubmits ==
    ASSUME NEW r, RowOK(r), CanAdd(r)
    PROVE  /\ Phase(r) = "absent" /\ Phase(Add(r)) = "waiting"
           /\ History(Add(r)) = History(r)
<1>1. Add(r).status = "queued" /\ Add(r).attempts = r.attempts
  BY DEF Add, RowOK, RuntimeJob
<1>2. Phase(Add(r)) = "waiting"
  BY <1>1, PhaseByStatus
<1>3. Phase(r) = "absent"
  BY PhaseByStatus DEF CanAdd
<1>. QED  BY <1>1, <1>2, <1>3, SameHistory

\* The phases say which operator guards hold.
LEMMA PhasesTell ==
    ASSUME NEW r, RowOK(r)
    PROVE  /\ Phase(r) = "absent" <=> CanAdd(r)
           /\ Phase(r) = "waiting" <=> CanClaim(r)
<1>1. r.status \in Status
  BY DEF RowOK, RuntimeJob
<1>. QED
  BY <1>1 DEF Phase, CanAdd, CanClaim, LeasedStatus, Status, RuntimeJobStatus

-----------------------------------------------------------------------------
(* Steps of the table. *)

LEMMA OneRow ==
    ASSUME IInv, NEW j \in Jobs, NEW row, jobs' = [jobs EXCEPT ![j] = row]
    PROVE  /\ Phases' = [Phases EXCEPT ![j] = Phase(row)]
           /\ Histories' = [Histories EXCEPT ![j] = History(row)]
           /\ Phases[j] = Phase(jobs[j]) /\ Histories[j] = History(jobs[j])
<1>1. \A i \in Jobs : jobs'[i] = IF i = j THEN row ELSE jobs[i]
  BY DEF IInv, TypeOK
<1>2. /\ Phases' = [i \in Jobs |-> Phase(jobs'[i])]
      /\ Histories' = [i \in Jobs |-> History(jobs'[i])]
  BY DEF Phases, Histories
<1>3. /\ [Phases EXCEPT ![j] = Phase(row)] =
            [i \in Jobs |-> IF i = j THEN Phase(row) ELSE Phase(jobs[i])]
      /\ [Histories EXCEPT ![j] = History(row)] =
            [i \in Jobs |-> IF i = j THEN History(row) ELSE History(jobs[i])]
  BY DEF Phases, Histories
<1>4. \A i \in Jobs :
        /\ Phase(jobs'[i]) = IF i = j THEN Phase(row) ELSE Phase(jobs[i])
        /\ History(jobs'[i]) = IF i = j THEN History(row) ELSE History(jobs[i])
  BY <1>1
<1>5. Phases[j] = Phase(jobs[j]) /\ Histories[j] = History(jobs[j])
  BY DEF Phases, Histories
<1>. QED  BY <1>2, <1>3, <1>4, <1>5

LEMMA SameView ==
    ASSUME \A j \in Jobs : Alike(jobs[j], jobs'[j])
    PROVE  StepAllowed
BY DEF StepAllowed, Alike, Phases, Histories

LEMMA AlikeUpdate ==
    ASSUME IInv, NEW j \in Jobs, NEW row, jobs' = [jobs EXCEPT ![j] = row],
           Alike(jobs[j], row)
    PROVE  StepAllowed
<1>1. \A i \in Jobs : jobs'[i] = IF i = j THEN row ELSE jobs[i]
  BY DEF IInv, TypeOK
<1>2. \A i \in Jobs : Alike(jobs[i], jobs'[i])
  BY <1>1 DEF Alike
<1>. QED  BY <1>2, SameView

LEMMA AlikeWrite ==
    ASSUME IInv, NEW w \in Workers, proc[w].job \in Jobs, NEW row,
           Write(w, row), Alike(JobOf(w), row)
    PROVE  StepAllowed
BY AlikeUpdate DEF Write, JobOf

LEMMA UnchangedView ==
    ASSUME jobs' = jobs
    PROVE  StepAllowed
BY DEF StepAllowed, Phases, Histories

\* The attempt of the job of w ends with an outcome.
LEMMA EndWrite ==
    ASSUME IInv, NEW w \in Workers, proc[w].job \in Jobs, NEW row, Write(w, row),
           NEW outcome \in {"interrupted", "failed", "completed"},
           Phase(JobOf(w)) = "held",
           \/ outcome \in {"completed", "failed"} /\ Phase(row) = "ended"
           \/ outcome # "completed" /\ Phase(row) = "stopped",
           History(row) = [History(JobOf(w)) EXCEPT
                             ![Len(History(JobOf(w)))].outcome = outcome]
    PROVE  StepAllowed
<1> DEFINE j == proc[w].job
<1>1. /\ Phases' = [Phases EXCEPT ![j] = Phase(row)]
      /\ Histories' = [Histories EXCEPT ![j] = History(row)]
      /\ Phases[j] = Phase(JobOf(w)) /\ Histories[j] = History(JobOf(w))
  BY OneRow DEF Write, JobOf
<1>2. Lifecycle!Closed(j, outcome) = History(row)
  BY <1>1 DEF Lifecycle!Closed, Histories
<1>3. Lifecycle!End(j, outcome)
  BY <1>1, <1>2 DEF Lifecycle!End, Phases, Histories
<1>4. j \in Lifecycle!Jobs /\ outcome \in Lifecycle!Outcome
  BY DEF Lifecycle!Jobs, Lifecycle!Outcome, Jobs
<1>. QED  BY <1>3, <1>4 DEF StepAllowed, Lifecycle!Next

LEMMA CreateStep ==
    ASSUME IInv, NEW j \in Jobs, CreateReplay(j)
    PROVE  StepAllowed
<1>1. RowOK(jobs[j]) /\ CanAdd(jobs[j])
  BY DEF IInv, CreateReplay
<1>2. jobs' = [jobs EXCEPT ![j] = Add(jobs[j])]
  BY DEF CreateReplay
<1>3. /\ Phases' = [Phases EXCEPT ![j] = "waiting"]
      /\ Histories' = [Histories EXCEPT ![j] = Histories[j]]
      /\ Phases[j] = "absent"
  <2>1. /\ Phases' = [Phases EXCEPT ![j] = Phase(Add(jobs[j]))]
        /\ Histories' = [Histories EXCEPT ![j] = History(Add(jobs[j]))]
        /\ Phases[j] = Phase(jobs[j]) /\ Histories[j] = History(jobs[j])
    BY <1>2, OneRow
  <2>2. /\ Phase(jobs[j]) = "absent" /\ Phase(Add(jobs[j])) = "waiting"
        /\ History(Add(jobs[j])) = History(jobs[j])
    BY <1>1, AddSubmits
  <2>. QED  BY <2>1, <2>2
<1>4. UNCHANGED Histories
  BY <1>3 DEF Histories
<1>5. \A i \in 1..(j - 1) : Phases[i] # "absent"
  <2>1. TAKE i \in 1..(j - 1)
  <2>2. i \in Jobs /\ i < j
    BY TimingAssumption DEF Jobs
  <2>3. RowOK(jobs[i]) /\ ~CanAdd(jobs[i])
    BY <2>2 DEF IInv, CreateReplay
  <2>. QED  BY <2>2, <2>3, PhasesTell DEF Phases
<1>6. Lifecycle!Submit(j)
  BY <1>3, <1>4, <1>5 DEF Lifecycle!Submit, Phases, Histories
<1>7. j \in Lifecycle!Jobs
  BY DEF Lifecycle!Jobs, Jobs
<1>. QED  BY <1>6, <1>7 DEF StepAllowed, Lifecycle!Next

LEMMA RecoverStep ==
    ASSUME IInv, NEW j \in Jobs, RecoverReplay(j)
    PROVE  StepAllowed
<1>1. RowOK(jobs[j]) /\ CanRecover(jobs[j])
  BY DEF IInv, RecoverReplay
<1>2. jobs' = [jobs EXCEPT ![j] = Recover(jobs[j])]
  BY DEF RecoverReplay
<1>3. /\ Phases' = [Phases EXCEPT ![j] = "waiting"]
      /\ Histories' = [Histories EXCEPT ![j] = Histories[j]]
      /\ Phases[j] = "stopped" /\ Len(Histories[j]) < MaxAttempts
  <2>1. /\ Phases' = [Phases EXCEPT ![j] = Phase(Recover(jobs[j]))]
        /\ Histories' = [Histories EXCEPT ![j] = History(Recover(jobs[j]))]
        /\ Phases[j] = Phase(jobs[j]) /\ Histories[j] = History(jobs[j])
    BY <1>2, OneRow
  <2>2. /\ Phase(jobs[j]) = "stopped" /\ Phase(Recover(jobs[j])) = "waiting"
        /\ Len(History(jobs[j])) < MaxAttempts
        /\ History(Recover(jobs[j])) = History(jobs[j])
    BY <1>1, RecoverRequeues
  <2>. QED  BY <2>1, <2>2
<1>4. UNCHANGED Histories
  BY <1>3 DEF Histories
<1>5. Lifecycle!Requeue(j)
  BY <1>3, <1>4 DEF Lifecycle!Requeue, Phases, Histories
<1>6. j \in Lifecycle!Jobs
  BY DEF Lifecycle!Jobs, Jobs
<1>. QED  BY <1>5, <1>6 DEF StepAllowed, Lifecycle!Next

LEMMA LifecycleClaim ==
    ASSUME IInv, NEW w \in Workers, ClaimJob(w)
    PROVE  StepAllowed
<1>1. PICK j \in Jobs :
        /\ CanClaim(jobs[j]) /\ \A i \in Queued : j <= i
        /\ CanStartAttempt(Claim(jobs[j], w), w)
        /\ jobs' = [jobs EXCEPT ![j] = StartAttempt(Claim(jobs[j], w), w)]
  BY DEF ClaimJob, Queued
<1> DEFINE new == [worker |-> w, outcome |-> "open"]
           row == StartAttempt(Claim(jobs[j], w), w)
<1>2. RowOK(jobs[j])
  BY DEF IInv
<1>3. /\ Phases' = [Phases EXCEPT ![j] = "held"]
      /\ Histories' = [Histories EXCEPT ![j] = Append(Histories[j], new)]
      /\ Phases[j] = "waiting" /\ Len(Histories[j]) < MaxAttempts
  <2>1. /\ Phase(jobs[j]) = "waiting" /\ Phase(row) = "held"
        /\ Len(History(jobs[j])) < MaxAttempts
        /\ History(row) = Append(History(jobs[j]), new)
    BY <1>1, <1>2, ClaimTakes
  <2>2. jobs' = [jobs EXCEPT ![j] = row]
    BY <1>1
  <2> HIDE DEF row, new
  <2>3. /\ Phases' = [Phases EXCEPT ![j] = Phase(row)]
        /\ Histories' = [Histories EXCEPT ![j] = History(row)]
        /\ Phases[j] = Phase(jobs[j]) /\ Histories[j] = History(jobs[j])
    BY <2>2, OneRow
  <2>. QED  BY <2>1, <2>3
<1>4. Lifecycle!Waiting = Queued
  <2>1. \A i \in Jobs : Phases[i] = "waiting" <=> CanClaim(jobs[i])
    BY PhasesTell DEF Phases, IInv
  <2>. QED  BY <2>1 DEF Lifecycle!Waiting, Lifecycle!Jobs, Jobs, Queued, Phases
<1>5. j \in Queued
  BY <1>1 DEF Queued
<1>6. Lifecycle!Take(w, j)
  BY <1>1, <1>3, <1>4, <1>5 DEF Lifecycle!Take, Phases, Histories
<1>7. j \in Lifecycle!Jobs
  BY DEF Lifecycle!Jobs, Jobs
<1>. QED  BY <1>6, <1>7 DEF StepAllowed, Lifecycle!Next

\* A starting worker gives up the jobs whose leases ran out.
LEMMA StartStep ==
    ASSUME IInv, NEW w \in Workers, Start(w)
    PROVE  StepAllowed
<1> DEFINE S == {j \in Jobs : CanReconcile(jobs[j])}
<1>1. \A j \in Jobs : jobs'[j] = IF j \in S THEN Interrupt(jobs[j]) ELSE jobs[j]
  BY DEF Start, Reconcile
<1>2. \A j \in S : /\ Phase(jobs[j]) = "held" /\ Phase(jobs'[j]) = "stopped"
                   /\ History(jobs'[j]) = [History(jobs[j]) EXCEPT
                                             ![Len(History(jobs[j]))].outcome = "interrupted"]
  BY <1>1, InterruptEnds DEF IInv, CanReconcile
<1>3. /\ Phases' = [j \in Jobs |-> IF j \in S THEN "stopped" ELSE Phases[j]]
      /\ Histories' = [j \in Jobs |->
                         IF j \in S THEN Lifecycle!Closed(j, "interrupted") ELSE Histories[j]]
  BY <1>1, <1>2 DEF Phases, Histories, Lifecycle!Closed
<1>4. S \subseteq Jobs /\ \A j \in S : Phases[j] = "held"
  BY <1>2 DEF Phases
<1> HIDE DEF S
<1>5. Lifecycle!GiveUp(S)
  BY <1>3, <1>4 DEF Lifecycle!GiveUp, Lifecycle!Jobs, Jobs, Phases, Histories
<1>6. S \in SUBSET Lifecycle!Jobs
  BY <1>4 DEF Lifecycle!Jobs, Jobs
<1>. QED  BY <1>5, <1>6 DEF StepAllowed, Lifecycle!Next

LEMMA TurnStep ==
    ASSUME IInv, NEW w \in Workers, Turn(w)
    PROVE  StepAllowed
<1>0. ASSUME proc[w].pc \notin {"off", "idle", "exit"}
      PROVE  proc[w].job \in Jobs /\ RowOK(JobOf(w)) /\ proc[w].seen \in 0..Packets
             /\ proc[w].again \in BOOLEAN
  BY <1>0, RowOfProcess
<1>1. CASE jobs' = jobs
  BY <1>1, UnchangedView
<1>2. CASE ClaimJob(w)
  BY <1>2, LifecycleClaim
<1>3. CASE PreflightOk(w) /\ jobs' # jobs
  <2>1. /\ proc[w].pc = "preflight" /\ CanMarkRunning(JobOf(w), w)
        /\ Write(w, MarkRunning(JobOf(w)))
    BY <1>3 DEF PreflightOk, Refused
  <2>. QED  BY <1>0, <2>1, MarkRunningAlike, AlikeWrite
<1>4. CASE (ObserveBatch(w) \/ StopSeen(w)) /\ jobs' # jobs
  <2>1. /\ proc[w].pc \notin {"off", "idle", "exit"}
        /\ CanObserve(JobOf(w), w, proc[w].seen)
        /\ Write(w, Observe(JobOf(w), proc[w].seen))
    BY <1>4 DEF ObserveBatch, StopSeen, ControlPoint, Refused
  <2>. QED  BY <1>0, <2>1, ObserveAlike, AlikeWrite
<1>5. CASE Controlled(w) /\ jobs' # jobs
  <2>1. /\ proc[w].pc \notin {"off", "idle", "exit"}
        /\ CanObserve(JobOf(w), w, proc[w].seen)
        /\ LET row == JobOf(w)
               due == HeartbeatDue(w)
               observed == Observe(row, proc[w].seen)
               paused == IF row.status = "pause_requested"
                         THEN MarkPaused(observed) ELSE observed
           IN  Write(w, IF due THEN Heartbeat(paused) ELSE paused)
    BY <1>5 DEF Controlled, ControlTurn, ControlPoint, Refused
  <2>2. HeartbeatDue(w) \in BOOLEAN
    BY DEF HeartbeatDue
  <2>. QED  BY <1>0, <2>1, <2>2, CheckAlike, AlikeWrite
<1>6. CASE Waited(w) /\ jobs' # jobs
  <2>1. proc[w].pc = "paused" /\ Write(w, Heartbeat(JobOf(w)))
    BY <1>6 DEF Waited, PausedTurn, Refused
  <2>. QED  BY <1>0, <2>1, HeartbeatAlike, AlikeWrite
<1>7. CASE Finish(w) /\ jobs' # jobs
  <2>1. /\ proc[w].pc = "final" /\ CanComplete(JobOf(w), w, proc[w].seen)
        /\ Write(w, Complete(JobOf(w)))
    BY <1>7 DEF Finish, Refused
  <2>. QED  BY <1>0, <2>1, CompleteEnds, EndWrite
<1>8. CASE RecordFailure(w) /\ jobs' # jobs
  <2>1. /\ proc[w].pc = "failing" /\ Owned(JobOf(w), w)
        /\ Write(w, Fail(JobOf(w), proc[w].again))
    BY <1>8 DEF RecordFailure
  <2>2. /\ Phase(JobOf(w)) = "held"
        /\ Phase(Fail(JobOf(w), proc[w].again)) \in {"ended", "stopped"}
        /\ History(Fail(JobOf(w), proc[w].again)) =
              [History(JobOf(w)) EXCEPT ![Len(History(JobOf(w)))].outcome = "failed"]
    BY <1>0, <2>1, FailEnds
  <2>. QED  BY <1>0, <2>1, <2>2, EndWrite
<1>9. CASE RecordInterrupt(w) /\ jobs' # jobs
  <2>1. /\ proc[w].pc = "interrupt" /\ Owned(JobOf(w), w)
        /\ Write(w, Interrupt(JobOf(w)))
    BY <1>9 DEF RecordInterrupt
  <2>. QED  BY <1>0, <2>1, OwnedIsLeased, InterruptEnds, EndWrite
<1>10. CASE \/ PollEmpty(w) \/ Capture(w) \/ EndOfCapture(w) \/ NoBatch(w)
            \/ PersistBatch(w) \/ Correlate(w) \/ Sampled(w) \/ Release(w)
            \/ LeaveLoop(w) \/ Exit(w)
  <2>1. jobs' = jobs
    BY <1>10 DEF PollEmpty, Capture, EndOfCapture, NoBatch, PersistBatch, Correlate,
                 Sampled, SampleTurn, Release, LeaveLoop, Exit, Refused
  <2>. QED  BY <2>1, UnchangedView
<1>. QED
  BY <1>1, <1>2, <1>3, <1>4, <1>5, <1>6, <1>7, <1>8, <1>9, <1>10 DEF Turn

\* Every step of the queue is a step of the lifecycle, seen from the rows.
LEMMA StepFollows ==
    ASSUME IInv, [Next]_vars
    PROVE  StepAllowed
<1>1. ASSUME NEW j \in Jobs, Operator(j)
      PROVE  StepAllowed
  <2>0. RowOK(jobs[j])
    BY DEF IInv
  <2>1. CASE CreateReplay(j)
    BY <2>1, CreateStep
  <2>2. CASE Pause(j)
    BY <2>0, <2>2, RequestPauseAlike, AlikeUpdate DEF Pause
  <2>3. CASE ResumeReplay(j)
    BY <2>0, <2>3, ResumeAlike, AlikeUpdate DEF ResumeReplay
  <2>4. CASE RecoverReplay(j)
    BY <2>4, RecoverStep
  <2>. QED  BY <1>1, <2>1, <2>2, <2>3, <2>4 DEF Operator
<1>2. ASSUME NEW w \in Workers, Start(w)
      PROVE  StepAllowed
  BY <1>2, StartStep
<1>3. ASSUME NEW w \in Workers, Turn(w)
      PROVE  StepAllowed
  BY <1>3, TurnStep
<1>4. ASSUME NEW w \in Workers, Fault(w), ~SamplerFails(w)
      PROVE  StepAllowed
  <2>1. CASE jobs' = jobs
    BY <2>1, UnchangedView
  <2>2. CASE PipelineError(w) /\ jobs' # jobs
    BY <2>2, RowOfProcess, ObserveAlike, AlikeWrite DEF PipelineError
  <2>. QED
    BY <1>4, <2>1, <2>2
       DEF Fault, PollError, DatabaseError, PipelineError, RecordLost, Crash, Signal
<1>5. CASE Tick
  <2>1. \A j \in Jobs : jobs'[j] = Age(jobs[j])
    BY <1>5 DEF Tick
  <2>2. \A j \in Jobs : Alike(jobs[j], jobs'[j])
    BY <2>1, AgeAlike DEF IInv
  <2>. QED  BY <2>2, SameView
<1>6. CASE UNCHANGED vars
  BY <1>6, UnchangedView DEF vars
<1>. QED  BY <1>1, <1>2, <1>3, <1>4, <1>5, <1>6, ThreadsTakeTurns DEF Next

LEMMA InitFollows ==
    ASSUME Init
    PROVE  Lifecycle!Init
<1>1. Phase(AbsentJob) = "absent" /\ History(AbsentJob) = << >>
  <2>1. AbsentJob.status = "absent" /\ AbsentJob.attempts = << >>
    BY DEF AbsentJob
  <2>2. Phase(AbsentJob) = "absent"
    BY <2>1, PhaseByStatus
  <2>3. 1..Len(<< >>) = {}
    OBVIOUS
  <2>4. History(AbsentJob) = << >>
    BY <2>1, <2>3 DEF History
  <2>. QED  BY <2>2, <2>4
<1>2. \A j \in Jobs : jobs[j] = AbsentJob
  BY DEF Init
<1>. QED  BY <1>1, <1>2 DEF Lifecycle!Init, Lifecycle!Jobs, Jobs

-----------------------------------------------------------------------------
\* The durable queue implements the job lifecycle: claims in order, one holder
\* at a time, an append-only history within the limit, final ends; whatever the
\* interleaving of operators, workers, crashes, errors and leases that run out.
THEOREM QueueImplementsLifecycle ==
    Spec => LifecycleSpec
<1>1. Init => Lifecycle!Init
  BY InitFollows
<1>2. IInv /\ [Next]_vars =>
        [Lifecycle!Next]_<< [j \in Jobs |-> Phase(jobs[j])], [j \in Jobs |-> History(jobs[j])] >>
  BY StepFollows DEF StepAllowed, Phases, Histories
<1>. QED  BY <1>1, <1>2, Invariance, PTL DEF Spec, LifecycleSpec, Lifecycle!Spec
=============================================================================
