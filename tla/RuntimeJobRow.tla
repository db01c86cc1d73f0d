--------------------------- MODULE RuntimeJobRow ---------------------------
(***************************************************************************)
(* One row of the table runtime_jobs together with the rows it owns in     *)
(* runtime_attempts, and every lifecycle transition of                     *)
(* RuntimeJobRepository as a pure function of that row.                    *)
(*                                                                         *)
(* RuntimeJobs applies these functions one transaction at a time;          *)
(* RuntimeSessions applies them to rows read earlier.  Each operation Op   *)
(* has a precondition CanOp (the early returns and raises of the method)   *)
(* and a result row.                                                       *)
(*                                                                         *)
(* Abstractions.  lease_expires_at is the number of whole ticks left       *)
(* before the lease expires, Expired once it lies in the past, NoLease in  *)
(* a row without one; heartbeat_at is set and cleared with it and is left  *)
(* out, as are audit records, texts, timestamps and current_stage (a       *)
(* function of the status in every committed row).  Counters are reduced   *)
(* to the number of packets observed.                                      *)
(*                                                                         *)
(* An operator Op_Variant is a faulty form of Op.  No action uses it: it   *)
(* is put in the place of Op to see that a property notices the fault.     *)
(***************************************************************************)
EXTENDS Integers, Sequences

CONSTANTS
    Workers,        \* worker_id values; one live process uses each
    NoWorker,       \* claimed_by = NULL
    MaxAttempts,    \* runtime policy worker.maximum_attempts
    Packets,        \* progress_total: packets of the pinned source
    LeaseTicks      \* runtime policy worker.lease_seconds, in ticks

ASSUME WorkerAssumption == NoWorker \notin Workers
ASSUME BoundAssumption ==
    /\ MaxAttempts \in Nat \ {0}
    /\ Packets \in Nat
    /\ LeaseTicks \in Nat \ {0}

RuntimeJobStatus ==
    {"queued", "validating", "running", "pause_requested", "paused",
     "recovery_pending", "completed", "failed"}

\* "absent": the row has not been inserted yet.
Status == RuntimeJobStatus \union {"absent"}

RuntimeAttemptStatus ==
    {"running", "paused", "interrupted", "completed", "failed"}

Expired == -1
NoLease == -2

LeasedStatus == {"validating", "running", "pause_requested", "paused"}
LiveAttempt == {"running", "paused"}

RuntimeAttempt ==
    [status : RuntimeAttemptStatus, worker_id : Workers, observed : 0..Packets]

RuntimeJob ==
    [status          : Status,
     desired_action  : {"run", "pause"},
     claimed_by      : Workers \union {NoWorker},
     lease           : NoLease..LeaseTicks,
     attempt_number  : 0..MaxAttempts,   \* current_attempt_number
     current_attempt : 0..MaxAttempts,   \* current_attempt_id, 0 for NULL
     retryable       : BOOLEAN,          \* latest_error_retryable is True
     observed        : 0..Packets,       \* observed_progress_current
     progress        : {0, 1},           \* 1 only through complete
     recovery_count  : 0..MaxAttempts,
     attempts        : Seq(RuntimeAttempt)]

AbsentJob ==
    [status |-> "absent", desired_action |-> "run", claimed_by |-> NoWorker,
     lease |-> NoLease, attempt_number |-> 0, current_attempt |-> 0,
     retryable |-> FALSE, observed |-> 0, progress |-> 0,
     recovery_count |-> 0, attempts |-> << >>]

-----------------------------------------------------------------------------
Owned(r, w) == r.claimed_by = w
Leased(r) == r.status \in LeasedStatus
LeaseExpired(r) == r.lease = Expired

SetAttempt(r, s) ==
    [r EXCEPT !.attempts[r.current_attempt] =
        [@ EXCEPT !.status = s, !.observed = r.observed]]

ClearLease(r) == [r EXCEPT !.claimed_by = NoWorker, !.lease = NoLease]

-----------------------------------------------------------------------------
\* RuntimeJobStore.add
CanAdd(r) == r.status = "absent"
Add(r) == [r EXCEPT !.status = "queued"]

\* claim_next, for the row its subquery selects
CanClaim(r) == r.status = "queued"
Claim_LongLease(r, w) ==
    [r EXCEPT !.status = "validating", !.desired_action = "run",
              !.claimed_by = w, !.lease = LeaseTicks + 1]
Claim(r, w) ==
    [r EXCEPT !.status = "validating", !.desired_action = "run",
              !.claimed_by = w, !.lease = LeaseTicks]

\* start_attempt: the number is the count of the job's attempts plus one
CanStartAttempt(r, w) ==
    /\ Owned(r, w)
    /\ r.status = "validating"
    /\ Len(r.attempts) + 1 <= MaxAttempts
StartAttempt(r, w) ==
    LET number == Len(r.attempts) + 1
    IN  [r EXCEPT !.current_attempt = number, !.attempt_number = number,
                  !.attempts = Append(@, [status |-> "running",
                                          worker_id |-> w, observed |-> 0])]

CanMarkRunning(r, w) == Owned(r, w) /\ r.status = "validating"
MarkRunning(r) == [r EXCEPT !.status = "running"]

CanHeartbeat(r, w) == Owned(r, w) /\ Leased(r)
Heartbeat(r) == [r EXCEPT !.lease = LeaseTicks]

CanObserve(r, w, n) ==
    /\ Owned(r, w)
    /\ r.status \in {"running", "pause_requested", "paused"}
    /\ r.observed <= n
Observe(r, n) ==
    [r EXCEPT !.observed = n, !.attempts[r.current_attempt].observed = n]

\* update_durable_progress and set_stage demand the same of the row
CanPersist(r, w) == Owned(r, w) /\ r.status \in {"running", "pause_requested"}

-----------------------------------------------------------------------------
CanRequestPause_Claimed(r) == r.status \in {"validating", "running"}
CanRequestPause(r) == r.status = "running"
RequestPause(r) == [r EXCEPT !.status = "pause_requested", !.desired_action = "pause"]

CanMarkPaused(r, w) == Owned(r, w) /\ r.status = "pause_requested"
MarkPaused_JobOnly(r) == [r EXCEPT !.status = "paused"]
MarkPaused(r) == SetAttempt([r EXCEPT !.status = "paused"], "paused")

CanResume(r) == r.status = "paused" /\ r.claimed_by # NoWorker
Resume(r) ==
    SetAttempt([r EXCEPT !.status = "running", !.desired_action = "run"], "running")

CanComplete(r, w, n) == Owned(r, w) /\ r.status = "running" /\ n = Packets
Complete(r) ==
    ClearLease(SetAttempt([r EXCEPT !.status = "completed",
                                    !.desired_action = "run",
                                    !.observed = Packets,
                                    !.progress = 1], "completed"))

\* fail and interrupt look at the owner only, whatever the status is
Fail(r, again) ==
    ClearLease(SetAttempt([r EXCEPT !.status = "failed", !.retryable = again],
                          "failed"))
Interrupt_KeepsLease(r) ==
    SetAttempt([r EXCEPT !.status = "recovery_pending", !.retryable = TRUE],
               "interrupted")
Interrupt(r) ==
    ClearLease(SetAttempt([r EXCEPT !.status = "recovery_pending",
                                    !.retryable = TRUE], "interrupted"))

CanReconcile_AnyLease(r) == Leased(r)
CanReconcile(r) == Leased(r) /\ LeaseExpired(r)
Reconcile(r) == IF CanReconcile(r) THEN Interrupt(r) ELSE r

CanRecover_NoLimit(r) ==
    /\ r.status \in {"recovery_pending", "failed"}
    /\ r.status = "failed" => r.retryable
CanRecover_AnyFailure(r) ==
    /\ r.status \in {"recovery_pending", "failed"}
    /\ r.attempt_number < MaxAttempts
CanRecover(r) ==
    /\ r.status \in {"recovery_pending", "failed"}
    /\ r.status = "failed" => r.retryable
    /\ r.attempt_number < MaxAttempts
Recover_KeepsObserved(r) ==
    ClearLease([r EXCEPT !.status = "queued", !.desired_action = "run",
                         !.progress = 0,
                         !.current_attempt = 0, !.recovery_count = @ + 1])
Recover_ResetsAttempt(r) ==
    ClearLease([r EXCEPT !.status = "queued", !.desired_action = "run",
                         !.progress = 0, !.observed = 0,
                         !.attempts[r.current_attempt].observed = 0,
                         !.current_attempt = 0, !.recovery_count = @ + 1])
Recover(r) ==
    ClearLease([r EXCEPT !.status = "queued", !.desired_action = "run",
                         !.progress = 0, !.observed = 0,
                         !.current_attempt = 0, !.recovery_count = @ + 1])

\* One tick of the wall clock, as seen by lease_expires_at < now.
Age(r) == IF r.lease >= 0 THEN [r EXCEPT !.lease = @ - 1] ELSE r

-----------------------------------------------------------------------------
(***************************************************************************)
(* What every committed row satisfies.                                     *)
(***************************************************************************)

\* RuntimeJob.validate_state: an owner exactly in the claimed states and no
\* trace of a lease elsewhere, full progress exactly when completed, and then
\* every packet observed.
RowContract(r) ==
    /\ Leased(r) <=> r.claimed_by # NoWorker
    /\ Leased(r) <=> r.lease # NoLease
    /\ r.status = "completed" <=> r.progress = 1
    /\ r.status = "completed" => r.observed = Packets

\* The attempt history agrees with the row: attempts are numbered without a
\* gap, only the current attempt of a claimed job is open, it belongs to the
\* worker that holds the lease and mirrors the row, and every earlier attempt
\* ended interrupted or failed.
AttemptHistory(r) ==
    /\ r.attempt_number = Len(r.attempts)
    /\ r.current_attempt \in {0, r.attempt_number}
    /\ Leased(r) =>
         /\ r.current_attempt # 0
         /\ r.attempts[r.current_attempt].worker_id = r.claimed_by
         /\ r.attempts[r.current_attempt].observed = r.observed
         /\ r.attempts[r.current_attempt].status =
              (IF r.status = "paused" THEN "paused" ELSE "running")
    /\ r.status = "completed" =>
         /\ r.current_attempt # 0
         /\ r.attempts[r.current_attempt].status = "completed"
    /\ \A n \in 1..Len(r.attempts) :
         /\ r.attempts[n].status \in LiveAttempt =>
              n = r.current_attempt /\ Leased(r)
         /\ r.attempts[n].status = "completed" =>
              n = r.current_attempt /\ r.status = "completed"

\* The operator's wish shown by desired_action agrees with the status.
WishAgrees(r) ==
    /\ Leased(r) => (r.desired_action = "pause" <=>
                       r.status \in {"pause_requested", "paused"})
    /\ r.status = "completed" => r.desired_action = "run"

\* Every recovery is followed by exactly one attempt, so a queued job always
\* has an attempt left: the claim that takes it cannot hit the limit.
RecoveryCounted(r) ==
    IF r.status \in {"absent", "queued"}
    THEN /\ r.recovery_count = r.attempt_number
         /\ r.attempt_number < MaxAttempts
    ELSE r.attempt_number = r.recovery_count + 1
=============================================================================
