------------------------- MODULE RuntimeJobsProofs -------------------------
(***************************************************************************)
(* What each lifecycle transition of RuntimeJobRow preserves, and the      *)
(* safety properties of RuntimeJobs, for every number of workers, jobs,    *)
(* attempts, packets, ticks and faults.                                    *)
(***************************************************************************)
EXTENDS RuntimeJobs, SequenceTheorems, TLAPS

-----------------------------------------------------------------------------
(* One row.                                                                *)

\* A job that waits in the queue carries nothing over from an earlier attempt.
Fresh(r) == r.status \in {"absent", "queued"} => r.observed = 0 /\ r.current_attempt = 0

\* What every committed row satisfies: its type, the four row predicates and
\* the strengthening that makes them inductive.
RowOK(r) ==
    /\ r \in RuntimeJob
    /\ RowContract(r)
    /\ WishAgrees(r)
    /\ AttemptHistory(r)
    /\ RecoveryCounted(r)
    /\ Fresh(r)

\* A job that is over never changes again, and neither does an attempt.
Over(r) == r.status = "completed" \/ (r.status = "failed" /\ ~r.retryable)

Kept(r, s) ==
    /\ Over(r) => s = r
    /\ \A n \in 1..Len(r.attempts) :
         r.attempts[n].status \notin LiveAttempt =>
            n <= Len(s.attempts) /\ s.attempts[n] = r.attempts[n]

\* The row s is a sound successor of the row r.
Follows(r, s) == RowOK(s) /\ Kept(r, s)

-----------------------------------------------------------------------------
\* Updating one element of a sequence keeps its length and every other element.
LEMMA UpdateOne ==
    ASSUME NEW S, NEW q \in Seq(S), NEW i, NEW e \in S
    PROVE  LET t == [q EXCEPT ![i] = e]
           IN  /\ t \in Seq(S)
               /\ Len(t) = Len(q)
               /\ \A n \in 1..Len(q) : t[n] = IF n = i THEN e ELSE q[n]
<1>1. CASE i \in 1..Len(q)
  BY <1>1, ExceptSeq
<1>2. CASE i \notin 1..Len(q)
  <2>1. q \in [1..Len(q) -> S] /\ DOMAIN q = 1..Len(q)
    BY LenProperties
  <2>2. [q EXCEPT ![i] = e] = q
    BY <1>2, <2>1
  <2>. QED  BY <2>2, <1>2
<1>. QED  BY <1>1, <1>2

\* The attempts of a row after _set_attempt: only the current one changes.
LEMMA SetAttemptShape ==
    ASSUME NEW r \in RuntimeJob, NEW s \in RuntimeAttemptStatus,
           r.current_attempt \in 0..Len(r.attempts)
    PROVE  LET t == SetAttempt(r, s)
               k == r.current_attempt
           IN  /\ t = [r EXCEPT !.attempts = t.attempts]
               /\ t.attempts \in Seq(RuntimeAttempt)
               /\ Len(t.attempts) = Len(r.attempts)
               /\ \A n \in 1..Len(r.attempts) : n # k => t.attempts[n] = r.attempts[n]
               /\ k # 0 => t.attempts[k] = [r.attempts[k] EXCEPT !.status = s,
                                                                 !.observed = r.observed]
<1> DEFINE k == r.current_attempt
           q == r.attempts
           e == [q[k] EXCEPT !.status = s, !.observed = r.observed]
<1>1. q \in Seq(RuntimeAttempt) /\ Len(q) \in Nat /\ k \in Int
  BY LenProperties DEF RuntimeJob
<1>2. CASE k = 0
  <2>1. k \notin DOMAIN q
    BY <1>1, <1>2, LenProperties
  <2>2. \A f : [q EXCEPT ![k] = f] = q
    BY <2>1, <1>1, LenProperties
  <2>3. SetAttempt(r, s) = r
    BY <2>1, <1>1, LenProperties DEF SetAttempt, RuntimeJob
  <2>. QED  BY <2>3, <1>1, <1>2 DEF RuntimeJob
<1>3. CASE k \in 1..Len(q)
  <2>1. q[k] \in RuntimeAttempt
    BY <1>1, <1>3, ElementOfSeq
  <2>2. e \in RuntimeAttempt
    BY <2>1 DEF RuntimeAttempt, RuntimeJob
  <2>3. SetAttempt(r, s).attempts = [q EXCEPT ![k] = e]
    BY <1>1, <1>3, <2>1, LenProperties DEF SetAttempt, RuntimeJob, RuntimeAttempt
  <2>4. SetAttempt(r, s) = [r EXCEPT !.attempts = SetAttempt(r, s).attempts]
    BY DEF SetAttempt, RuntimeJob
  <2>5. /\ [q EXCEPT ![k] = e] \in Seq(RuntimeAttempt)
        /\ Len([q EXCEPT ![k] = e]) = Len(q)
        /\ \A n \in 1..Len(q) : [q EXCEPT ![k] = e][n] = IF n = k THEN e ELSE q[n]
    BY <1>1, <2>2, UpdateOne
  <2>. QED  BY <2>3, <2>4, <2>5, <1>3
<1>. QED  BY <1>1, <1>2, <1>3

\* A row held by a worker is in a leased state.
LEMMA OwnedIsLeased ==
    ASSUME NEW r, RowOK(r), NEW w \in Workers, Owned(r, w)
    PROVE  Leased(r) /\ ~Over(r)
BY WorkerAssumption DEF RowOK, RowContract, Owned, Leased, Over, LeasedStatus

\* The current attempt of a leased row is its last one, and it is open.
LEMMA LeasedAttempt ==
    ASSUME NEW r, RowOK(r), Leased(r)
    PROVE  /\ Len(r.attempts) \in Nat
           /\ r.current_attempt \in 1..Len(r.attempts)
           /\ r.attempts[r.current_attempt] \in RuntimeAttempt
           /\ r.attempts[r.current_attempt].status \in LiveAttempt
<1>1. r.attempts \in Seq(RuntimeAttempt) /\ r.current_attempt \in 0..MaxAttempts
  BY DEF RowOK, RuntimeJob
<1>2. Len(r.attempts) \in Nat
  BY <1>1, LenProperties
<1>3. r.current_attempt \in 1..Len(r.attempts)
  BY <1>1, <1>2, BoundAssumption DEF RowOK, AttemptHistory
<1>4. r.attempts[r.current_attempt].status \in LiveAttempt
  BY DEF RowOK, AttemptHistory, LiveAttempt
<1>. QED  BY <1>1, <1>2, <1>3, <1>4, ElementOfSeq

-----------------------------------------------------------------------------
\* Composition: sound steps follow one another, and doing nothing is sound.
LEMMA FollowsItself ==
    ASSUME NEW r, RowOK(r)
    PROVE  Follows(r, r)
BY DEF Follows, Kept

LEMMA FollowsTwice ==
    ASSUME NEW r, NEW s, NEW t, RowOK(r), Follows(r, s), Follows(s, t)
    PROVE  Follows(r, t)
<1>1. Over(r) => t = r
  BY DEF Follows, Kept
<1>2. ASSUME NEW n \in 1..Len(r.attempts), r.attempts[n].status \notin LiveAttempt
      PROVE  n <= Len(t.attempts) /\ t.attempts[n] = r.attempts[n]
  <2>1. n <= Len(s.attempts) /\ s.attempts[n] = r.attempts[n]
    BY <1>2 DEF Follows, Kept
  <2>2. Len(s.attempts) \in Nat /\ Len(r.attempts) \in Nat
    BY LenProperties DEF Follows, RowOK, RuntimeJob
  <2>3. n \in 1..Len(s.attempts)
    BY <2>1, <2>2
  <2>. QED  BY <2>1, <2>3, <1>2 DEF Follows, Kept
<1>. QED  BY <1>1, <1>2 DEF Follows, Kept

\* A step that leaves the attempts alone and does not touch a job that is over
\* keeps the history.
LEMMA SameAttemptsKept ==
    ASSUME NEW r, NEW s, RowOK(r), ~Over(r), s.attempts = r.attempts
    PROVE  Kept(r, s)
<1>1. Len(r.attempts) \in Nat
  BY LenProperties DEF RowOK, RuntimeJob
<1>. QED  BY <1>1 DEF Kept

\* So does a step that rewrites the current attempt of a leased row only.
LEMMA CurrentAttemptKept ==
    ASSUME NEW r, NEW s, RowOK(r), Leased(r), ~Over(r),
           Len(s.attempts) = Len(r.attempts),
           \A n \in 1..Len(r.attempts) :
              n # r.current_attempt => s.attempts[n] = r.attempts[n]
    PROVE  Kept(r, s)
BY LeasedAttempt DEF Kept

-----------------------------------------------------------------------------
LEMMA AddFollows ==
    ASSUME NEW r, RowOK(r), CanAdd(r)
    PROVE  Follows(r, Add(r))
<1> DEFINE s == Add(r)
<1>1. s \in RuntimeJob
  BY DEF RowOK, CanAdd, Add, RuntimeJob, Status, RuntimeJobStatus
<1>2. RowContract(s) /\ WishAgrees(s) /\ RecoveryCounted(s) /\ Fresh(s)
  BY DEF Fresh, RowOK, CanAdd, Add, RowContract, WishAgrees, RecoveryCounted, RuntimeJob,
         Leased, LeasedStatus
<1>3. AttemptHistory(s)
  BY DEF RowOK, CanAdd, Add, AttemptHistory, RuntimeJob, Leased, LeasedStatus
<1>4. Kept(r, s)
  BY SameAttemptsKept DEF CanAdd, Add, Over, RowOK, RuntimeJob
<1>. QED  BY <1>1, <1>2, <1>3, <1>4 DEF Follows, RowOK

\* Claim and start_attempt, which run_once calls in one transaction.
LEMMA ClaimFollows ==
    ASSUME NEW r, RowOK(r), NEW w \in Workers, CanClaim(r),
           CanStartAttempt(Claim(r, w), w)
    PROVE  Follows(r, StartAttempt(Claim(r, w), w))
<1> DEFINE q == r.attempts
           a == [status |-> "running", worker_id |-> w, observed |-> 0]
           s == StartAttempt(Claim(r, w), w)
           number == Len(q) + 1
<1>1. q \in Seq(RuntimeAttempt) /\ Len(q) \in Nat
  BY LenProperties DEF RowOK, RuntimeJob
<1>2. a \in RuntimeAttempt
  BY BoundAssumption DEF RuntimeAttempt, RuntimeAttemptStatus
<1>3. /\ Append(q, a) \in Seq(RuntimeAttempt)
      /\ Len(Append(q, a)) = number
      /\ \A n \in 1..Len(q) : Append(q, a)[n] = q[n]
      /\ Append(q, a)[number] = a
  BY <1>1, <1>2, AppendProperties
<1>4. /\ s.attempts = Append(q, a) /\ s.status = "validating"
      /\ s.desired_action = "run" /\ s.claimed_by = w /\ s.lease = LeaseTicks
      /\ s.current_attempt = number /\ s.attempt_number = number
      /\ s.observed = r.observed /\ s.progress = r.progress
      /\ s.recovery_count = r.recovery_count
  BY DEF RowOK, Claim, StartAttempt, RuntimeJob
<1>5. number \in 1..MaxAttempts
  BY <1>1, BoundAssumption DEF CanStartAttempt, Claim, RowOK, RuntimeJob
<1>6. s \in RuntimeJob
  <2>1. Claim(r, w) \in RuntimeJob /\ Claim(r, w).attempts = q
    <3>1. /\ "validating" \in Status /\ w \in Workers \union {NoWorker}
          /\ LeaseTicks \in NoLease..LeaseTicks /\ "run" \in {"run", "pause"}
      BY BoundAssumption DEF Status, RuntimeJobStatus, NoLease
    <3>. QED  BY <3>1 DEF RowOK, Claim, RuntimeJob
  <2>2. s = [Claim(r, w) EXCEPT !.current_attempt = number, !.attempt_number = number,
                                !.attempts = Append(q, a)]
    BY <2>1 DEF StartAttempt
  <2>3. number \in 0..MaxAttempts /\ Append(q, a) \in Seq(RuntimeAttempt)
    BY <1>3, <1>5
  <2>. HIDE DEF number, a, q, s
  <2>. QED  BY <2>1, <2>2, <2>3 DEF RuntimeJob
<1>7. RowContract(s) /\ WishAgrees(s)
  BY <1>4, WorkerAssumption, BoundAssumption
     DEF RowOK, RowContract, WishAgrees, CanClaim, Leased, LeasedStatus, NoLease
<1>8. RecoveryCounted(s)
  BY <1>1, <1>4 DEF RowOK, RecoveryCounted, AttemptHistory, CanClaim
<1>9. AttemptHistory(s)
  <2>1. \A n \in 1..Len(q) : q[n].status \notin LiveAttempt \union {"completed"}
    BY DEF RowOK, AttemptHistory, CanClaim, Leased, LeasedStatus
  <2>2. \A n \in 1..Len(s.attempts) : n # number => s.attempts[n] = q[n] /\ n \in 1..Len(q)
    BY <1>1, <1>3, <1>4
  <2>3. s.attempts[number] = a /\ Len(s.attempts) = number /\ number # 0
    BY <1>1, <1>3, <1>4
  <2>4. r.observed = 0
    BY DEF RowOK, Fresh, CanClaim
  <2>. QED  BY <1>4, <2>1, <2>2, <2>3, <2>4 DEF AttemptHistory, LiveAttempt, Leased, LeasedStatus
<1>10. Kept(r, s)
  BY <1>1, <1>3, <1>4 DEF Kept, Over, CanClaim
<1>11. Fresh(s)
  BY <1>4 DEF Fresh
<1>. QED  BY <1>6, <1>7, <1>8, <1>9, <1>10, <1>11 DEF Follows, RowOK

-----------------------------------------------------------------------------
LEMMA MarkRunningFollows ==
    ASSUME NEW r, RowOK(r), NEW w \in Workers, CanMarkRunning(r, w)
    PROVE  Follows(r, MarkRunning(r))
<1> DEFINE s == MarkRunning(r)
<1>1. s \in RuntimeJob
  BY DEF RowOK, MarkRunning, RuntimeJob, Status, RuntimeJobStatus
<1>2. RowContract(s) /\ WishAgrees(s) /\ RecoveryCounted(s) /\ Fresh(s)
  BY DEF RowOK, CanMarkRunning, MarkRunning, RowContract, WishAgrees, RecoveryCounted,
         Fresh, RuntimeJob, Leased, LeasedStatus
<1>3. AttemptHistory(s)
  BY DEF RowOK, CanMarkRunning, MarkRunning, AttemptHistory, RuntimeJob, Leased, LeasedStatus
<1>4. Kept(r, s)
  BY SameAttemptsKept DEF CanMarkRunning, MarkRunning, Over, RowOK, RuntimeJob
<1>. QED  BY <1>1, <1>2, <1>3, <1>4 DEF Follows, RowOK

LEMMA HeartbeatFollows ==
    ASSUME NEW r, RowOK(r), NEW w \in Workers, CanHeartbeat(r, w)
    PROVE  Follows(r, Heartbeat(r))
<1> DEFINE s == Heartbeat(r)
<1>1. s \in RuntimeJob
  BY BoundAssumption DEF RowOK, Heartbeat, RuntimeJob, NoLease
<1>2. RowContract(s) /\ WishAgrees(s) /\ RecoveryCounted(s) /\ Fresh(s)
  BY BoundAssumption
     DEF RowOK, CanHeartbeat, Heartbeat, RowContract, WishAgrees, RecoveryCounted,
         Fresh, RuntimeJob, Leased, NoLease
<1>3. AttemptHistory(s)
  BY DEF RowOK, CanHeartbeat, Heartbeat, AttemptHistory, RuntimeJob, Leased
<1>4. Kept(r, s)
  BY SameAttemptsKept, OwnedIsLeased DEF CanHeartbeat, Heartbeat, RowOK, RuntimeJob
<1>. QED  BY <1>1, <1>2, <1>3, <1>4 DEF Follows, RowOK

LEMMA RequestPauseFollows ==
    ASSUME NEW r, RowOK(r), CanRequestPause(r)
    PROVE  Follows(r, RequestPause(r))
<1> DEFINE s == RequestPause(r)
<1>1. s \in RuntimeJob
  BY DEF RowOK, RequestPause, RuntimeJob, Status, RuntimeJobStatus
<1>2. RowContract(s) /\ WishAgrees(s) /\ RecoveryCounted(s) /\ Fresh(s)
  BY DEF RowOK, CanRequestPause, RequestPause, RowContract, WishAgrees, RecoveryCounted,
         Fresh, RuntimeJob, Leased, LeasedStatus
<1>3. AttemptHistory(s)
  BY DEF RowOK, CanRequestPause, RequestPause, AttemptHistory, RuntimeJob, Leased, LeasedStatus
<1>4. Kept(r, s)
  <2>1. ~Over(r)
    BY DEF CanRequestPause, Over
  <2>2. s.attempts = r.attempts
    BY DEF RequestPause, RowOK, RuntimeJob
  <2>. QED  BY <2>1, <2>2, SameAttemptsKept
<1>. QED  BY <1>1, <1>2, <1>3, <1>4 DEF Follows, RowOK

LEMMA RecoverFollows ==
    ASSUME NEW r, RowOK(r), CanRecover(r)
    PROVE  Follows(r, Recover(r))
<1> DEFINE s == Recover(r)
<1>1. /\ s.status = "queued" /\ s.desired_action = "run" /\ s.claimed_by = NoWorker
      /\ s.lease = NoLease /\ s.observed = 0 /\ s.progress = 0 /\ s.current_attempt = 0
      /\ s.recovery_count = r.recovery_count + 1 /\ s.attempts = r.attempts
      /\ s.attempt_number = r.attempt_number /\ s.retryable = r.retryable
  BY DEF RowOK, Recover, ClearLease, RuntimeJob
<1>2. r.recovery_count + 1 = r.attempt_number
  BY DEF RowOK, RecoveryCounted, CanRecover, RuntimeJob
<1>3. s \in RuntimeJob
  <2>1. /\ "queued" \in Status /\ NoLease \in NoLease..LeaseTicks /\ 0 \in 0..Packets
        /\ 0 \in 0..MaxAttempts /\ r.recovery_count + 1 \in 0..MaxAttempts
    BY <1>2, BoundAssumption DEF Status, RuntimeJobStatus, NoLease, RowOK, RuntimeJob
  <2>. QED  BY <2>1 DEF RowOK, Recover, ClearLease, RuntimeJob
<1>4. RowContract(s) /\ WishAgrees(s) /\ Fresh(s)
  BY <1>1 DEF RowContract, WishAgrees, Fresh, Leased, LeasedStatus
<1>5. RecoveryCounted(s)
  BY <1>1, <1>2 DEF RecoveryCounted, CanRecover
<1>6. AttemptHistory(s)
  BY <1>1 DEF RowOK, CanRecover, AttemptHistory, Leased, LeasedStatus
<1>7. Kept(r, s)
  BY <1>1, SameAttemptsKept DEF CanRecover, Over
<1>. QED  BY <1>3, <1>4, <1>5, <1>6, <1>7 DEF Follows, RowOK

LEMMA AgeFollows ==
    ASSUME NEW r, RowOK(r)
    PROVE  Follows(r, Age(r))
<1>1. CASE r.lease >= 0
  <2> DEFINE s == [r EXCEPT !.lease = @ - 1]
  <2>1. Age(r) = s /\ Leased(r)
    BY <1>1 DEF Age, RowOK, RowContract, NoLease
  <2>2. s \in RuntimeJob
    BY <1>1, BoundAssumption DEF RowOK, RuntimeJob, NoLease
  <2>3. RowContract(s) /\ WishAgrees(s) /\ RecoveryCounted(s) /\ Fresh(s)
    BY <1>1, <2>1 DEF RowOK, RowContract, WishAgrees, RecoveryCounted, Fresh,
                      RuntimeJob, Leased, NoLease
  <2>4. AttemptHistory(s)
    BY DEF RowOK, AttemptHistory, RuntimeJob, Leased
  <2>5. Kept(r, s)
    BY <2>1, SameAttemptsKept DEF Over, Leased, LeasedStatus, RowOK, RuntimeJob
  <2>. QED  BY <2>1, <2>2, <2>3, <2>4, <2>5 DEF Follows, RowOK
<1>2. CASE ~(r.lease >= 0)
  BY <1>2, FollowsItself DEF Age
<1>. QED  BY <1>1, <1>2

-----------------------------------------------------------------------------
\* What _set_attempt makes of a leased row b that still has r's attempts.
LEMMA AttemptRewritten ==
    ASSUME NEW r, RowOK(r), Leased(r), NEW b \in RuntimeJob,
           b.attempts = r.attempts, b.current_attempt = r.current_attempt,
           NEW st \in RuntimeAttemptStatus
    PROVE  LET t == SetAttempt(b, st)
               k == r.current_attempt
           IN  /\ t = [b EXCEPT !.attempts = t.attempts]
               /\ t.attempts \in Seq(RuntimeAttempt)
               /\ Len(t.attempts) = Len(r.attempts)
               /\ k \in 1..Len(r.attempts)
               /\ k = r.attempt_number
               /\ t.attempts[k].status = st
               /\ t.attempts[k].observed = b.observed
               /\ t.attempts[k].worker_id = r.claimed_by
               /\ \A n \in 1..Len(r.attempts) : n # k =>
                    /\ t.attempts[n] = r.attempts[n]
                    /\ t.attempts[n].status \notin LiveAttempt \union {"completed"}
<1> DEFINE t == SetAttempt(b, st)
           k == r.current_attempt
<1>1. Len(r.attempts) \in Nat /\ k \in 1..Len(r.attempts) /\ k # 0
      /\ r.attempts[k] \in RuntimeAttempt
  BY LeasedAttempt
<1>2. /\ t = [b EXCEPT !.attempts = t.attempts]
      /\ t.attempts \in Seq(RuntimeAttempt)
      /\ Len(t.attempts) = Len(r.attempts)
      /\ \A n \in 1..Len(r.attempts) : n # k => t.attempts[n] = r.attempts[n]
      /\ t.attempts[k] = [r.attempts[k] EXCEPT !.status = st, !.observed = b.observed]
  <2>1. b.current_attempt \in 0..Len(b.attempts)
    BY <1>1
  <2>2. /\ t = [b EXCEPT !.attempts = t.attempts]
        /\ t.attempts \in Seq(RuntimeAttempt)
        /\ Len(t.attempts) = Len(b.attempts)
        /\ \A n \in 1..Len(b.attempts) : n # b.current_attempt =>
              t.attempts[n] = b.attempts[n]
        /\ b.current_attempt # 0 =>
              t.attempts[b.current_attempt] =
                 [b.attempts[b.current_attempt] EXCEPT !.status = st, !.observed = b.observed]
    BY <2>1, SetAttemptShape
  <2>. QED  BY <1>1, <2>2
<1>3. /\ t.attempts[k].status = st
      /\ t.attempts[k].observed = b.observed
      /\ t.attempts[k].worker_id = r.attempts[k].worker_id
  BY <1>1, <1>2 DEF RuntimeAttempt
<1>4. r.attempts[k].worker_id = r.claimed_by /\ k = r.attempt_number
  BY <1>1 DEF RowOK, AttemptHistory
<1>5. \A n \in 1..Len(r.attempts) : n # k =>
        r.attempts[n].status \notin LiveAttempt \union {"completed"}
  BY DEF RowOK, AttemptHistory
<1>. QED  BY <1>1, <1>2, <1>3, <1>4, <1>5

\* A leased row that stays leased by the same worker: pause and resume.
LEMMA StaysOpen ==
    ASSUME NEW r, RowOK(r), Leased(r), ~Over(r), NEW b \in RuntimeJob,
           b.attempts = r.attempts, b.current_attempt = r.current_attempt,
           b.attempt_number = r.attempt_number, b.claimed_by = r.claimed_by,
           b.lease = r.lease, b.progress = r.progress,
           b.recovery_count = r.recovery_count, WishAgrees(b),
           \/ b.status = "running" /\ r.status # "validating"
           \/ b.status = "paused",
           NEW st \in LiveAttempt, st = "paused" <=> b.status = "paused"
    PROVE  Follows(r, SetAttempt(b, st))
<1> DEFINE t == SetAttempt(b, st)
           k == r.current_attempt
<1>1. st \in RuntimeAttemptStatus /\ st \in {"running", "paused"}
  BY DEF LiveAttempt, RuntimeAttemptStatus
<1>2. /\ t = [b EXCEPT !.attempts = t.attempts]
      /\ t.attempts \in Seq(RuntimeAttempt)
      /\ Len(t.attempts) = Len(r.attempts)
      /\ k \in 1..Len(r.attempts) /\ k = r.attempt_number
      /\ t.attempts[k].status = st
      /\ t.attempts[k].observed = b.observed
      /\ t.attempts[k].worker_id = r.claimed_by
      /\ \A n \in 1..Len(r.attempts) : n # k =>
            /\ t.attempts[n] = r.attempts[n]
            /\ t.attempts[n].status \notin LiveAttempt \union {"completed"}
  BY <1>1, AttemptRewritten
<1>3. Len(r.attempts) \in Nat /\ r.attempt_number = Len(r.attempts)
  BY LeasedAttempt DEF RowOK, AttemptHistory
<1> HIDE DEF t, k
<1>4. /\ t.status = b.status /\ t.desired_action = b.desired_action
      /\ t.claimed_by = b.claimed_by /\ t.lease = b.lease
      /\ t.attempt_number = b.attempt_number /\ t.current_attempt = k
      /\ t.observed = b.observed /\ t.progress = b.progress
      /\ t.recovery_count = b.recovery_count
  BY <1>2 DEF RuntimeJob, k
<1>5. t \in RuntimeJob
  BY <1>2 DEF RuntimeJob
<1>6. RowContract(t) /\ WishAgrees(t) /\ RecoveryCounted(t) /\ Fresh(t)
  BY <1>4 DEF RowOK, RowContract, WishAgrees, RecoveryCounted, Fresh, Leased, LeasedStatus
<1>7. AttemptHistory(t)
  <2>1. t.attempt_number = Len(t.attempts) /\ t.current_attempt \in {0, t.attempt_number}
    BY <1>2, <1>3, <1>4
  <2>2. /\ t.current_attempt # 0
        /\ t.attempts[t.current_attempt].worker_id = t.claimed_by
        /\ t.attempts[t.current_attempt].observed = t.observed
        /\ t.attempts[t.current_attempt].status =
              (IF t.status = "paused" THEN "paused" ELSE "running")
    BY <1>1, <1>2, <1>3, <1>4
  <2>3. Leased(t) /\ t.status # "completed"
    BY <1>4 DEF Leased, LeasedStatus
  <2>4. ASSUME NEW n \in 1..Len(t.attempts)
        PROVE  /\ t.attempts[n].status \in LiveAttempt => n = t.current_attempt
               /\ t.attempts[n].status # "completed"
    BY <1>1, <1>2, <1>4
  <2>. QED  BY <2>1, <2>2, <2>3, <2>4 DEF AttemptHistory
<1>8. Kept(r, t)
  BY <1>2, CurrentAttemptKept DEF k
<1>. QED  BY <1>5, <1>6, <1>7, <1>8 DEF Follows, RowOK, t

LEMMA MarkPausedFollows ==
    ASSUME NEW r, RowOK(r), NEW w \in Workers, CanMarkPaused(r, w)
    PROVE  Follows(r, MarkPaused(r))
<1> DEFINE b == [r EXCEPT !.status = "paused"]
<1>1. b \in RuntimeJob
  BY DEF RowOK, RuntimeJob, Status, RuntimeJobStatus
<1>2. Leased(r) /\ ~Over(r)
  BY OwnedIsLeased DEF CanMarkPaused
<1>3. /\ b.attempts = r.attempts /\ b.current_attempt = r.current_attempt
      /\ b.attempt_number = r.attempt_number /\ b.claimed_by = r.claimed_by
      /\ b.lease = r.lease /\ b.progress = r.progress
      /\ b.recovery_count = r.recovery_count /\ b.status = "paused"
      /\ b.desired_action = r.desired_action
  BY DEF RowOK, RuntimeJob
<1>4. WishAgrees(b)
  BY <1>2, <1>3 DEF RowOK, CanMarkPaused, WishAgrees, Leased, LeasedStatus
<1> HIDE DEF b
<1>5. "paused" \in LiveAttempt
  BY DEF LiveAttempt
<1>6. Follows(r, SetAttempt(b, "paused"))
  BY <1>1, <1>2, <1>3, <1>4, <1>5, StaysOpen
<1>. QED  BY <1>6 DEF MarkPaused, b

LEMMA ResumeFollows ==
    ASSUME NEW r, RowOK(r), CanResume(r)
    PROVE  Follows(r, Resume(r))
<1> DEFINE b == [r EXCEPT !.status = "running", !.desired_action = "run"]
<1>1. b \in RuntimeJob
  BY DEF RowOK, RuntimeJob, Status, RuntimeJobStatus
<1>2. Leased(r) /\ ~Over(r) /\ r.status # "validating"
  BY DEF CanResume, Leased, LeasedStatus, Over
<1>3. /\ b.attempts = r.attempts /\ b.current_attempt = r.current_attempt
      /\ b.attempt_number = r.attempt_number /\ b.claimed_by = r.claimed_by
      /\ b.lease = r.lease /\ b.progress = r.progress
      /\ b.recovery_count = r.recovery_count /\ b.status = "running"
      /\ b.desired_action = "run"
  BY DEF RowOK, RuntimeJob
<1>4. WishAgrees(b)
  BY <1>3 DEF WishAgrees, Leased, LeasedStatus
<1> HIDE DEF b
<1>5. "running" \in LiveAttempt
  BY DEF LiveAttempt
<1>6. Follows(r, SetAttempt(b, "running"))
  BY <1>1, <1>2, <1>3, <1>4, <1>5, StaysOpen
<1>. QED  BY <1>6 DEF Resume, b

\* A leased row whose attempt ends: complete, fail, interrupt, reconcile_stale.
LEMMA EndsAttempt ==
    ASSUME NEW r, RowOK(r), Leased(r), ~Over(r), NEW b \in RuntimeJob,
           b.attempts = r.attempts, b.current_attempt = r.current_attempt,
           b.attempt_number = r.attempt_number,
           b.recovery_count = r.recovery_count,
           \/ /\ b.status = "completed" /\ b.progress = 1
              /\ b.observed = Packets /\ b.desired_action = "run"
           \/ b.status \in {"failed", "recovery_pending"} /\ b.progress = 0,
           NEW st \in RuntimeAttemptStatus, st \notin LiveAttempt,
           st = "completed" <=> b.status = "completed"
    PROVE  Follows(r, ClearLease(SetAttempt(b, st)))
<1> DEFINE a == SetAttempt(b, st)
           t == ClearLease(a)
           k == r.current_attempt
<1>1. /\ a = [b EXCEPT !.attempts = a.attempts]
      /\ a.attempts \in Seq(RuntimeAttempt)
      /\ Len(a.attempts) = Len(r.attempts)
      /\ k \in 1..Len(r.attempts) /\ k = r.attempt_number
      /\ a.attempts[k].status = st
      /\ \A n \in 1..Len(r.attempts) : n # k =>
            /\ a.attempts[n] = r.attempts[n]
            /\ a.attempts[n].status \notin LiveAttempt \union {"completed"}
  BY AttemptRewritten
<1>2. Len(r.attempts) \in Nat /\ r.attempt_number = Len(r.attempts) /\ k # 0
  BY LeasedAttempt DEF RowOK, AttemptHistory
<1> HIDE DEF a, k
<1>3. /\ t.status = b.status /\ t.desired_action = b.desired_action
      /\ t.claimed_by = NoWorker /\ t.lease = NoLease
      /\ t.attempt_number = b.attempt_number /\ t.current_attempt = k
      /\ t.observed = b.observed /\ t.progress = b.progress
      /\ t.recovery_count = b.recovery_count /\ t.attempts = a.attempts
  BY <1>1 DEF RuntimeJob, ClearLease, k
<1>4. t \in RuntimeJob
  <2>1. a \in RuntimeJob
    BY <1>1 DEF RuntimeJob
  <2>2. NoLease \in NoLease..LeaseTicks
    BY BoundAssumption DEF NoLease
  <2>. QED  BY <2>1, <2>2 DEF ClearLease, RuntimeJob
<1> HIDE DEF t
<1>5. ~Leased(t)
  BY <1>3 DEF Leased, LeasedStatus
<1>6. RowContract(t)
  BY <1>3, <1>5 DEF RowContract
<1>7. WishAgrees(t) /\ Fresh(t)
  BY <1>3, <1>5 DEF WishAgrees, Fresh
<1>8. RecoveryCounted(t)
  BY <1>3 DEF RowOK, RecoveryCounted, Leased, LeasedStatus
<1>9. AttemptHistory(t)
  <2>1. t.attempt_number = Len(t.attempts) /\ t.current_attempt \in {0, t.attempt_number}
    BY <1>1, <1>2, <1>3
  <2>2. t.status = "completed" =>
          t.current_attempt # 0 /\ t.attempts[t.current_attempt].status = "completed"
    BY <1>1, <1>2, <1>3
  <2>3. ASSUME NEW n \in 1..Len(t.attempts)
        PROVE  /\ t.attempts[n].status \notin LiveAttempt
               /\ t.attempts[n].status = "completed" =>
                    n = t.current_attempt /\ t.status = "completed"
    BY <1>1, <1>3
  <2>. QED  BY <1>5, <2>1, <2>2, <2>3 DEF AttemptHistory
<1>10. Kept(r, t)
  BY <1>1, <1>3, CurrentAttemptKept DEF k
<1>. QED  BY <1>4, <1>6, <1>7, <1>8, <1>9, <1>10 DEF Follows, RowOK, t, a

LEMMA CompleteFollows ==
    ASSUME NEW r, RowOK(r), NEW w \in Workers, NEW n, CanComplete(r, w, n)
    PROVE  Follows(r, Complete(r))
<1> DEFINE b == [r EXCEPT !.status = "completed", !.desired_action = "run",
                          !.observed = Packets, !.progress = 1]
<1>1. b \in RuntimeJob
  <2>1. "completed" \in Status /\ Packets \in 0..Packets
    BY BoundAssumption DEF Status, RuntimeJobStatus
  <2>. QED  BY <2>1 DEF RowOK, RuntimeJob
<1>2. Leased(r) /\ ~Over(r)
  BY OwnedIsLeased DEF CanComplete
<1>3. /\ b.attempts = r.attempts /\ b.current_attempt = r.current_attempt
      /\ b.attempt_number = r.attempt_number /\ b.recovery_count = r.recovery_count
      /\ b.status = "completed" /\ b.progress = 1 /\ b.observed = Packets
      /\ b.desired_action = "run"
  BY DEF RowOK, RuntimeJob
<1> HIDE DEF b
<1>4. "completed" \in RuntimeAttemptStatus /\ "completed" \notin LiveAttempt
  BY DEF RuntimeAttemptStatus, LiveAttempt
<1>5. Follows(r, ClearLease(SetAttempt(b, "completed")))
  BY <1>1, <1>2, <1>3, <1>4, EndsAttempt
<1>. QED  BY <1>5 DEF Complete, b

LEMMA FailFollows ==
    ASSUME NEW r, RowOK(r), NEW w \in Workers, Owned(r, w), NEW again \in BOOLEAN
    PROVE  Follows(r, Fail(r, again))
<1> DEFINE b == [r EXCEPT !.status = "failed", !.retryable = again]
<1>1. b \in RuntimeJob
  BY DEF RowOK, RuntimeJob, Status, RuntimeJobStatus
<1>2. Leased(r) /\ ~Over(r)
  BY OwnedIsLeased
<1>3. /\ b.attempts = r.attempts /\ b.current_attempt = r.current_attempt
      /\ b.attempt_number = r.attempt_number /\ b.recovery_count = r.recovery_count
      /\ b.status = "failed" /\ b.progress = 0
  BY <1>2 DEF RowOK, RowContract, RuntimeJob, Over
<1> HIDE DEF b
<1>4. "failed" \in RuntimeAttemptStatus /\ "failed" \notin LiveAttempt
  BY DEF RuntimeAttemptStatus, LiveAttempt
<1>5. Follows(r, ClearLease(SetAttempt(b, "failed")))
  BY <1>1, <1>2, <1>3, <1>4, EndsAttempt
<1>. QED  BY <1>5 DEF Fail, b

LEMMA InterruptFollows ==
    ASSUME NEW r, RowOK(r), Leased(r)
    PROVE  Follows(r, Interrupt(r))
<1> DEFINE b == [r EXCEPT !.status = "recovery_pending", !.retryable = TRUE]
<1>1. b \in RuntimeJob
  BY DEF RowOK, RuntimeJob, Status, RuntimeJobStatus
<1>2. ~Over(r)
  BY DEF Leased, LeasedStatus, Over
<1>3. /\ b.attempts = r.attempts /\ b.current_attempt = r.current_attempt
      /\ b.attempt_number = r.attempt_number /\ b.recovery_count = r.recovery_count
      /\ b.status = "recovery_pending" /\ b.progress = 0
  BY <1>2 DEF RowOK, RowContract, RuntimeJob, Over
<1> HIDE DEF b
<1>4. "interrupted" \in RuntimeAttemptStatus /\ "interrupted" \notin LiveAttempt
  BY DEF RuntimeAttemptStatus, LiveAttempt
<1>5. Follows(r, ClearLease(SetAttempt(b, "interrupted")))
  BY <1>1, <1>2, <1>3, <1>4, EndsAttempt
<1>. QED  BY <1>5 DEF Interrupt, b

LEMMA ReconcileFollows ==
    ASSUME NEW r, RowOK(r)
    PROVE  Follows(r, Reconcile(r))
BY InterruptFollows, FollowsItself DEF Reconcile, CanReconcile

LEMMA ObserveFollows ==
    ASSUME NEW r, RowOK(r), NEW w \in Workers, NEW n \in 0..Packets, CanObserve(r, w, n)
    PROVE  Follows(r, Observe(r, n))
<1> DEFINE q == r.attempts
           k == r.current_attempt
           e == [q[k] EXCEPT !.observed = n]
           t == Observe(r, n)
<1>1. Leased(r) /\ ~Over(r)
  BY OwnedIsLeased DEF CanObserve
<1>2. /\ q \in Seq(RuntimeAttempt) /\ Len(q) \in Nat /\ k \in 1..Len(q)
      /\ q[k] \in RuntimeAttempt /\ k = r.attempt_number
  BY <1>1, LeasedAttempt DEF RowOK, RuntimeJob, AttemptHistory
<1>3. e \in RuntimeAttempt /\ e.status = q[k].status /\ e.worker_id = q[k].worker_id
      /\ e.observed = n
  BY <1>2 DEF RuntimeAttempt
<1>4. /\ [q EXCEPT ![k] = e] \in Seq(RuntimeAttempt)
      /\ Len([q EXCEPT ![k] = e]) = Len(q)
      /\ \A i \in 1..Len(q) : [q EXCEPT ![k] = e][i] = IF i = k THEN e ELSE q[i]
  BY <1>2, <1>3, UpdateOne
<1>5. /\ t.status = r.status /\ t.desired_action = r.desired_action
      /\ t.claimed_by = r.claimed_by /\ t.lease = r.lease
      /\ t.attempt_number = r.attempt_number /\ t.current_attempt = k
      /\ t.observed = n /\ t.progress = r.progress
      /\ t.recovery_count = r.recovery_count /\ t.attempts = [q EXCEPT ![k] = e]
  BY DEF Observe, RowOK, RuntimeJob
<1>6. t \in RuntimeJob
  <2>1. t = [r EXCEPT !.observed = n, !.attempts = [q EXCEPT ![k] = e]]
    BY DEF Observe, RowOK, RuntimeJob
  <2> HIDE DEF q, k, e, t
  <2>. QED  BY <1>4, <2>1 DEF RowOK, RuntimeJob
<1> HIDE DEF t, e
<1>7. RowContract(t) /\ WishAgrees(t) /\ RecoveryCounted(t) /\ Fresh(t)
  BY <1>1, <1>5 DEF RowOK, RowContract, WishAgrees, RecoveryCounted, Fresh, Leased, LeasedStatus
<1>8. AttemptHistory(t)
  <2>1. t.attempts[k] = e /\ Len(t.attempts) = Len(q)
        /\ \A i \in 1..Len(q) : i # k => t.attempts[i] = q[i]
    BY <1>2, <1>4, <1>5
  <2>. QED  BY <1>1, <1>2, <1>3, <1>5, <2>1 DEF RowOK, AttemptHistory, Leased
<1>9. Kept(r, t)
  BY <1>1, <1>2, <1>4, <1>5, CurrentAttemptKept
<1>. QED  BY <1>6, <1>7, <1>8, <1>9 DEF Follows, RowOK, t

-----------------------------------------------------------------------------
(* All rows and the processes.                                             *)

\* A process past its claim knows the job it claimed.
Assigned == \A w \in Workers : proc[w].pc \notin {"off", "idle", "exit"} => proc[w].job \in Jobs

\* The inductive invariant: types, the processes' jobs, and sound rows.
IInv ==
    /\ TypeOK
    /\ Assigned
    /\ \A j \in Jobs : RowOK(jobs[j])

\* What a step does to the table of jobs, seen from the rows.
RowsFollow ==
    /\ jobs' \in [Jobs -> RuntimeJob]
    /\ \A j \in Jobs : Follows(jobs[j], jobs'[j])

\* The steps that sample resources, whether or not the sampler works.
Controlled(w) == \E broken \in BOOLEAN : ControlTurn(w, broken)
Waited(w) == \E broken \in BOOLEAN : PausedTurn(w, broken)
Sampled(w) == \E broken \in BOOLEAN : SampleTurn(w, broken)

\* A step of the thread of worker w.
Turn(w) ==
    \/ PollEmpty(w) \/ ClaimJob(w) \/ PreflightOk(w)
    \/ Capture(w) \/ EndOfCapture(w)
    \/ NoBatch(w) \/ ObserveBatch(w) \/ PersistBatch(w) \/ Correlate(w)
    \/ Controlled(w) \/ Waited(w) \/ StopSeen(w)
    \/ Finish(w) \/ Sampled(w) \/ RecordFailure(w) \/ RecordInterrupt(w)
    \/ Release(w) \/ LeaveLoop(w) \/ Exit(w)

LEMMA ThreadsTakeTurns ==
    ASSUME NEW w \in Workers, Advance(w) \/ SamplerFails(w)
    PROVE  Turn(w)
BY DEF Advance, SamplerFails, Turn, Check, PauseTurn, Sample, Controlled, Waited, Sampled

-----------------------------------------------------------------------------
LEMMA RowOfProcess ==
    ASSUME IInv, NEW w \in Workers, proc[w].pc \notin {"off", "idle", "exit"}
    PROVE  /\ proc[w].job \in Jobs /\ RowOK(JobOf(w))
           /\ proc[w].seen \in 0..Packets /\ proc[w].again \in BOOLEAN
BY DEF IInv, Assigned, JobOf, TypeOK, Process

LEMMA WriteFollows ==
    ASSUME IInv, NEW w \in Workers, proc[w].job \in Jobs, NEW row,
           Follows(JobOf(w), row), Write(w, row)
    PROVE  RowsFollow
<1>1. row \in RuntimeJob
  BY DEF Follows, RowOK
<1>2. jobs' \in [Jobs -> RuntimeJob]
  BY <1>1 DEF Write, IInv, TypeOK
<1>3. ASSUME NEW j \in Jobs
      PROVE  Follows(jobs[j], jobs'[j])
  <2>1. CASE j = proc[w].job
    BY <2>1 DEF Write, IInv, TypeOK, JobOf
  <2>2. CASE j # proc[w].job
    <3>1. jobs'[j] = jobs[j]
      BY <2>2 DEF Write, IInv, TypeOK
    <3>. QED  BY <3>1, FollowsItself DEF IInv
  <2>. QED  BY <2>1, <2>2
<1>. QED  BY <1>2, <1>3 DEF RowsFollow

LEMMA UpdateFollows ==
    ASSUME IInv, NEW j \in Jobs, NEW row, Follows(jobs[j], row),
           jobs' = [jobs EXCEPT ![j] = row]
    PROVE  RowsFollow
<1>1. row \in RuntimeJob
  BY DEF Follows, RowOK
<1>2. jobs' \in [Jobs -> RuntimeJob]
  BY <1>1 DEF IInv, TypeOK
<1>3. ASSUME NEW i \in Jobs
      PROVE  Follows(jobs[i], jobs'[i])
  <2>1. CASE i = j
    BY <2>1 DEF IInv, TypeOK
  <2>2. CASE i # j
    <3>1. jobs'[i] = jobs[i]
      BY <2>2 DEF IInv, TypeOK
    <3>. QED  BY <3>1, FollowsItself DEF IInv
  <2>. QED  BY <2>1, <2>2
<1>. QED  BY <1>2, <1>3 DEF RowsFollow

LEMMA UnchangedFollows ==
    ASSUME IInv, jobs' = jobs
    PROVE  RowsFollow
BY FollowsItself DEF RowsFollow, IInv, TypeOK

\* The transaction of control.check: telemetry, the pause, the heartbeat.
LEMMA CheckFollows ==
    ASSUME NEW r, RowOK(r), NEW w \in Workers, NEW n \in 0..Packets, CanObserve(r, w, n),
           NEW due \in BOOLEAN
    PROVE  LET observed == Observe(r, n)
               paused == IF r.status = "pause_requested" THEN MarkPaused(observed) ELSE observed
           IN  Follows(r, IF due THEN Heartbeat(paused) ELSE paused)
<1> DEFINE observed == Observe(r, n)
           paused == IF r.status = "pause_requested" THEN MarkPaused(observed) ELSE observed
<1>1. Follows(r, observed) /\ RowOK(observed)
  BY ObserveFollows DEF Follows
<1>2. observed.status = r.status /\ observed.claimed_by = r.claimed_by
  BY DEF Observe, RowOK, RuntimeJob
<1> HIDE DEF observed
<1>3. /\ Follows(r, paused) /\ RowOK(paused) /\ Owned(paused, w)
      /\ paused.status \in {"running", "pause_requested", "paused"}
  <2>1. CASE r.status = "pause_requested"
    <3>1. CanMarkPaused(observed, w)
      BY <1>2, <2>1 DEF CanMarkPaused, CanObserve, Owned
    <3>2. Follows(observed, MarkPaused(observed))
      BY <1>1, <3>1, MarkPausedFollows
    <3>3. Follows(r, MarkPaused(observed))
      BY <1>1, <3>2, FollowsTwice
    <3>4. /\ MarkPaused(observed).status = "paused"
          /\ MarkPaused(observed).claimed_by = observed.claimed_by
      BY <1>1 DEF MarkPaused, SetAttempt, RowOK, RuntimeJob
    <3>. QED  BY <1>2, <2>1, <3>3, <3>4 DEF Follows, Owned, CanObserve
  <2>2. CASE r.status # "pause_requested"
    BY <1>1, <1>2, <2>2 DEF CanObserve, Owned
  <2>. QED  BY <2>1, <2>2
<1> HIDE DEF paused
<1>4. CanHeartbeat(paused, w)
  BY <1>3 DEF CanHeartbeat, Leased, LeasedStatus
<1>5. Follows(r, Heartbeat(paused))
  BY <1>3, <1>4, HeartbeatFollows, FollowsTwice
<1>. QED  BY <1>3, <1>5 DEF paused, observed

-----------------------------------------------------------------------------
\* Every step leaves every row sound and changes no job or attempt that is over.
LEMMA RowsStep ==
    ASSUME IInv, [Next]_vars
    PROVE  RowsFollow
<1>1. ASSUME NEW j \in Jobs, Operator(j)
      PROVE  RowsFollow
  <2>0. RowOK(jobs[j])
    BY DEF IInv
  <2>1. CASE CreateReplay(j)
    BY <2>0, <2>1, AddFollows, UpdateFollows DEF CreateReplay
  <2>2. CASE Pause(j)
    BY <2>0, <2>2, RequestPauseFollows, UpdateFollows DEF Pause
  <2>3. CASE ResumeReplay(j)
    BY <2>0, <2>3, ResumeFollows, UpdateFollows DEF ResumeReplay
  <2>4. CASE RecoverReplay(j)
    BY <2>0, <2>4, RecoverFollows, UpdateFollows DEF RecoverReplay
  <2>. QED  BY <1>1, <2>1, <2>2, <2>3, <2>4 DEF Operator
<1>2. ASSUME NEW w \in Workers, Start(w)
      PROVE  RowsFollow
  <2>1. \A j \in Jobs : Follows(jobs[j], Reconcile(jobs[j]))
    BY ReconcileFollows DEF IInv
  <2>2. jobs' = [j \in Jobs |-> Reconcile(jobs[j])]
    BY <1>2 DEF Start
  <2>. QED  BY <2>1, <2>2 DEF RowsFollow, Follows, RowOK
<1>3. ASSUME NEW w \in Workers, Turn(w)
      PROVE  RowsFollow
  <2>1. CASE ClaimJob(w)
    <3>1. PICK j \in Jobs :
            /\ CanClaim(jobs[j]) /\ CanStartAttempt(Claim(jobs[j], w), w)
            /\ jobs' = [jobs EXCEPT ![j] = StartAttempt(Claim(jobs[j], w), w)]
      BY <2>1 DEF ClaimJob, Queued
    <3>2. Follows(jobs[j], StartAttempt(Claim(jobs[j], w), w))
      BY <3>1, ClaimFollows DEF IInv
    <3>. QED  BY <3>1, <3>2, UpdateFollows
  <2>2. CASE PreflightOk(w)
    <3>1. CASE jobs' = jobs
      BY <3>1, UnchangedFollows
    <3>2. CASE CanMarkRunning(JobOf(w), w) /\ Write(w, MarkRunning(JobOf(w)))
      BY <2>2, <3>2, RowOfProcess, MarkRunningFollows, WriteFollows DEF PreflightOk
    <3>. QED  BY <2>2, <3>1, <3>2 DEF PreflightOk, Refused
  <2>3. CASE ObserveBatch(w)
    <3>1. CASE jobs' = jobs
      BY <3>1, UnchangedFollows
    <3>2. CASE CanObserve(JobOf(w), w, proc[w].seen) /\ Write(w, Observe(JobOf(w), proc[w].seen))
      BY <2>3, <3>2, RowOfProcess, ObserveFollows, WriteFollows DEF ObserveBatch
    <3>. QED  BY <2>3, <3>1, <3>2 DEF ObserveBatch, Refused
  <2>4. CASE Controlled(w)
    <3>0. /\ proc[w].pc \notin {"off", "idle", "exit"}
          /\ proc[w].job \in Jobs /\ RowOK(JobOf(w)) /\ proc[w].seen \in 0..Packets
      BY <2>4, RowOfProcess DEF Controlled, ControlTurn, ControlPoint
    <3>1. CASE jobs' = jobs
      BY <3>1, UnchangedFollows
    <3>2. CASE /\ CanObserve(JobOf(w), w, proc[w].seen)
               /\ LET row == JobOf(w)
                      due == HeartbeatDue(w)
                      observed == Observe(row, proc[w].seen)
                      paused == IF row.status = "pause_requested"
                                THEN MarkPaused(observed) ELSE observed
                  IN  Write(w, IF due THEN Heartbeat(paused) ELSE paused)
      <4>1. HeartbeatDue(w) \in BOOLEAN
        BY DEF HeartbeatDue
      <4>. QED  BY <3>0, <3>2, <4>1, CheckFollows, WriteFollows
    <3>. QED  BY <2>4, <3>1, <3>2 DEF Controlled, ControlTurn, Refused
  <2>5. CASE Waited(w)
    <3>1. CASE jobs' = jobs
      BY <3>1, UnchangedFollows
    <3>2. CASE CanHeartbeat(JobOf(w), w) /\ Write(w, Heartbeat(JobOf(w)))
      BY <2>5, <3>2, RowOfProcess, HeartbeatFollows, WriteFollows DEF Waited, PausedTurn
    <3>. QED  BY <2>5, <3>1, <3>2 DEF Waited, PausedTurn, Refused
  <2>6. CASE StopSeen(w)
    <3>1. CASE jobs' = jobs
      BY <3>1, UnchangedFollows
    <3>2. CASE CanObserve(JobOf(w), w, proc[w].seen) /\ Write(w, Observe(JobOf(w), proc[w].seen))
      BY <2>6, <3>2, RowOfProcess, ObserveFollows, WriteFollows DEF StopSeen, ControlPoint
    <3>. QED  BY <2>6, <3>1, <3>2 DEF StopSeen, Refused
  <2>7. CASE Finish(w)
    <3>1. CASE jobs' = jobs
      BY <3>1, UnchangedFollows
    <3>2. CASE CanComplete(JobOf(w), w, proc[w].seen) /\ Write(w, Complete(JobOf(w)))
      BY <2>7, <3>2, RowOfProcess, CompleteFollows, WriteFollows DEF Finish
    <3>. QED  BY <2>7, <3>1, <3>2 DEF Finish, Refused
  <2>8. CASE RecordFailure(w)
    <3>1. CASE jobs' = jobs
      BY <3>1, UnchangedFollows
    <3>2. CASE Owned(JobOf(w), w) /\ Write(w, Fail(JobOf(w), proc[w].again))
      BY <2>8, <3>2, RowOfProcess, FailFollows, WriteFollows DEF RecordFailure
    <3>. QED  BY <2>8, <3>1, <3>2 DEF RecordFailure
  <2>9. CASE RecordInterrupt(w)
    <3>1. CASE jobs' = jobs
      BY <3>1, UnchangedFollows
    <3>2. CASE Owned(JobOf(w), w) /\ Write(w, Interrupt(JobOf(w)))
      BY <2>9, <3>2, RowOfProcess, OwnedIsLeased, InterruptFollows, WriteFollows
         DEF RecordInterrupt
    <3>. QED  BY <2>9, <3>1, <3>2 DEF RecordInterrupt
  <2>10. CASE \/ PollEmpty(w) \/ Capture(w) \/ EndOfCapture(w) \/ NoBatch(w)
              \/ PersistBatch(w) \/ Correlate(w) \/ Sampled(w) \/ Release(w)
              \/ LeaveLoop(w) \/ Exit(w)
    <3>1. jobs' = jobs
      BY <2>10 DEF PollEmpty, Capture, EndOfCapture, NoBatch, PersistBatch, Correlate,
                   Sampled, SampleTurn, Release, LeaveLoop, Exit, Refused
    <3>. QED  BY <3>1, UnchangedFollows
  <2>. QED  BY <1>3, <2>1, <2>2, <2>3, <2>4, <2>5, <2>6, <2>7, <2>8, <2>9, <2>10 DEF Turn
<1>4. ASSUME NEW w \in Workers, Fault(w), ~SamplerFails(w)
      PROVE  RowsFollow
  <2>1. CASE jobs' = jobs
    BY <2>1, UnchangedFollows
  <2>2. CASE PipelineError(w) /\ jobs' # jobs
    BY <2>2, RowOfProcess, ObserveFollows, WriteFollows DEF PipelineError
  <2>. QED
    BY <1>4, <2>1, <2>2
       DEF Fault, PollError, DatabaseError, PipelineError, RecordLost, Crash, Signal
<1>5. CASE Tick
  <2>1. \A j \in Jobs : Follows(jobs[j], Age(jobs[j]))
    BY AgeFollows DEF IInv
  <2>2. jobs' = [j \in Jobs |-> Age(jobs[j])]
    BY <1>5 DEF Tick
  <2>. QED  BY <2>1, <2>2 DEF RowsFollow, Follows, RowOK
<1>6. CASE UNCHANGED vars
  BY <1>6, UnchangedFollows DEF vars
<1>. QED  BY <1>1, <1>2, <1>3, <1>4, <1>5, <1>6, ThreadsTakeTurns DEF Next

-----------------------------------------------------------------------------
\* The variables beside the table of jobs keep their types, and processes past
\* their claim keep a job.
Others ==
    /\ workers \in [Workers -> WorkerRow]
    /\ proc \in [Workers -> Process]
    /\ stop \in [Workers -> BOOLEAN]
    /\ faults \in 0..MaxFaults
    /\ Assigned

LEMMA NoProcessType ==
    NoProcess \in Process
BY BoundAssumption, TimingAssumption DEF NoProcess, Process, Point

LEMMA WorkerTypes ==
    ASSUME IInv, NEW w \in Workers
    PROVE  /\ \A beats, broken \in BOOLEAN :
                Monitor(w, beats, broken) => workers' \in [Workers -> WorkerRow]
           /\ \A s \in WorkerStatus : Upsert(w, s) => workers' \in [Workers -> WorkerRow]
           /\ UNCHANGED workers => workers' \in [Workers -> WorkerRow]
<1>0. workers \in [Workers -> WorkerRow] /\ workers[w] \in WorkerRow /\ 0 \in 0..(StaleTicks + 1)
  BY TimingAssumption DEF IInv, TypeOK
<1>1. ASSUME NEW beats \in BOOLEAN, NEW broken \in BOOLEAN, Monitor(w, beats, broken)
      PROVE  workers' \in [Workers -> WorkerRow]
  <2>1. Monitored(workers[w], beats, broken) \in WorkerRow
    BY <1>0 DEF Monitored, WorkerRow, WorkerStatus
  <2>. QED  BY <1>0, <1>1, <2>1 DEF Monitor
<1>2. ASSUME NEW s \in WorkerStatus, Upsert(w, s)
      PROVE  workers' \in [Workers -> WorkerRow]
  <2>1. [workers[w] EXCEPT !.status = s, !.age = 0] \in WorkerRow
    BY <1>0 DEF WorkerRow
  <2>. QED  BY <1>0, <1>2, <2>1 DEF Upsert
<1>. QED  BY <1>0, <1>1, <1>2

\* The assignments the actions make to the state of one process.
LEMMA Assignments ==
    ASSUME NEW p \in Process, NEW pc \in Point
    PROVE  /\ \A flag \in BOOLEAN :
                /\ [p EXCEPT !.pc = pc, !.again = flag] \in Process
                /\ [p EXCEPT !.pc = pc, !.dying = flag] \in Process
                /\ [p EXCEPT !.pc = pc, !.eof = flag] \in Process
           /\ \A b \in 0..HeartbeatTicks : [p EXCEPT !.pc = pc, !.beat = b] \in Process
<1>1. \A flag \in BOOLEAN : [p EXCEPT !.pc = pc, !.again = flag] \in Process
  BY DEF Process
<1>2. \A flag \in BOOLEAN : [p EXCEPT !.pc = pc, !.dying = flag] \in Process
  BY DEF Process
<1>3. \A flag \in BOOLEAN : [p EXCEPT !.pc = pc, !.eof = flag] \in Process
  BY DEF Process
<1>4. \A b \in 0..HeartbeatTicks : [p EXCEPT !.pc = pc, !.beat = b] \in Process
  BY DEF Process
<1>. QED  BY <1>1, <1>2, <1>3, <1>4

\* Where a control point leads, and what it does to the process.
LEMMA ControlMoves ==
    ASSUME NEW w \in Workers, Controlled(w)
    PROVE  \/ \E s : proc' = [proc EXCEPT ![w].pc = PointAfter(s), ![w].beat = 0]
           \/ \E s : proc' = [proc EXCEPT ![w].pc = PointAfter(s), ![w].beat = @]
           \/ \E s : Goto(w, PointAfter(s))
           \/ CaughtError(w, FALSE)
<1>1. PICK broken \in BOOLEAN : ControlTurn(w, broken)
  BY DEF Controlled
<1>. QED  BY <1>1 DEF ControlTurn, Refused

\* A process moves to another point with the job it has.
LEMMA MoveType ==
    ASSUME IInv, NEW w \in Workers, NEW p \in Process,
           proc' = [proc EXCEPT ![w] = p],
           p.pc \in {"off", "idle", "exit"} \/ p.job \in Jobs
    PROVE  proc' \in [Workers -> Process] /\ Assigned'
<1>1. proc' \in [Workers -> Process]
  BY DEF IInv, TypeOK
<1>2. \A v \in Workers : proc'[v] = IF v = w THEN p ELSE proc[v]
  BY DEF IInv, TypeOK
<1>. QED  BY <1>1, <1>2 DEF IInv, Assigned

LEMMA GotoType ==
    ASSUME IInv, NEW w \in Workers, NEW pc \in Point, Goto(w, pc),
           pc \in {"off", "idle", "exit"} \/ proc[w].job \in Jobs
    PROVE  proc' \in [Workers -> Process] /\ Assigned'
<1> DEFINE p == [proc[w] EXCEPT !.pc = pc]
<1>1. p \in Process /\ p.pc = pc /\ p.job = proc[w].job
  BY DEF IInv, TypeOK, Process
<1>2. proc' = [proc EXCEPT ![w] = p]
  BY DEF Goto
<1>. QED  BY <1>1, <1>2, MoveType

LEMMA CaughtErrorType ==
    ASSUME IInv, NEW w \in Workers, NEW retryable \in BOOLEAN, CaughtError(w, retryable),
           proc[w].job \in Jobs
    PROVE  proc' \in [Workers -> Process] /\ Assigned'
<1> DEFINE p == [proc[w] EXCEPT !.pc = "failing", !.again = retryable]
<1>0. proc[w] \in Process /\ "failing" \in Point
  BY DEF IInv, TypeOK, Point
<1>1. p \in Process /\ p.job = proc[w].job
  <2>1. p \in Process
    BY <1>0, Assignments
  <2>2. p.job = proc[w].job
    BY <1>0 DEF Process
  <2>. QED  BY <2>1, <2>2
<1>2. proc' = [proc EXCEPT ![w] = p]
  BY DEF CaughtError, IInv, TypeOK, Process
<1>. QED  BY <1>1, <1>2, MoveType

LEMMA ProcStep ==
    ASSUME IInv, [Next]_vars
    PROVE  proc' \in [Workers -> Process] /\ Assigned'
<1> DEFINE Good == proc' \in [Workers -> Process] /\ Assigned'
<1>1. CASE UNCHANGED proc
  BY <1>1 DEF IInv, TypeOK, Assigned
<1>2. ASSUME NEW w \in Workers, Start(w)
      PROVE  Good
  <2> DEFINE p == [NoProcess EXCEPT !.pc = "idle"]
  <2>1. p \in Process /\ p.pc = "idle"
    BY NoProcessType DEF Process, Point
  <2>2. proc' = [proc EXCEPT ![w] = p]
    BY <1>2 DEF Start
  <2>. QED  BY <2>1, <2>2, MoveType
<1>3. ASSUME NEW w \in Workers, Turn(w)
      PROVE  Good
  <2>0. proc[w].pc \notin {"off", "idle", "exit"} => proc[w].job \in Jobs
    BY RowOfProcess
  <2>1. CASE ClaimJob(w)
    <3>1. PICK j \in Jobs :
            /\ CanClaim(jobs[j]) /\ CanStartAttempt(Claim(jobs[j], w), w)
            /\ proc' = [proc EXCEPT ![w] =
                          [NoProcess EXCEPT !.pc = "preflight", !.job = j,
                             !.attempt = StartAttempt(Claim(jobs[j], w), w).current_attempt]]
      BY <2>1 DEF ClaimJob, Queued
    <3> DEFINE a == StartAttempt(Claim(jobs[j], w), w).current_attempt
               p == [NoProcess EXCEPT !.pc = "preflight", !.job = j, !.attempt = a]
    <3>2. a \in 0..MaxAttempts
      BY <3>1, ClaimFollows DEF IInv, Follows, RowOK, RuntimeJob
    <3> HIDE DEF a
    <3>3. p \in Process /\ p.job = j
      BY <3>2, NoProcessType DEF Process, Point
    <3>4. proc' = [proc EXCEPT ![w] = p]
      BY <3>1 DEF a
    <3>. QED  BY <3>3, <3>4, MoveType
  <2>2. CASE \E pc \in Point :
               Goto(w, pc) /\ (pc \in {"off", "idle", "exit"} \/ proc[w].job \in Jobs)
    BY <2>2, GotoType
  <2>3. CASE CaughtError(w, FALSE) /\ proc[w].job \in Jobs
    BY <2>3, CaughtErrorType
  <2>4. CASE Capture(w)
    <3> DEFINE p == [proc[w] EXCEPT !.pc = "captured", !.seen = @ + 1]
    <3>1. p \in Process /\ p.job = proc[w].job
      BY <2>4, BoundAssumption DEF Capture, IInv, TypeOK, Process, Point
    <3>2. proc' = [proc EXCEPT ![w] = p]
      BY <2>4 DEF Capture, IInv, TypeOK, Process
    <3>. QED  BY <2>0, <2>4, <3>1, <3>2, MoveType DEF Capture
  <2>5. CASE EndOfCapture(w)
    <3> DEFINE p == [proc[w] EXCEPT !.pc = "captured", !.eof = TRUE]
    <3>0. proc[w] \in Process /\ "captured" \in Point
      BY DEF IInv, TypeOK, Point
    <3>1. p \in Process /\ p.job = proc[w].job
      <4>1. p \in Process
        BY <3>0, Assignments
      <4>2. p.job = proc[w].job
        BY <3>0 DEF Process
      <4>. QED  BY <4>1, <4>2
    <3>2. proc' = [proc EXCEPT ![w] = p]
      BY <2>5 DEF EndOfCapture, IInv, TypeOK, Process
    <3>. QED  BY <2>0, <2>5, <3>1, <3>2, MoveType DEF EndOfCapture
  <2>6. CASE Controlled(w)
    <3>0. proc[w].job \in Jobs
      BY <2>0, <2>6 DEF Controlled, ControlTurn, ControlPoint
    <3>1. CASE \E pc \in {"paused", "loop"}, b \in 0..HeartbeatTicks :
                 proc' = [proc EXCEPT ![w].pc = pc, ![w].beat = b]
      <4>1. PICK pc \in {"paused", "loop"}, b \in 0..HeartbeatTicks :
                   proc' = [proc EXCEPT ![w].pc = pc, ![w].beat = b]
        BY <3>1
      <4> DEFINE p == [proc[w] EXCEPT !.pc = pc, !.beat = b]
      <4>0. proc[w] \in Process /\ pc \in Point
        BY DEF IInv, TypeOK, Point
      <4>2. p \in Process /\ p.job = proc[w].job
        <5>1. p \in Process
          BY <4>0, Assignments
        <5>2. p.job = proc[w].job
          BY <4>0 DEF Process
        <5>. QED  BY <5>1, <5>2
      <4>3. proc' = [proc EXCEPT ![w] = p]
        BY <4>1 DEF IInv, TypeOK, Process
      <4>. QED  BY <3>0, <4>2, <4>3, MoveType
    <3>2. CASE \E s : Goto(w, PointAfter(s))
      <4>1. \A s : PointAfter(s) \in Point
        BY DEF PointAfter, Point
      <4>. QED  BY <2>2, <3>0, <3>2, <4>1
    <3>3. proc[w].beat \in 0..HeartbeatTicks /\ 0 \in 0..HeartbeatTicks
      BY TimingAssumption DEF IInv, TypeOK, Process
    <3>. QED  BY <2>3, <2>6, <3>0, <3>1, <3>2, <3>3, ControlMoves DEF PointAfter
  <2>7. CASE Waited(w)
    <3>0. proc[w].job \in Jobs
      BY <2>0, <2>7 DEF Waited, PausedTurn
    <3>1. CASE proc' = [proc EXCEPT ![w].beat = 0]
      <4> DEFINE p == [proc[w] EXCEPT !.beat = 0]
      <4>1. p \in Process /\ p.job = proc[w].job
        BY TimingAssumption DEF IInv, TypeOK, Process
      <4>2. proc' = [proc EXCEPT ![w] = p]
        BY <3>1
      <4>. QED  BY <3>0, <4>1, <4>2, MoveType
    <3>. QED  BY <1>1, <2>2, <2>3, <2>7, <3>0, <3>1
             DEF Waited, PausedTurn, Refused, Point
  <2>8. CASE proc' = [proc EXCEPT ![w].pc = "release", ![w].dying = TRUE]
             /\ proc[w].job \in Jobs
    <3> DEFINE p == [proc[w] EXCEPT !.pc = "release", !.dying = TRUE]
    <3>0. proc[w] \in Process /\ "release" \in Point
      BY DEF IInv, TypeOK, Point
    <3>1. p \in Process /\ p.job = proc[w].job
      <4>1. p \in Process
        BY <3>0, Assignments
      <4>2. p.job = proc[w].job
        BY <3>0 DEF Process
      <4>. QED  BY <4>1, <4>2
    <3>2. proc' = [proc EXCEPT ![w] = p]
      BY <2>8 DEF IInv, TypeOK, Process
    <3>. QED  BY <2>8, <3>1, <3>2, MoveType
  <2>9. CASE Release(w)
    <3> DEFINE p == [NoProcess EXCEPT !.pc = IF proc[w].dying THEN "exit" ELSE "idle"]
    <3>1. p \in Process /\ p.pc \in {"exit", "idle"}
      BY NoProcessType DEF Process, Point
    <3>2. proc' = [proc EXCEPT ![w] = p]
      BY <2>9 DEF Release
    <3>. QED  BY <3>1, <3>2, MoveType
  <2>10. CASE Exit(w)
    <3>1. NoProcess \in Process /\ NoProcess.pc = "off"
      BY NoProcessType DEF NoProcess
    <3>. QED  BY <2>10, <3>1, MoveType DEF Exit
  <2>. QED
    BY <1>1, <1>3, <2>0, <2>1, <2>2, <2>3, <2>4, <2>5, <2>6, <2>7, <2>8, <2>9, <2>10
       DEF Turn, PollEmpty, PreflightOk, NoBatch, AfterBatch, ObserveBatch, PersistBatch,
           Correlate, StopSeen, ControlPoint, Finish, Sampled, SampleTurn, RecordFailure,
           RecordInterrupt, LeaveLoop, Refused, Point
<1>4. ASSUME NEW w \in Workers, Fault(w), ~SamplerFails(w)
      PROVE  Good
  <2>0. proc[w].pc \notin {"off", "idle", "exit"} => proc[w].job \in Jobs
    BY RowOfProcess
  <2>1. CASE PollError(w)
    BY <2>1, GotoType DEF PollError, Point
  <2>2. CASE DatabaseError(w) \/ PipelineError(w)
    BY <2>0, <2>2, CaughtErrorType DEF DatabaseError, PipelineError
  <2>3. CASE RecordLost(w)
    <3> DEFINE pc == IF proc[w].pc = "release" THEN "exit" ELSE "release"
               p == [proc[w] EXCEPT !.pc = pc, !.dying = TRUE]
    <3>0. proc[w] \in Process /\ pc \in Point
      BY DEF IInv, TypeOK, Point
    <3> HIDE DEF pc
    <3>1. p \in Process /\ p.job = proc[w].job
      <4>1. p \in Process
        BY <3>0, Assignments
      <4>2. p.job = proc[w].job
        BY <3>0 DEF Process
      <4>. QED  BY <4>1, <4>2
    <3>2. proc' = [proc EXCEPT ![w] = p]
      BY <2>3 DEF RecordLost, IInv, TypeOK, Process, pc
    <3>. QED  BY <2>0, <2>3, <3>1, <3>2, MoveType DEF RecordLost
  <2>4. CASE Crash(w)
    <3>1. NoProcess \in Process /\ NoProcess.pc = "off"
      BY NoProcessType DEF NoProcess
    <3>. QED  BY <2>4, <3>1, MoveType DEF Crash
  <2>. QED  BY <1>1, <1>4, <2>1, <2>2, <2>3, <2>4 DEF Fault, Signal
<1>5. CASE Tick
  <2>1. \A w \in Workers : /\ proc'[w] \in Process
                           /\ proc'[w].pc = proc[w].pc /\ proc'[w].job = proc[w].job
    <3>1. SUFFICES ASSUME NEW w \in Workers
                   PROVE  /\ proc'[w] \in Process
                          /\ proc'[w].pc = proc[w].pc /\ proc'[w].job = proc[w].job
      OBVIOUS
    <3> DEFINE b == Older(proc[w].beat, HeartbeatTicks)
    <3>2. proc[w] \in Process /\ proc[w].beat \in 0..HeartbeatTicks
      BY DEF IInv, TypeOK, Process
    <3>3. b \in 0..HeartbeatTicks
      BY <3>2, TimingAssumption DEF Older
    <3>4. proc'[w] = proc[w] \/ proc'[w] = [proc[w] EXCEPT !.beat = b]
      BY <1>5 DEF Tick
    <3> HIDE DEF b
    <3>. QED  BY <3>2, <3>3, <3>4 DEF Process
  <2>2. proc' \in [Workers -> Process]
    BY <1>5, <2>1 DEF Tick
  <2>. QED  BY <2>1, <2>2 DEF IInv, Assigned
<1>. QED
  BY <1>1, <1>2, <1>3, <1>4, <1>5, ThreadsTakeTurns
     DEF Next, vars, Operator, CreateReplay, Pause, ResumeReplay, RecoverReplay

LEMMA OthersStep ==
    ASSUME IInv, [Next]_vars
    PROVE  Others'
<1> USE DEF IInv, TypeOK
<1>1. workers' \in [Workers -> WorkerRow]
  <2>1. CASE UNCHANGED workers
    BY <2>1
  <2>2. ASSUME NEW w \in Workers, Start(w)
        PROVE  workers' \in [Workers -> WorkerRow]
    BY <2>2, TimingAssumption DEF Start, FreshWorker, WorkerRow, WorkerStatus
  <2>3. ASSUME NEW w \in Workers, \/ \E beats, broken \in BOOLEAN : Monitor(w, beats, broken)
                                  \/ \E s \in WorkerStatus : Upsert(w, s)
        PROVE  workers' \in [Workers -> WorkerRow]
    BY <2>3, WorkerTypes
  <2>4. ASSUME NEW w \in Workers, Turn(w), workers' # workers
        PROVE  \/ \E beats, broken \in BOOLEAN : Monitor(w, beats, broken)
               \/ \E s \in WorkerStatus : Upsert(w, s)
    BY <2>4
       DEF Turn, PollEmpty, ClaimJob, PreflightOk, Capture, EndOfCapture, NoBatch,
           ObserveBatch, PersistBatch, Correlate, Controlled, ControlTurn, Waited,
           PausedTurn, StopSeen, Finish, Sampled, SampleTurn, RecordFailure,
           RecordInterrupt, Release, LeaveLoop, Exit, Refused, HeartbeatDue, WorkerStatus
  <2>5. ASSUME Tick
        PROVE  workers' \in [Workers -> WorkerRow]
    <3>1. \A w \in Workers : workers[w] \in WorkerRow /\ workers[w].age \in 0..(StaleTicks + 1)
      BY DEF WorkerRow
    <3>2. \A n \in 0..(StaleTicks + 1) : Older(n, StaleTicks + 1) \in 0..(StaleTicks + 1)
      BY TimingAssumption DEF Older
    <3>. QED  BY <2>5, <3>1, <3>2, TimingAssumption DEF Tick, WorkerRow
  <2>. QED
    BY <2>1, <2>2, <2>3, <2>4, <2>5, ThreadsTakeTurns
       DEF Next, vars, Operator, CreateReplay, Pause, ResumeReplay, RecoverReplay, Fault,
           PollError, DatabaseError, PipelineError, RecordLost, Crash, Signal
<1>2. /\ stop' \in [Workers -> BOOLEAN]
      /\ faults' = faults \/ Injected
  <2>1. CASE UNCHANGED << stop, faults >>
    BY <2>1
  <2>2. ASSUME NEW j \in Jobs, Operator(j)
        PROVE  UNCHANGED << stop, faults >>
    BY <2>2 DEF Operator, CreateReplay, Pause, ResumeReplay, RecoverReplay
  <2>3. ASSUME NEW w \in Workers, Start(w)
        PROVE  stop' = [stop EXCEPT ![w] = FALSE] /\ faults' = faults
    BY <2>3 DEF Start
  <2>4. ASSUME NEW w \in Workers, Advance(w)
        PROVE  UNCHANGED << stop, faults >>
    BY <2>4
       DEF Advance, Check, PauseTurn, Sample, PollEmpty, ClaimJob, PreflightOk, Capture,
           EndOfCapture, NoBatch, ObserveBatch, PersistBatch, Correlate, Controlled,
           ControlTurn, Waited, PausedTurn, StopSeen, Finish, Sampled, SampleTurn,
           RecordFailure, RecordInterrupt, Release, LeaveLoop, Exit
  <2>5. ASSUME NEW w \in Workers, Fault(w)
        PROVE  Injected /\ (stop' = stop \/ stop' = [stop EXCEPT ![w] = TRUE])
    BY <2>5
       DEF Fault, PollError, DatabaseError, PipelineError, SamplerFails, ControlTurn,
           PausedTurn, SampleTurn, RecordLost, Crash, Signal
  <2>6. ASSUME Tick
        PROVE  UNCHANGED << stop, faults >>
    BY <2>6 DEF Tick
  <2>. QED  BY <2>1, <2>2, <2>3, <2>4, <2>5, <2>6 DEF Next, vars
<1>3. faults' \in 0..MaxFaults
  BY <1>2, TimingAssumption DEF Injected
<1>. QED  BY <1>1, <1>2, <1>3, ProcStep DEF Others

LEMMA InitOK ==
    ASSUME Init
    PROVE  IInv
<1>1. RowOK(AbsentJob)
  <2>1. << >> \in Seq(RuntimeAttempt) /\ Len(<< >>) = 0
    BY EmptySeq
  <2>2. AbsentJob \in RuntimeJob
    BY <2>1, BoundAssumption DEF AbsentJob, RuntimeJob, Status, NoLease
  <2>. QED
    BY <2>1, <2>2, BoundAssumption
       DEF AbsentJob, RowOK, RowContract, AttemptHistory, WishAgrees, RecoveryCounted,
           Fresh, Leased, LeasedStatus, NoLease
<1>2. TypeOK
  BY <1>1, NoProcessType, TimingAssumption
     DEF Init, TypeOK, RowOK, FreshWorker, WorkerRow, WorkerStatus
<1>3. Assigned
  BY DEF Init, Assigned, NoProcess
<1>. QED  BY <1>1, <1>2, <1>3 DEF IInv, Init

LEMMA InvStep ==
    ASSUME IInv, [Next]_vars
    PROVE  IInv' /\ RowsFollow
BY RowsStep, OthersStep DEF IInv, RowsFollow, Follows, Others, TypeOK

LEMMA Invariance ==
    Spec => []IInv
<1>1. Init => IInv
  BY InitOK
<1>2. IInv /\ [Next]_vars => IInv'
  BY InvStep
<1>. QED  BY <1>1, <1>2, PTL DEF Spec

-----------------------------------------------------------------------------
\* Every value the tables and the processes ever hold is of its type; among
\* others attempt numbers and recovery counts never pass the attempt limit.
THEOREM TypeCorrect ==
    Spec => []TypeOK
<1>1. IInv => TypeOK
  BY DEF IInv
<1>. QED  BY <1>1, Invariance, PTL

\* Every row a transaction commits satisfies the contract that is checked when
\* it is read back: no transition of job_transitions.py can make a job
\* unreadable, whatever the interleaving of whole transactions.
THEOREM RowsAreValid ==
    Spec => []RowsValid
<1>1. IInv => RowsValid
  BY DEF IInv, RowsValid, RowOK
<1>. QED  BY <1>1, Invariance, PTL

\* The attempt history agrees with the row of the job: one open attempt, the
\* lease holder's, mirroring the observed progress.
THEOREM HistoriesAreValid ==
    Spec => []HistoryValid
<1>1. IInv => HistoryValid
  BY DEF IInv, HistoryValid, RowOK
<1>. QED  BY <1>1, Invariance, PTL

\* The two counts of a job's attempts agree, so that the job at the head of
\* the queue can always be claimed.
THEOREM QueueFlows ==
    Spec => []QueueNeverJams
<1>1. IInv => QueueNeverJams
  BY DEF IInv, QueueNeverJams, RowOK
<1>. QED  BY <1>1, Invariance, PTL

\* Completed jobs and permanently failed jobs never change again.
EndedIsFinal ==
    [][\A j \in Jobs :
          \/ jobs[j].status = "completed"
          \/ jobs[j].status = "failed" /\ ~jobs[j].retryable
          => jobs'[j] = jobs[j]]_vars

\* An attempt that ended keeps its worker, status and observed progress as
\* historical evidence (docs/runtime_recovery.md).
HistoryIsKept ==
    [][\A j \in Jobs : \A n \in 1..Len(jobs[j].attempts) :
          jobs[j].attempts[n].status \notin LiveAttempt =>
              /\ n <= Len(jobs'[j].attempts)
              /\ jobs'[j].attempts[n] = jobs[j].attempts[n]]_vars

\* A job that completed or failed for good is never touched again.
THEOREM EndedStaysEnded ==
    Spec => EndedIsFinal
<1>1. ASSUME IInv, [Next]_vars
      PROVE  [\A j \in Jobs : \/ jobs[j].status = "completed"
                              \/ jobs[j].status = "failed" /\ ~jobs[j].retryable
                             => jobs'[j] = jobs[j]]_vars
  BY <1>1, InvStep DEF RowsFollow, Follows, Kept, Over
<1>. QED  BY <1>1, Invariance, PTL DEF Spec, EndedIsFinal

\* No step rewrites or drops an attempt that ended.
THEOREM HistoryStays ==
    Spec => HistoryIsKept
<1>1. ASSUME IInv, [Next]_vars
      PROVE  [\A j \in Jobs : \A n \in 1..Len(jobs[j].attempts) :
                 jobs[j].attempts[n].status \notin LiveAttempt =>
                     /\ n <= Len(jobs'[j].attempts)
                     /\ jobs'[j].attempts[n] = jobs[j].attempts[n]]_vars
  BY <1>1, InvStep DEF RowsFollow, Follows, Kept
<1>. QED  BY <1>1, Invariance, PTL DEF Spec, HistoryIsKept
=============================================================================
