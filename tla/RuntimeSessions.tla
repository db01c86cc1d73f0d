-------------------------- MODULE RuntimeSessions --------------------------
(***************************************************************************)
(* One runtime job under the transactions SQLite really gives it.          *)
(*                                                                         *)
(* storage/database.py opens pysqlite connections in their default mode: a *)
(* SELECT runs outside any transaction, BEGIN is emitted before the first  *)
(* INSERT or UPDATE, and the write lock is held from there to COMMIT.  A   *)
(* repository method that selects the row, checks its status and flushes   *)
(* the changed columns therefore has two steps, and another session may    *)
(* commit in between; the flush updates by primary key, changed columns    *)
(* only, with no check of what was read.  claim_next is one conditional    *)
(* UPDATE and start_attempt follows under its lock: one step.              *)
(*                                                                         *)
(* Sessions are an operator (pause, resume, recover), the worker threads,  *)
(* and a worker starting up that reconciles leases.  A worker's packet     *)
(* loop is reduced to the transactions an attempt may issue.               *)
(*                                                                         *)
(* Merge_WholeRow is a faulty form of Merge that no action uses.           *)
(***************************************************************************)
EXTENDS RuntimeJobRow

CONSTANTS
    OperatorSession, StarterSession,
    Ending      \* FALSE: explore only transactions that leave an attempt open

Sessions == Workers \union {OperatorSession, StarterSession}

VARIABLES
    row,        \* the committed row
    session,    \* what each session has read and is about to write
    driving     \* the attempt each worker process drives, 0 for none

vars == << row, session, driving >>

\* A transaction in flight: the row as read, and the row the method made of it.
Transaction == [from : RuntimeJob, to : RuntimeJob, ends : BOOLEAN]

TypeOK ==
    /\ row \in RuntimeJob
    /\ session \in [Sessions -> Seq(Transaction)]
    /\ \A s \in Sessions : Len(session[s]) <= 1
    /\ driving \in [Workers -> 0..MaxAttempts]

Init ==
    /\ row = Add(AbsentJob)
    /\ session = [s \in Sessions |-> << >>]
    /\ driving = [w \in Workers |-> 0]

-----------------------------------------------------------------------------
\* The columns a flush writes are those that differ from the row as read.
MergeAttempt(now, from, to) ==
    [f \in DOMAIN now |-> IF to[f] = from[f] THEN now[f] ELSE to[f]]

Merge_WholeRow(now, from, to) ==
    [to EXCEPT !.attempts =
        [n \in DOMAIN now.attempts |->
            IF n \in DOMAIN from.attempts /\ to.attempts[n] # from.attempts[n]
            THEN to.attempts[n] ELSE now.attempts[n]]]
Merge(now, from, to) ==
    [f \in DOMAIN now |->
        IF f = "attempts"
        THEN [n \in DOMAIN now.attempts |->
                IF n \in DOMAIN from.attempts
                THEN MergeAttempt(now.attempts[n], from.attempts[n], to.attempts[n])
                ELSE now.attempts[n]]
        ELSE IF to[f] = from[f] THEN now[f] ELSE to[f]]

Continues(r, S) == {[from |-> r, to |-> t, ends |-> FALSE] : t \in S}
Ends(r, S) == IF Ending THEN {[from |-> r, to |-> t, ends |-> TRUE] : t \in S} ELSE {}

If(condition, t) == IF condition THEN {t} ELSE {}

OperatorTransactions(r) ==
    Continues(r, If(CanRequestPause(r), RequestPause(r))
                 \union If(CanResume(r), Resume(r))
                 \union If(CanRecover(r), Recover(r)))

StarterTransactions(r) == Ends(r, If(CanReconcile(r), Reconcile(r)))

\* control.check on a row it may update: telemetry, then the pause, then the
\* heartbeat if one is due.
CheckResults(r, n) ==
    LET observed == Observe(r, n)
        paused == IF r.status = "pause_requested" THEN MarkPaused(observed) ELSE observed
    IN  {paused, Heartbeat(paused)}

WorkerTransactions(r, w) ==
    Continues(r, If(CanMarkRunning(r, w), MarkRunning(r))
                 \union UNION {CheckResults(r, n) :
                                 n \in {m \in 0..Packets : CanObserve(r, w, m)}})
    \union Ends(r, If(CanComplete(r, w, Packets), Complete(r))
                   \union If(Owned(r, w), Fail(r, FALSE))
                   \union If(Owned(r, w), Fail(r, TRUE))
                   \union If(Owned(r, w), Interrupt(r)))

Available(s, r) ==
    IF s = OperatorSession THEN OperatorTransactions(r)
    ELSE IF s = StarterSession THEN StarterTransactions(r)
    ELSE IF driving[s] # 0 THEN WorkerTransactions(r, s) ELSE {}

-----------------------------------------------------------------------------
\* The SELECT of a method, its checks and its assignments to the loaded row.
Read(s) ==
    /\ session[s] = << >>
    /\ \E t \in Available(s, row) : session' = [session EXCEPT ![s] = << t >>]
    /\ UNCHANGED << row, driving >>

\* The flush and the commit; a worker whose attempt ends drives it no more.
Commit(s) ==
    /\ session[s] # << >>
    /\ LET t == session[s][1]
       IN  /\ row' = Merge(row, t.from, t.to)
           /\ driving' = [w \in Workers |-> IF w = s /\ t.ends THEN 0 ELSE driving[w]]
    /\ session' = [session EXCEPT ![s] = << >>]

\* claim_next and start_attempt.
ClaimJob(w) ==
    /\ driving[w] = 0
    /\ CanClaim(row)
    /\ CanStartAttempt(Claim(row, w), w)
    /\ row' = StartAttempt(Claim(row, w), w)
    /\ driving' = [driving EXCEPT ![w] = row'.current_attempt]
    /\ UNCHANGED session

\* A process dies, with the transaction it had open.
Crash(w) ==
    /\ driving[w] # 0
    /\ driving' = [driving EXCEPT ![w] = 0]
    /\ session' = [session EXCEPT ![w] = << >>]
    /\ UNCHANGED row

\* Leases are points in time: the rows held by open sessions age as well.
Tick ==
    /\ row' = Age(row)
    /\ session' = [s \in Sessions |->
                     [i \in DOMAIN session[s] |->
                        [session[s][i] EXCEPT !.from = Age(@), !.to = Age(@)]]]
    /\ UNCHANGED driving

Next ==
    \/ \E s \in Sessions : Read(s) \/ Commit(s)
    \/ \E w \in Workers : ClaimJob(w) \/ Crash(w)
    \/ Tick

Spec == Init /\ [][Next]_vars

-----------------------------------------------------------------------------
\* The row can be read back: RuntimeJob.validate_state, "claimed runtime states
\* require complete lease identity" and "unclaimed runtime states cannot retain
\* a lease" (runtime/contracts.py).
ReadableRow == RowContract(row)

\* Column-wise flushes keep pauses, telemetry and heartbeats of different
\* sessions from undoing each other: the open attempt still mirrors the row.
OpenAttemptMirrored == AttemptHistory(row)
=============================================================================
