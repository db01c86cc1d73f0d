-------------------------- MODULE RuntimeLifecycle --------------------------
(***************************************************************************)
(* What the durable queue promises the operator, without leases, heartbeat *)
(* clocks, processes, pause requests or transactions.  RuntimeJobs         *)
(* implements it (its definition Lifecycle is the refinement mapping).     *)
(*                                                                         *)
(* A job waits, is held by one worker, is stopped (its attempt ended and   *)
(* another may follow) or is ended.  Its attempts are a history to which   *)
(* entries are appended and of which only the open one is ever changed.    *)
(***************************************************************************)
EXTENDS Naturals, Sequences

CONSTANTS Workers, JobCount, MaxAttempts

VARIABLES
    phase,      \* of every job: absent, waiting, held, stopped or ended
    attempts    \* of every job: who ran it and what became of it

Jobs == 1..JobCount
Outcome == {"interrupted", "failed", "completed"}

Init ==
    /\ phase = [j \in Jobs |-> "absent"]
    /\ attempts = [j \in Jobs |-> << >>]

Waiting == {j \in Jobs : phase[j] = "waiting"}

Closed(j, outcome) == [attempts[j] EXCEPT ![Len(attempts[j])].outcome = outcome]

Submit(j) ==
    /\ phase[j] = "absent"
    /\ \A i \in 1..(j - 1) : phase[i] # "absent"
    /\ phase' = [phase EXCEPT ![j] = "waiting"]
    /\ UNCHANGED attempts

\* A worker takes the oldest waiting job, and every waiting job can be taken.
Take(w, j) ==
    /\ j \in Waiting /\ \A i \in Waiting : j <= i
    /\ Len(attempts[j]) < MaxAttempts
    /\ phase' = [phase EXCEPT ![j] = "held"]
    /\ attempts' = [attempts EXCEPT ![j] = Append(@, [worker |-> w, outcome |-> "open"])]

\* The holder ends its attempt: success is final, a failure may be.
End(j, outcome) ==
    /\ phase[j] = "held"
    /\ \/ outcome = "completed" /\ phase' = [phase EXCEPT ![j] = "ended"]
       \/ outcome = "failed" /\ phase' = [phase EXCEPT ![j] = "ended"]
       \/ outcome # "completed" /\ phase' = [phase EXCEPT ![j] = "stopped"]
    /\ attempts' = [attempts EXCEPT ![j] = Closed(j, outcome)]

\* A starting worker gives up every attempt whose holder is overdue.
GiveUp(S) ==
    /\ \A j \in S : phase[j] = "held"
    /\ phase' = [j \in Jobs |-> IF j \in S THEN "stopped" ELSE phase[j]]
    /\ attempts' = [j \in Jobs |-> IF j \in S THEN Closed(j, "interrupted") ELSE attempts[j]]

Requeue(j) ==
    /\ phase[j] = "stopped" /\ Len(attempts[j]) < MaxAttempts
    /\ phase' = [phase EXCEPT ![j] = "waiting"]
    /\ UNCHANGED attempts

Next ==
    \/ \E j \in Jobs : Submit(j) \/ Requeue(j)
    \/ \E j \in Jobs, w \in Workers : Take(w, j)
    \/ \E j \in Jobs, outcome \in Outcome : End(j, outcome)
    \/ \E S \in SUBSET Jobs : GiveUp(S)

Spec == Init /\ [][Next]_<< phase, attempts >>
=============================================================================
