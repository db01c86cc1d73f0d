--------------------------- MODULE MCRuntimeJobs ---------------------------
(***************************************************************************)
(* Instances of RuntimeJobs for TLC.  Worker names are interchangeable.    *)
(***************************************************************************)
EXTENDS RuntimeJobs, FiniteSets, TLC

Symmetry == Permutations(Workers)

\* Two workers act on one job with every fault; once there are two jobs, one worker,
\* which may die and start again under its name, and one fault.
Started == {w \in Workers : workers[w].status # "absent"}
TwoJobs == jobs[1] # AbsentJob /\ jobs[2] # AbsentJob

BoundedNext ==
    \/ \E j \in Jobs : (j = 1 \/ (Cardinality(Started) <= 1 /\ faults <= 1)) /\ CreateReplay(j)
    \/ \E j \in Jobs : Pause(j) \/ ResumeReplay(j) \/ RecoverReplay(j)
    \/ \E w \in Workers : (TwoJobs => Started \subseteq {w}) /\ Start(w)
    \/ \E w \in Workers : (TwoJobs => faults = 0) /\ Fault(w)
    \/ \E w \in Workers : Advance(w)
    \/ Tick

BoundedSpec == Init /\ [][BoundedNext]_vars
=============================================================================
