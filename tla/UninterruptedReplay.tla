------------------------- MODULE UninterruptedReplay ------------------------
(***************************************************************************)
(* What becomes durable of a replayed capture, as if it were read once: no *)
(* attempts, interruptions, crashes, errors that a recovery may follow, or *)
(* others who score and correlate meanwhile.  "Recovery always uses        *)
(* deterministic_restart_from_origin", "completed batches remain durable"  *)
(* (docs/runtime_recovery.md).  RuntimeOutput implements it (its AsOne is  *)
(* the refinement mapping).                                                *)
(***************************************************************************)
EXTENDS Naturals

CONSTANTS
    Flows, Packets,
    ClosedBy        \* the packet a flow closes with; the flush is Packets + 1

VARIABLES
    durable,        \* flows whose output is committed
    outcome         \* open until the replay is completed or failed for good

ClosedUpTo(n) == {f \in Flows : ClosedBy[f] <= n}

Init == durable = {} /\ outcome = "open"

\* Batches follow the capture: what is durable is always all that closed up to
\* some packet.
Commit(n) ==
    /\ outcome = "open"
    /\ durable \subseteq ClosedUpTo(n)
    /\ durable' = ClosedUpTo(n)
    /\ UNCHANGED outcome

Complete ==
    /\ outcome = "open" /\ durable = Flows
    /\ outcome' = "completed"
    /\ UNCHANGED durable

GiveUp ==
    /\ outcome = "open" /\ outcome' = "failed"
    /\ UNCHANGED durable

Next == Complete \/ GiveUp \/ \E n \in 1..(Packets + 1) : Commit(n)

Spec == Init /\ [][Next]_<< durable, outcome >>
=============================================================================
