----------------------------- MODULE FlowTable -----------------------------
(***************************************************************************)
(* The flow table of one capture: what FlowAggregator promises.            *)
(*                                                                         *)
(* A capture is a stream of packets, each of a conversation (its canonical *)
(* key) and with a timestamp.  The table holds at most one open segment    *)
(* per key; packets close segments that timed out, that are full, or that  *)
(* remain at the end.  TableSpec looks at every open segment on every      *)
(* packet, as the table did before the deadline heap; FlowAggregation is   *)
(* the code, which looks only where a deadline has come, and is shown to   *)
(* implement TableSpec.                                                    *)
(*                                                                         *)
(* Abstractions.  Timestamps are whole microseconds.  Sizes, TCP flags,    *)
(* directions and the features computed from them are left out: nothing    *)
(* here depends on them.  The segments closed by one packet are returned   *)
(* in the order of their keys; finalized is the set of all of them.        *)
(*                                                                         *)
(* An operator Op_Variant is a faulty form of Op that no action uses.      *)
(***************************************************************************)
EXTENDS Integers, Sequences, FiniteSets

CONSTANTS
    Keys,               \* conversations in the capture
    Times,              \* timestamps a packet may carry
    ActiveTimeout,      \* least whole time that reaches active_timeout_seconds
    IdleTimeout,        \* least whole time that reaches idle_timeout_seconds
    MaxPacketsPerFlow,  \* max_packets_per_flow
    MaxActiveFlows      \* max_active_flows

ASSUME TimeAssumption ==
    /\ Times \subseteq Nat
    /\ ActiveTimeout \in Nat \ {0}
    /\ IdleTimeout \in Nat \ {0}
ASSUME LimitAssumption ==
    /\ IsFiniteSet(Keys)
    /\ MaxPacketsPerFlow \in Nat \ {0}
    /\ MaxActiveFlows \in Nat \ {0}

VARIABLES
    flow,            \* _active: the open segment of each key, or NoFlow
    segment_counts,  \* _segment_counts
    finalized,       \* every segment returned so far
    status,          \* "open", "ended", "failed" (FlowLimitError)
    arrived,         \* history: timestamps of the packets of each key
    clock,           \* history: timestamp of the last packet
    ordered          \* history: no packet was earlier than its predecessor

tableVars == <<flow, segment_counts, finalized, status, arrived, clock, ordered>>

FlowEndReason ==
    {"idle_timeout", "active_timeout", "capacity", "capture_end", "manual"}

FlowState ==
    [first_seen : Times, last_seen : Times, packet_timestamps : Seq(Times)]

NoFlow == [first_seen |-> 0, last_seen |-> 0, packet_timestamps |-> << >>]

Segment ==
    [key : Keys, segment_index : Nat, reason : FlowEndReason, state : FlowState]

TableTypeOK ==
    /\ flow \in [Keys -> FlowState \union {NoFlow}]
    /\ segment_counts \in [Keys -> Nat]
    /\ finalized \in SUBSET Segment
    /\ status \in {"open", "ended", "failed"}
    /\ arrived \in [Keys -> Seq(Times)]
    /\ clock \in Nat
    /\ ordered \in BOOLEAN

-----------------------------------------------------------------------------
Active(fl) == {k \in Keys : fl[k] # NoFlow}

FromFirstPacket(t) ==
    [first_seen |-> t, last_seen |-> t, packet_timestamps |-> <<t>>]

Add(f, t) ==
    [first_seen        |-> IF t < f.first_seen THEN t ELSE f.first_seen,
     last_seen         |-> IF t > f.last_seen THEN t ELSE f.last_seen,
     packet_timestamps |-> Append(f.packet_timestamps, t)]

Full(f) == Len(f.packet_timestamps) >= MaxPacketsPerFlow

TimeoutReason_FromFirst(f, t) ==   \* idle time counted from the first packet
    IF t - f.first_seen >= ActiveTimeout THEN "active_timeout"
    ELSE IF t - f.first_seen >= IdleTimeout THEN "idle_timeout"
    ELSE "none"

TimeoutReason(f, t) ==
    IF t - f.first_seen >= ActiveTimeout THEN "active_timeout"
    ELSE IF t - f.last_seen >= IdleTimeout THEN "idle_timeout"
    ELSE "none"

Overdue(t) == {k \in Active(flow) : TimeoutReason(flow[k], t) # "none"}

Closing(k, reason) ==
    [key |-> k, segment_index |-> segment_counts[k], reason |-> reason,
     state |-> flow[k]]

CountSegments(closed) ==
    segment_counts' = [k \in Keys |-> IF k \in closed THEN segment_counts[k] + 1
                                                      ELSE segment_counts[k]]

(***************************************************************************)
(* One packet of key k at time t, given the keys whose segments expire.    *)
(***************************************************************************)
Filled(k, expired) ==
    IF k \in Active(flow) \ expired /\ Full(flow[k]) THEN {k} ELSE {}

Opens_NewOnly(k, closed) ==        \* a packet that closes its segment is added to it
    k \notin Active(flow)

Opens(k, closed) == k \in closed \/ k \notin Active(flow)

AtLimit(k, closed) ==
    Opens(k, closed) /\ Cardinality(Active(flow) \ closed) >= MaxActiveFlows

Remaining(closed) == [k \in Keys |-> IF k \in closed THEN NoFlow ELSE flow[k]]

Process(k, t, expired) ==
    LET filled == Filled(k, expired)
        closed == expired \union filled
    IN  /\ status = "open"
        /\ ~AtLimit(k, closed)
        /\ flow' = [Remaining(closed) EXCEPT
                      ![k] = IF Opens(k, closed) THEN FromFirstPacket(t)
                                                 ELSE Add(flow[k], t)]
        /\ finalized' = finalized
             \union {Closing(x, TimeoutReason(flow[x], t)) : x \in expired}
             \union {Closing(x, "capacity") : x \in filled}
        /\ CountSegments(closed)
        /\ arrived' = [arrived EXCEPT ![k] = Append(@, t)]
        /\ clock' = t
        /\ ordered' = (ordered /\ clock <= t)
        /\ UNCHANGED status

\* FlowLimitError escapes from process: what expired is not returned, and the
\* caller gives the capture up.
LimitReached(k, expired) ==
    LET closed == expired \union Filled(k, expired)
    IN  /\ status = "open"
        /\ AtLimit(k, closed)
        /\ flow' = Remaining(closed)
        /\ CountSegments(closed)
        /\ status' = "failed"
        /\ UNCHANGED <<finalized, arrived, clock, ordered>>

Flush(reason) ==
    /\ flow' = [k \in Keys |-> NoFlow]
    /\ finalized' = finalized \union {Closing(k, reason) : k \in Active(flow)}
    /\ CountSegments(Active(flow))
    /\ UNCHANGED <<arrived, clock, ordered>>

FlushCaptureEnd ==
    /\ status = "open"
    /\ Flush("capture_end")
    /\ status' = "ended"

FlushManual ==
    /\ status = "open"
    /\ Flush("manual")
    /\ UNCHANGED status

TableInit ==
    /\ flow = [k \in Keys |-> NoFlow]
    /\ segment_counts = [k \in Keys |-> 0]
    /\ finalized = {}
    /\ status = "open"
    /\ arrived = [k \in Keys |-> << >>]
    /\ clock = 0
    /\ ordered = TRUE

TableNext ==
    \/ \E k \in Keys, t \in Times : \/ Process(k, t, Overdue(t))
                                    \/ LimitReached(k, Overdue(t))
    \/ FlushCaptureEnd
    \/ FlushManual

\* What the deadline heap must not change: docs/architecture.md:332-334 says that
\* "the authoritative flow table retains timeout semantics".
TableSpec == TableInit /\ [][TableNext]_tableVars

=============================================================================
