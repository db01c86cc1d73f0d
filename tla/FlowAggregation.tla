-------------------------- MODULE FlowAggregation --------------------------
(***************************************************************************)
(* FlowAggregator as it is written: the flow table with a heap of          *)
(* deadlines.  Every packet of a segment pushes its two deadlines; old     *)
(* entries stay until they are popped or the heap is rebuilt.              *)
(*                                                                         *)
(* A popped entry only names a candidate; whether its segment expires is   *)
(* read off the table.  So a deadline that is popped before the table      *)
(* agrees, or lost in a rebuild, leaves a segment that nobody looks at.    *)
(*                                                                         *)
(* The heap is a set: all entries that are due are popped, in whatever     *)
(* order.  The sequence number only keeps the entries of a key apart, so a *)
(* rebuild may number every key's pair alike.                              *)
(***************************************************************************)
EXTENDS FlowTable

CONSTANTS
    ActiveDeadline,     \* timedelta(seconds=active_timeout_seconds)
    IdleDeadline,       \* timedelta(seconds=idle_timeout_seconds)
    CompactAt,          \* 1_024 in the code
    CaptureLength       \* bound: packets of a capture

\* timedelta rounds to the nearest microsecond, up or down.
ASSUME DeadlineAssumption ==
    /\ ActiveDeadline \in {ActiveTimeout - 1, ActiveTimeout}
    /\ IdleDeadline \in {IdleTimeout - 1, IdleTimeout}
    /\ CompactAt \in Nat
    /\ CaptureLength \in Nat

VARIABLES
    deadlines,          \* _deadlines
    deadline_sequence,  \* _deadline_sequence
    packets             \* packets processed, for the bound CaptureLength

vars == <<tableVars, deadlines, deadline_sequence, packets>>

Deadline == [deadline : Nat, sequence : Nat, key : Keys]

TypeOK ==
    /\ TableTypeOK
    /\ deadlines \in SUBSET Deadline
    /\ deadline_sequence \in Nat
    /\ packets \in 0..CaptureLength

-----------------------------------------------------------------------------
Due_Strict(t) ==                   \* the heap's boundary is off by one
    {e \in deadlines : e.deadline < t}

Due(t) == {e \in deadlines : e.deadline <= t}

Candidates(t) == {e.key : e \in Due(t)} \intersect Active(flow)

Expired_Unchecked(t) ==            \* a due entry is taken for the truth
    Candidates(t)

Expired(t) == {k \in Candidates(t) : TimeoutReason(flow[k], t) # "none"}

Entries(k, f, sequence) ==
    {[deadline |-> f.first_seen + ActiveDeadline, sequence |-> sequence + 1, key |-> k],
     [deadline |-> f.last_seen + IdleDeadline, sequence |-> sequence + 2, key |-> k]}

HeapLimit(fl) ==
    IF 4 * Cardinality(Active(fl)) > CompactAt THEN 4 * Cardinality(Active(fl))
                                               ELSE CompactAt

Rebuilt_ActiveOnly(fl, sequence) ==        \* idle deadlines are not rebuilt
    {[deadline |-> fl[k].first_seen + ActiveDeadline, sequence |-> sequence + 1,
      key |-> k] : k \in Active(fl)}

Rebuilt(fl, sequence) == UNION {Entries(k, fl[k], sequence) : k \in Active(fl)}

CompactDeadlines_Never(heap, fl, sequence) ==
    /\ deadlines' = heap
    /\ deadline_sequence' = sequence

CompactDeadlines(heap, fl, sequence) ==
    IF Cardinality(heap) <= HeapLimit(fl)
    THEN /\ deadlines' = heap
         /\ deadline_sequence' = sequence
    ELSE /\ deadlines' = Rebuilt(fl, sequence)
         /\ deadline_sequence' = sequence + 2

ScheduleDeadlines(heap, fl, k) ==
    CompactDeadlines(heap \union Entries(k, fl[k], deadline_sequence),
                     fl, deadline_sequence + 2)

Popped(t) == deadlines \ Due(t)

ProcessPacket(k, t) ==
    /\ packets < CaptureLength
    /\ Process(k, t, Expired(t))
    /\ ScheduleDeadlines(Popped(t), flow', k)
    /\ packets' = packets + 1

RaiseLimit(k, t) ==
    /\ packets < CaptureLength
    /\ LimitReached(k, Expired(t))
    /\ deadlines' = Popped(t)
    /\ UNCHANGED <<deadline_sequence, packets>>

ClearDeadlines ==
    /\ deadlines' = {}
    /\ UNCHANGED <<deadline_sequence, packets>>

EndOfCapture == FlushCaptureEnd /\ ClearDeadlines

ManualFlush == FlushManual /\ ClearDeadlines

Init ==
    /\ TableInit
    /\ deadlines = {}
    /\ deadline_sequence = 0
    /\ packets = 0

Next ==
    \/ \E k \in Keys, t \in Times : ProcessPacket(k, t) \/ RaiseLimit(k, t)
    \/ EndOfCapture
    \/ ManualFlush

Spec == Init /\ [][Next]_vars

-----------------------------------------------------------------------------
\* Deadlines never come before the table would let the segment expire.
DeadlinesReach ==
    /\ ActiveDeadline = ActiveTimeout
    /\ IdleDeadline = IdleTimeout

\* Each open segment has both of its current deadlines in the heap.
DeadlinesCover ==
    \A k \in Active(flow) :
        /\ \E e \in deadlines : /\ e.key = k
                                /\ e.deadline = flow[k].first_seen + ActiveDeadline
        /\ \E e \in deadlines : /\ e.key = k
                                /\ e.deadline = flow[k].last_seen + IdleDeadline

\* Stale deadlines do not pile up: while the capture is read the heap has at
\* most four entries per open segment, or CompactAt (_compact_deadlines).
HeapBounded ==
    status = "open" => Cardinality(deadlines) <= HeapLimit(flow)

\* Segments of a key in the order of their index, the open one last.
SegmentsOf(k) == {s \in finalized : s.key = k}

Timestamps(k, i) ==
    IF i = segment_counts[k] THEN flow[k].packet_timestamps
    ELSE (CHOOSE s \in SegmentsOf(k) : s.segment_index = i).state.packet_timestamps

Joined(k) ==
    LET join[i \in 0..segment_counts[k]] ==
            IF i = 0 THEN Timestamps(k, 0) ELSE join[i - 1] \o Timestamps(k, i)
    IN  join[segment_counts[k]]

\* Until a limit is hit no packet is lost, counted twice or moved: the
\* segments of a key carry indices 0, 1, 2, ... without repetition, which makes
\* flow identities unique, and their packets in a row are the packets that
\* arrived, whatever the other keys, timeouts and flushes did in between.
NoPacketLost ==
    status # "failed" =>
        \A k \in Keys :
            /\ {s.segment_index : s \in SegmentsOf(k)} = 0..(segment_counts[k] - 1)
            /\ Cardinality(SegmentsOf(k)) = segment_counts[k]
            /\ Joined(k) = arrived[k]

Tight(f) ==
    /\ f.last_seen - f.first_seen < ActiveTimeout
    /\ \A i \in 1..(Len(f.packet_timestamps) - 1) :
           f.packet_timestamps[i + 1] - f.packet_timestamps[i] < IdleTimeout

\* In a capture in order no segment outlives a timeout: none spans the active
\* timeout, none contains a silence of the idle timeout, though the table is
\* only looked at where a deadline has come.
SegmentsRespectTimeouts ==
    ordered =>
        /\ \A s \in finalized : Tight(s.state)
        /\ \A k \in Active(flow) : Tight(flow[k])

\* Time t is beyond the timeout that closed segment s.
Reached(s, t) ==
    /\ s.reason = "active_timeout" => t - s.state.first_seen >= ActiveTimeout
    /\ s.reason = "idle_timeout" => t - s.state.last_seen >= IdleTimeout

\* In a capture in order a timeout splits a conversation only where its own
\* packets demand it: the next packet of the same key lies beyond the timeout
\* that closed the segment.  Packets of other keys, whose timestamps trigger
\* the expiry, leave no trace in the segmentation.
SplitsAreDue ==
    ordered =>
        \A s \in finalized :
            /\ s.segment_index + 1 = segment_counts[s.key] /\ s.key \in Active(flow)
                 => Reached(s, Head(flow[s.key].packet_timestamps))
            /\ \A u \in SegmentsOf(s.key) :
                 u.segment_index = s.segment_index + 1
                   => Reached(s, Head(u.state.packet_timestamps))

=============================================================================
