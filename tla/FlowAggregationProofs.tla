----------------------- MODULE FlowAggregationProofs -----------------------
(***************************************************************************)
(* The deadline heap of FlowAggregation, for every set of keys, every      *)
(* timeout and every limit: its types, its bound, and that it changes      *)
(* nothing that the flow table promises.  And that every packet is in one  *)
(* segment of its flow.                                                    *)
(*                                                                         *)
(* The heap is harmless because of DeadlinesCover: what is overdue has a   *)
(* deadline that is due, so the candidates contain every overdue segment.  *)
(***************************************************************************)
EXTENDS FlowAggregation, FiniteSetTheorems, SequenceTheorems, WellFoundedInduction, TLAPS

-----------------------------------------------------------------------------
(* The flow table.                                                         *)

LEMMA NoFlowIsEmpty == ASSUME NEW t PROVE FromFirstPacket(t) # NoFlow
  BY DEF FromFirstPacket, NoFlow

LEMMA FirstPacketType ==
  ASSUME NEW t \in Times
  PROVE  FromFirstPacket(t) \in FlowState
  BY DEF FromFirstPacket, FlowState

\* A packet leaves a segment a segment, and not an empty one.
LEMMA AddType ==
  ASSUME NEW f \in FlowState, NEW t \in Times
  PROVE  Add(f, t) \in FlowState /\ Add(f, t) # NoFlow
<1>1. Append(f.packet_timestamps, t) \in Seq(Times)
  BY DEF FlowState
<1>2. Append(f.packet_timestamps, t) # << >>
  BY DEF FlowState
<1> QED BY <1>1, <1>2 DEF Add, FlowState, NoFlow

LEMMA ReasonType ==
  ASSUME NEW f, NEW t, TimeoutReason(f, t) # "none"
  PROVE  TimeoutReason(f, t) \in FlowEndReason
  BY DEF TimeoutReason, FlowEndReason

LEMMA ClosingType ==
  ASSUME TableTypeOK, NEW k \in Active(flow), NEW r \in FlowEndReason
  PROVE  Closing(k, r) \in Segment
  BY DEF Closing, Segment, TableTypeOK, Active

LEMMA CountType ==
  ASSUME TableTypeOK, NEW closed, CountSegments(closed)
  PROVE  segment_counts' \in [Keys -> Nat]
  BY DEF CountSegments, TableTypeOK

\* One packet, given any set of overdue segments to expire.
LEMMA ProcessType ==
  ASSUME TableTypeOK, NEW k \in Keys, NEW t \in Times,
         NEW expired \in SUBSET Overdue(t), Process(k, t, expired)
  PROVE  TableTypeOK'
<1> DEFINE filled == Filled(k, expired)
           closed == expired \union filled
<1>1. /\ expired \subseteq Active(flow)
      /\ filled \subseteq Active(flow)
      /\ \A x \in expired : TimeoutReason(flow[x], t) # "none"
  BY DEF Overdue, Filled
<1>2. flow' \in [Keys -> FlowState \union {NoFlow}]
  <2>1. Remaining(closed) \in [Keys -> FlowState \union {NoFlow}]
    BY DEF Remaining, TableTypeOK
  <2>2. (IF Opens(k, closed) THEN FromFirstPacket(t) ELSE Add(flow[k], t))
          \in FlowState
    BY FirstPacketType, AddType DEF Opens, Active, TableTypeOK
  <2> QED BY <2>1, <2>2 DEF Process
<1>3. finalized' \in SUBSET Segment
  <2>1. \A x \in expired : Closing(x, TimeoutReason(flow[x], t)) \in Segment
    BY <1>1, ReasonType, ClosingType
  <2>2. \A x \in filled : Closing(x, "capacity") \in Segment
    BY <1>1, ClosingType DEF FlowEndReason
  <2> QED BY <2>1, <2>2 DEF Process, TableTypeOK
<1>4. segment_counts' \in [Keys -> Nat]
  BY CountType DEF Process
<1>5. arrived' \in [Keys -> Seq(Times)]
  BY DEF Process, TableTypeOK
<1>6. status' \in {"open", "ended", "failed"} /\ clock' \in Nat /\ ordered' \in BOOLEAN
  BY TimeAssumption DEF Process, TableTypeOK
<1> QED BY <1>2, <1>3, <1>4, <1>5, <1>6 DEF TableTypeOK

LEMMA LimitType ==
  ASSUME TableTypeOK, NEW k \in Keys, NEW expired, LimitReached(k, expired)
  PROVE  TableTypeOK'
<1>1. segment_counts' \in [Keys -> Nat]
  BY CountType DEF LimitReached
<1>2. flow' \in [Keys -> FlowState \union {NoFlow}]
  BY DEF LimitReached, Remaining, TableTypeOK
<1> QED BY <1>1, <1>2 DEF LimitReached, TableTypeOK

LEMMA FlushType ==
  ASSUME TableTypeOK, NEW r \in FlowEndReason, Flush(r),
         status' \in {"open", "ended", "failed"}
  PROVE  TableTypeOK'
<1>1. finalized' \in SUBSET Segment
  BY ClosingType DEF Flush, TableTypeOK
<1>2. segment_counts' \in [Keys -> Nat]
  BY CountType DEF Flush
<1> QED BY <1>1, <1>2 DEF Flush, TableTypeOK

-----------------------------------------------------------------------------
(* The heap.                                                               *)

LEMMA ExpiredAreOverdue == ASSUME NEW t PROVE Expired(t) \in SUBSET Overdue(t)
  BY DEF Expired, Candidates, Overdue

LEMMA EntriesType ==
  ASSUME NEW k \in Keys, NEW f \in FlowState, NEW n \in Nat
  PROVE  Entries(k, f, n) \subseteq Deadline
<1>1. f.first_seen \in Nat /\ f.last_seen \in Nat
  BY TimeAssumption DEF FlowState
<1>2. ActiveDeadline \in Nat /\ IdleDeadline \in Nat
  BY TimeAssumption, DeadlineAssumption
<1>3. /\ f.first_seen + ActiveDeadline \in Nat
      /\ f.last_seen + IdleDeadline \in Nat
  BY <1>1, <1>2
<1> QED BY <1>3 DEF Entries, Deadline

LEMMA CompactType ==
  ASSUME NEW heap \in SUBSET Deadline, NEW n \in Nat,
         NEW fl \in [Keys -> FlowState \union {NoFlow}],
         CompactDeadlines(heap, fl, n)
  PROVE  deadlines' \in SUBSET Deadline /\ deadline_sequence' \in Nat
<1>1. Rebuilt(fl, n) \subseteq Deadline
  BY EntriesType DEF Rebuilt, Active
<1> QED BY <1>1 DEF CompactDeadlines

\* After a packet its key has an open segment.
LEMMA PacketOpens ==
  ASSUME TableTypeOK, NEW k \in Keys, NEW t \in Times, NEW expired,
         Process(k, t, expired)
  PROVE  flow'[k] \in FlowState /\ flow'[k] # NoFlow
<1> DEFINE closed == expired \union Filled(k, expired)
<1>1. k \in DOMAIN Remaining(closed)
  BY DEF Remaining
<1>2. flow'[k] = IF Opens(k, closed) THEN FromFirstPacket(t) ELSE Add(flow[k], t)
  BY <1>1 DEF Process
<1> QED BY <1>2, FirstPacketType, NoFlowIsEmpty, AddType
        DEF Opens, Active, TableTypeOK

\* What a packet does to the other keys.
LEMMA PacketKeeps ==
  ASSUME TableTypeOK, NEW k \in Keys, NEW t \in Times, NEW expired,
         Process(k, t, expired), NEW x \in Keys \ {k}
  PROVE  flow'[x] = IF x \in expired THEN NoFlow ELSE flow[x]
<1>1. x \notin Filled(k, expired)
  BY DEF Filled
<1> QED BY <1>1 DEF Process, Remaining

LEMMA TypesStep == ASSUME TypeOK, [Next]_vars PROVE TypeOK'
<1>1. ASSUME NEW k \in Keys, NEW t \in Times, ProcessPacket(k, t)
      PROVE  TypeOK'
  <2>1. TableTypeOK'
    BY <1>1, ExpiredAreOverdue, ProcessType DEF ProcessPacket, TypeOK
  <2>2. flow' \in [Keys -> FlowState \union {NoFlow}]
    BY <2>1 DEF TableTypeOK
  <2>3. Popped(t) \union Entries(k, flow'[k], deadline_sequence) \in SUBSET Deadline
    BY <1>1, EntriesType, PacketOpens DEF ProcessPacket, Popped, TypeOK
  <2>4. deadlines' \in SUBSET Deadline /\ deadline_sequence' \in Nat
    BY <1>1, <2>2, <2>3, CompactType, deadline_sequence + 2 \in Nat
       DEF ProcessPacket, ScheduleDeadlines, TypeOK
  <2>5. packets' \in 0..CaptureLength
    BY <1>1, DeadlineAssumption DEF ProcessPacket, TypeOK
  <2> QED BY <2>1, <2>4, <2>5 DEF TypeOK
<1>2. ASSUME NEW k \in Keys, NEW t \in Times, RaiseLimit(k, t)
      PROVE  TypeOK'
  BY <1>2, LimitType DEF RaiseLimit, Popped, TypeOK
<1>3. CASE EndOfCapture
  BY <1>3, FlushType
     DEF EndOfCapture, FlushCaptureEnd, ClearDeadlines, FlowEndReason, TypeOK
<1>4. CASE ManualFlush
  <2>1. status' \in {"open", "ended", "failed"}
    BY <1>4 DEF ManualFlush, FlushManual, TypeOK, TableTypeOK
  <2> QED BY <1>4, <2>1, FlushType
          DEF ManualFlush, FlushManual, ClearDeadlines, FlowEndReason, TypeOK
<1>5. CASE UNCHANGED vars
  BY <1>5 DEF vars, tableVars, TypeOK, TableTypeOK
<1> QED BY <1>1, <1>2, <1>3, <1>4, <1>5 DEF Next

\* The table, the heap and the histories have their types.
THEOREM FlowTypesCorrect == Spec => []TypeOK
<1>1. Init => TypeOK
  BY DeadlineAssumption DEF Init, TableInit, TypeOK, TableTypeOK
<1> QED BY <1>1, TypesStep, PTL DEF Spec

-----------------------------------------------------------------------------
(* What is overdue is looked at.                                           *)

\* Every segment that a scan would close has a deadline that is due.
LEMMA HeapFindsOverdue ==
  ASSUME TypeOK, DeadlinesReach, DeadlinesCover, NEW t \in Times
  PROVE  Expired(t) = Overdue(t)
<1>1. ASSUME NEW k \in Overdue(t) PROVE k \in Candidates(t)
  <2>1. k \in Active(flow) /\ flow[k] \in FlowState
    BY <1>1 DEF Overdue, Active, TypeOK, TableTypeOK
  <2>2. \/ t - flow[k].first_seen >= ActiveTimeout
        \/ t - flow[k].last_seen >= IdleTimeout
    BY <1>1 DEF Overdue, TimeoutReason
  <2>3. t \in Nat /\ flow[k].first_seen \in Nat /\ flow[k].last_seen \in Nat
    BY <2>1, TimeAssumption DEF FlowState
  <2>4. \/ flow[k].first_seen + ActiveDeadline <= t
        \/ flow[k].last_seen + IdleDeadline <= t
    BY <2>2, <2>3, TimeAssumption DEF DeadlinesReach
  <2>5. \E e \in deadlines : e.key = k /\ e.deadline <= t
    BY <2>1, <2>4 DEF DeadlinesCover
  <2> QED BY <2>1, <2>5 DEF Candidates, Due
<1> QED BY <1>1 DEF Expired, Overdue, Candidates

\* A deadline that is due belongs to a segment that expires, or is stale.
LEMMA KeptAreNotDue ==
  ASSUME TypeOK, DeadlinesReach, NEW t \in Times, NEW e \in Due(t),
         NEW k \in Active(flow), e.key = k,
         \/ e.deadline = flow[k].first_seen + ActiveDeadline
         \/ e.deadline = flow[k].last_seen + IdleDeadline
  PROVE  k \in Expired(t)
<1>1. flow[k] \in FlowState
  BY DEF Active, TypeOK, TableTypeOK
<1>2. t \in Nat /\ flow[k].first_seen \in Nat /\ flow[k].last_seen \in Nat
  BY <1>1, TimeAssumption DEF FlowState
<1>3. e.deadline <= t
  BY DEF Due
<1>4. \/ t - flow[k].first_seen >= ActiveTimeout
      \/ t - flow[k].last_seen >= IdleTimeout
  BY <1>2, <1>3, TimeAssumption DEF DeadlinesReach
<1>5. TimeoutReason(flow[k], t) # "none"
  BY <1>4 DEF TimeoutReason
<1> QED BY <1>5 DEF Expired, Candidates

\* Both current deadlines of key k of table fl are in the heap h.
Covered(h, fl, k) ==
    /\ \E e \in h : e.key = k /\ e.deadline = fl[k].first_seen + ActiveDeadline
    /\ \E e \in h : e.key = k /\ e.deadline = fl[k].last_seen + IdleDeadline

LEMMA EntriesCover ==
  ASSUME NEW k, NEW fl, NEW n PROVE Covered(Entries(k, fl[k], n), fl, k)
  BY DEF Entries, Covered

LEMMA CoverMonotone ==
  ASSUME NEW h, NEW g, h \subseteq g, NEW fl, NEW k, Covered(h, fl, k)
  PROVE  Covered(g, fl, k)
  BY DEF Covered

\* Popping what is due keeps the deadlines of every segment that stays.
LEMMA PoppedCover ==
  ASSUME TypeOK, DeadlinesReach, DeadlinesCover, NEW t \in Times,
         NEW k \in Active(flow) \ Expired(t)
  PROVE  Covered(Popped(t), flow, k)
<1>1. PICK d \in deadlines :
        d.key = k /\ d.deadline = flow[k].first_seen + ActiveDeadline
  BY DEF DeadlinesCover
<1>2. PICK e \in deadlines :
        e.key = k /\ e.deadline = flow[k].last_seen + IdleDeadline
  BY DEF DeadlinesCover
<1>3. d \notin Due(t) /\ e \notin Due(t)
  BY <1>1, <1>2, KeptAreNotDue
<1> QED BY <1>1, <1>2, <1>3 DEF Covered, Popped

\* A rebuild drops stale entries only.
LEMMA CompactCover ==
  ASSUME NEW heap, NEW fl, NEW n, CompactDeadlines(heap, fl, n),
         NEW k \in Active(fl), Covered(heap, fl, k)
  PROVE  Covered(deadlines', fl, k)
<1>1. Covered(Rebuilt(fl, n), fl, k)
  BY EntriesCover, CoverMonotone DEF Rebuilt
<1> QED BY <1>1 DEF CompactDeadlines

LEMMA CoverStep ==
  ASSUME TypeOK, DeadlinesReach, DeadlinesCover, [Next]_vars
  PROVE  DeadlinesCover'
<1>1. ASSUME NEW k \in Keys, NEW t \in Times, ProcessPacket(k, t)
      PROVE  DeadlinesCover'
  <2> DEFINE heap == Popped(t) \union Entries(k, flow'[k], deadline_sequence)
  <2>1. Process(k, t, Expired(t)) /\ TableTypeOK
    BY <1>1 DEF ProcessPacket, TypeOK
  <2>2. ASSUME NEW x \in Active(flow'), x # k PROVE Covered(heap, flow', x)
    <3>1. x \in Keys /\ flow'[x] # NoFlow
      BY DEF Active
    <3>2. flow'[x] = flow[x] /\ x \notin Expired(t)
      BY <2>1, <2>2, <3>1, PacketKeeps
    <3>3. Covered(Popped(t), flow, x)
      BY <3>1, <3>2, PoppedCover DEF Active
    <3> QED BY <3>2, <3>3 DEF Covered
  <2>3. Covered(heap, flow', k)
    BY EntriesCover, CoverMonotone
  <2>4. CompactDeadlines(heap, flow', deadline_sequence + 2)
    BY <1>1 DEF ProcessPacket, ScheduleDeadlines
  <2>5. \A x \in Active(flow') : Covered(deadlines', flow', x)
    BY <2>2, <2>3, <2>4, CompactCover
  <2> QED BY <2>5 DEF Covered, DeadlinesCover, Active
<1>2. ASSUME NEW k \in Keys, NEW t \in Times, RaiseLimit(k, t)
      PROVE  DeadlinesCover'
  <2>1. ASSUME NEW x \in Active(flow') PROVE Covered(deadlines', flow', x)
    <3>1. /\ x \in Active(flow) \ Expired(t)
          /\ flow'[x] = flow[x]
      BY <1>2, <2>1 DEF RaiseLimit, LimitReached, Remaining, Active
    <3>2. Covered(Popped(t), flow, x)
      BY <3>1, PoppedCover
    <3> QED BY <1>2, <3>1, <3>2 DEF RaiseLimit, Covered
  <2> QED BY <2>1 DEF Covered, DeadlinesCover, Active
<1>3. ASSUME NEW r, Flush(r) PROVE DeadlinesCover'
  BY <1>3 DEF Flush, Active, DeadlinesCover
<1>4. CASE EndOfCapture \/ ManualFlush
  BY <1>3, <1>4 DEF EndOfCapture, FlushCaptureEnd, ManualFlush, FlushManual
<1>5. CASE UNCHANGED vars
  BY <1>5 DEF vars, tableVars, DeadlinesCover, Active
<1> QED BY <1>1, <1>2, <1>4, <1>5 DEF Next

\* The deadlines of every open segment are in the heap, whatever was popped,
\* left stale or rebuilt.
THEOREM HeapCoversTable == DeadlinesReach => (Spec => []DeadlinesCover)
<1> SUFFICES ASSUME DeadlinesReach PROVE Spec => []DeadlinesCover
  OBVIOUS
<1>1. Init => DeadlinesCover
  BY DEF Init, TableInit, DeadlinesCover, Active
<1>2. TypeOK /\ DeadlinesCover /\ [Next]_vars => DeadlinesCover'
  BY CoverStep
<1> QED BY <1>1, <1>2, FlowTypesCorrect, PTL DEF Spec

\* A step of the aggregator is a step of the table that scans every segment.
LEMMA StepScans ==
  ASSUME TypeOK, DeadlinesReach, DeadlinesCover, [Next]_vars
  PROVE  [TableNext]_tableVars
<1>1. ASSUME NEW k \in Keys, NEW t \in Times, ProcessPacket(k, t)
      PROVE  TableNext
  BY <1>1, HeapFindsOverdue DEF ProcessPacket, TableNext
<1>2. ASSUME NEW k \in Keys, NEW t \in Times, RaiseLimit(k, t)
      PROVE  TableNext
  BY <1>2, HeapFindsOverdue DEF RaiseLimit, TableNext
<1>3. CASE EndOfCapture \/ ManualFlush
  BY <1>3 DEF EndOfCapture, ManualFlush, TableNext
<1>4. CASE UNCHANGED vars
  BY <1>4 DEF vars
<1> QED BY <1>1, <1>2, <1>3, <1>4 DEF Next

\* The aggregator with its heap implements the table that scans every open
\* segment on every packet.
THEOREM HeapImplementsScan == DeadlinesReach => (Spec => TableSpec)
<1> SUFFICES ASSUME DeadlinesReach PROVE Spec => TableSpec
  OBVIOUS
<1>1. Init => TableInit
  BY DEF Init
<1>2. TypeOK /\ DeadlinesCover /\ [Next]_vars => [TableNext]_tableVars
  BY StepScans
<1> QED BY <1>1, <1>2, FlowTypesCorrect, HeapCoversTable, PTL
        DEF Spec, TableSpec

-----------------------------------------------------------------------------
(* The bound of the heap.                                                  *)

LEMMA ActiveFinite ==
  ASSUME NEW fl
  PROVE  IsFiniteSet(Active(fl)) /\ Cardinality(Active(fl)) \in Nat
  BY LimitAssumption, FS_Subset, FS_CardinalityType DEF Active

\* A rebuilt heap has at most two entries per open segment.
LEMMA RebuiltSmall ==
  ASSUME NEW fl, NEW n
  PROVE  /\ Cardinality(Rebuilt(fl, n)) \in Nat
         /\ Cardinality(Rebuilt(fl, n)) <= 2 * Cardinality(Active(fl))
<1> DEFINE S == Active(fl)
           byFirst == [k \in S |-> [deadline |-> fl[k].first_seen + ActiveDeadline,
                                    sequence |-> n + 1, key |-> k]]
           byLast == [k \in S |-> [deadline |-> fl[k].last_seen + IdleDeadline,
                                   sequence |-> n + 2, key |-> k]]
           F == {byFirst[k] : k \in S}
           L == {byLast[k] : k \in S}
<1>1. IsFiniteSet(S) /\ Cardinality(S) \in Nat
  BY ActiveFinite
<1>2. byFirst \in Surjection(S, F) /\ byLast \in Surjection(S, L)
  BY DEF Surjection
<1>3. /\ IsFiniteSet(F) /\ Cardinality(F) <= Cardinality(S)
      /\ IsFiniteSet(L) /\ Cardinality(L) <= Cardinality(S)
  BY <1>1, <1>2, FS_Surjection
<1>4. Rebuilt(fl, n) = F \union L
  BY DEF Rebuilt, Entries
<1>5. /\ Cardinality(F \union L) = Cardinality(F) + Cardinality(L) - Cardinality(F \cap L)
      /\ Cardinality(F) \in Nat /\ Cardinality(L) \in Nat
  BY <1>3, FS_Union, FS_CardinalityType
<1>6. Cardinality(F \cap L) \in Nat /\ Cardinality(F \union L) \in Nat
  BY <1>3, FS_Subset, FS_Union, FS_CardinalityType
<1> HIDE DEF F, L
<1> QED BY <1>1, <1>3, <1>4, <1>5, <1>6

LEMMA CompactBounded ==
  ASSUME NEW heap, NEW fl, NEW n, CompactDeadlines(heap, fl, n)
  PROVE  Cardinality(deadlines') <= HeapLimit(fl)
<1>1. CASE Cardinality(heap) <= HeapLimit(fl)
  BY <1>1 DEF CompactDeadlines
<1>2. CASE ~(Cardinality(heap) <= HeapLimit(fl))
  <2>1. deadlines' = Rebuilt(fl, n)
    BY <1>2 DEF CompactDeadlines
  <2>2. /\ Cardinality(deadlines') \in Nat
        /\ Cardinality(deadlines') <= 2 * Cardinality(Active(fl))
    BY <2>1, RebuiltSmall
  <2> QED BY <2>2, ActiveFinite, DeadlineAssumption DEF HeapLimit
<1> QED BY <1>1, <1>2

\* While a capture is read the heap is bounded by the open segments.
THEOREM HeapStaysBounded == Spec => []HeapBounded
<1>1. Init => HeapBounded
  BY FS_EmptySet, ActiveFinite, DeadlineAssumption DEF Init, HeapBounded, HeapLimit
<1>2. HeapBounded /\ [Next]_vars => HeapBounded'
  <2> SUFFICES ASSUME HeapBounded, [Next]_vars PROVE HeapBounded'
    OBVIOUS
  <2>1. ASSUME NEW k \in Keys, NEW t \in Times, ProcessPacket(k, t)
        PROVE  HeapBounded'
    BY <2>1, CompactBounded
       DEF ProcessPacket, ScheduleDeadlines, HeapBounded, HeapLimit, Active
  <2>2. ASSUME NEW k \in Keys, NEW t \in Times, RaiseLimit(k, t)
        PROVE  HeapBounded'
    BY <2>2 DEF RaiseLimit, LimitReached, HeapBounded
  <2>3. ASSUME ClearDeadlines PROVE HeapBounded'
    <3>1. deadlines' = {} /\ Cardinality(Active(flow')) \in Nat
      BY <2>3, ActiveFinite DEF ClearDeadlines
    <3> QED BY <3>1, FS_EmptySet, DeadlineAssumption
            DEF HeapBounded, HeapLimit, Active
  <2>4. CASE EndOfCapture \/ ManualFlush
    BY <2>3, <2>4 DEF EndOfCapture, ManualFlush
  <2>5. CASE UNCHANGED vars
    BY <2>5 DEF vars, tableVars, HeapBounded, HeapLimit, Active
  <2> QED BY <2>1, <2>2, <2>4, <2>5 DEF Next
<1> QED BY <1>1, <1>2, PTL DEF Spec

-----------------------------------------------------------------------------
(***************************************************************************)
(* What the segments of a capture in order look like, for every set of     *)
(* keys, every timeout and every limit: none outlives a timeout, and none  *)
(* is split without need.                                                  *)
(*                                                                         *)
(* By HeapFindsOverdue a packet at t closes exactly Overdue(t), so the     *)
(* lemmas speak of Process(k, t, Overdue(t)).                              *)
(***************************************************************************)

\* An open segment at time now, in a capture in order.
Sound(f, now) ==
    /\ f.packet_timestamps # << >>
    /\ f.first_seen = Head(f.packet_timestamps)
    /\ f.last_seen = f.packet_timestamps[Len(f.packet_timestamps)]
    /\ f.first_seen <= f.last_seen
    /\ f.last_seen <= now
    /\ Tight(f)

LEMMA FirstPacketSound ==
  ASSUME NEW t \in Times PROVE Sound(FromFirstPacket(t), t)
<1>1. t \in Nat
  BY TimeAssumption
<1> QED BY <1>1, TimeAssumption DEF Sound, Tight, FromFirstPacket

\* A packet that is not overdue keeps the segment within its timeouts.
LEMMA AddSound ==
  ASSUME NEW f \in FlowState, NEW now \in Nat, NEW t \in Times,
         Sound(f, now), now <= t, TimeoutReason(f, t) = "none"
  PROVE  /\ Sound(Add(f, t), t)
         /\ Head(Add(f, t).packet_timestamps) = Head(f.packet_timestamps)
<1> DEFINE p == f.packet_timestamps
           q == Append(p, t)
<1>0. p \in Seq(Times) /\ f.first_seen \in Times /\ f.last_seen \in Times
  BY DEF FlowState
<1>1. /\ p \in Seq(Times) /\ t \in Nat /\ Len(p) \in Nat
      /\ f.first_seen \in Nat /\ f.last_seen \in Nat
  <2>1. Len(p) \in Nat
    BY <1>0
  <2>2. t \in Nat /\ f.first_seen \in Nat /\ f.last_seen \in Nat
    BY <1>0, TimeAssumption
  <2> QED BY <1>0, <2>1, <2>2
<1>2. /\ Len(q) = Len(p) + 1 /\ q[Len(q)] = t
      /\ \A i \in 1..Len(p) : q[i] = p[i]
  BY <1>1
<1>3. Len(p) >= 1
  BY <1>1 DEF Sound
<1>4. q # << >> /\ Head(q) = Head(p)
  BY <1>1, <1>2, <1>3
<1>5. f.first_seen <= f.last_seen /\ f.last_seen <= t
  BY <1>1 DEF Sound
<1>6. Add(f, t) = [first_seen |-> f.first_seen, last_seen |-> t,
                   packet_timestamps |-> q]
  <2>1. /\ (IF t < f.first_seen THEN t ELSE f.first_seen) = f.first_seen
        /\ (IF t > f.last_seen THEN t ELSE f.last_seen) = t
    BY <1>1, <1>5
  <2> QED BY <2>1 DEF Add
<1>7. /\ t - f.first_seen < ActiveTimeout
      /\ t - f.last_seen < IdleTimeout
  BY <1>1, TimeAssumption DEF TimeoutReason
<1>8. ASSUME NEW i \in 1..(Len(q) - 1) PROVE q[i + 1] - q[i] < IdleTimeout
  <2>1. CASE i = Len(p)
    <3>1. q[i + 1] = t /\ q[i] = f.last_seen
      BY <1>1, <1>2, <1>3, <2>1 DEF Sound
    <3> QED BY <1>7, <3>1
  <2>2. CASE i # Len(p)
    <3>1. i \in 1..(Len(p) - 1) /\ i \in 1..Len(p) /\ i + 1 \in 1..Len(p)
      BY <1>1, <1>2, <1>8, <2>2
    <3>2. p[i + 1] - p[i] < IdleTimeout
      BY <3>1 DEF Sound, Tight
    <3> QED BY <1>2, <3>1, <3>2
  <2> QED BY <2>1, <2>2
<1> HIDE DEF q
<1>9. Sound(Add(f, t), t)
  BY <1>1, <1>2, <1>4, <1>5, <1>6, <1>7, <1>8 DEF Sound, Tight
<1> QED BY <1>4, <1>6, <1>9

-----------------------------------------------------------------------------
(* The strengthening.                                                      *)

OpenSound == ordered => \A k \in Active(flow) : Sound(flow[k], clock)

ClosedTight == ordered => \A s \in finalized : Tight(s.state)

Numbered == \A s \in finalized : s.segment_index < segment_counts[s.key]

\* The last segment of a key without an open one has really timed out.
IdleSince ==
    ordered =>
        \A s \in finalized :
            s.segment_index + 1 = segment_counts[s.key] /\ s.key \notin Active(flow)
              => Reached(s, clock)

SInv == OpenSound /\ ClosedTight /\ Numbered /\ IdleSince /\ SplitsAreDue

\* What one packet does, key by key.
LEMMA PacketFlow ==
  ASSUME TableTypeOK, NEW k \in Keys, NEW t \in Times,
         Process(k, t, Overdue(t)), NEW x \in Active(flow')
  PROVE  \/ /\ x = k
            /\ flow'[k] = FromFirstPacket(t)
            /\ k \in Active(flow) => segment_counts'[k] = segment_counts[k] + 1
         \/ /\ x = k
            /\ k \in Active(flow) \ Overdue(t)
            /\ flow'[k] = Add(flow[k], t)
            /\ segment_counts'[k] = segment_counts[k]
         \/ /\ x # k
            /\ x \in Active(flow) \ Overdue(t)
            /\ flow'[x] = flow[x]
            /\ segment_counts'[x] = segment_counts[x]
<1> DEFINE closed == Overdue(t) \union Filled(k, Overdue(t))
<1>1. x \in Keys /\ flow'[x] # NoFlow
  BY DEF Active
<1>2. flow'[x] = IF x = k
                 THEN IF Opens(k, closed) THEN FromFirstPacket(t) ELSE Add(flow[k], t)
                 ELSE IF x \in closed THEN NoFlow ELSE flow[x]
  BY <1>1 DEF Process, Remaining
<1>3. segment_counts'[x] = IF x \in closed THEN segment_counts[x] + 1
                                           ELSE segment_counts[x]
  BY <1>1 DEF Process, CountSegments
<1> QED BY <1>1, <1>2, <1>3 DEF Opens, Active

\* A segment that a packet closes is the open one of its key.
LEMMA PacketCloses ==
  ASSUME TableTypeOK, NEW k \in Keys, NEW t \in Times,
         Process(k, t, Overdue(t)), NEW s \in finalized', s \notin finalized
  PROVE  /\ s.key \in Active(flow)
         /\ s.state = flow[s.key]
         /\ s.segment_index = segment_counts[s.key]
         /\ segment_counts'[s.key] = segment_counts[s.key] + 1
         /\ \/ s.key \in Overdue(t) /\ s.reason = TimeoutReason(flow[s.key], t)
            \/ s.reason = "capacity"
<1> DEFINE closed == Overdue(t) \union Filled(k, Overdue(t))
<1>1. \/ \E x \in Overdue(t) : s = Closing(x, TimeoutReason(flow[x], t))
      \/ \E x \in Filled(k, Overdue(t)) : s = Closing(x, "capacity")
  BY DEF Process
<1>2. s.key \in closed /\ s.key \in Active(flow) /\ s.key \in Keys
  BY <1>1 DEF Closing, Overdue, Filled, Active
<1>3. segment_counts'[s.key] = segment_counts[s.key] + 1
  BY <1>2 DEF Process, CountSegments
<1> QED BY <1>1, <1>2, <1>3 DEF Closing

\* The count of a key grows when its open segment is closed, and only then.
LEMMA PacketCounts ==
  ASSUME TableTypeOK, NEW k \in Keys, NEW t \in Times,
         Process(k, t, Overdue(t)), NEW x \in Keys
  PROVE  /\ segment_counts[x] \in Nat
         /\ \/ segment_counts'[x] = segment_counts[x]
            \/ /\ segment_counts'[x] = segment_counts[x] + 1
               /\ x \in Active(flow)
         /\ x \notin Active(flow) => segment_counts'[x] = segment_counts[x]
         /\ x \in Active(flow) /\ x \notin Active(flow')
              => segment_counts'[x] = segment_counts[x] + 1
<1> DEFINE closed == Overdue(t) \union Filled(k, Overdue(t))
<1>1. segment_counts'[x] = IF x \in closed THEN segment_counts[x] + 1
                                           ELSE segment_counts[x]
  BY DEF Process, CountSegments
<1>2. closed \subseteq Active(flow)
  BY DEF Overdue, Filled
<1>3. x \in Active(flow) /\ x \notin Active(flow') => x \in closed
  <2> SUFFICES ASSUME x \in Active(flow), x \notin Active(flow'), x \notin closed
               PROVE  FALSE
    OBVIOUS
  <2>1. x # k
    BY PacketOpens DEF Active
  <2>2. flow'[x] = flow[x]
    BY <2>1 DEF Process, Remaining
  <2> QED BY <2>2 DEF Active
<1>4. segment_counts[x] \in Nat
  BY DEF TableTypeOK
<1> QED BY <1>1, <1>2, <1>3, <1>4

LEMMA PacketSound ==
  ASSUME TypeOK, SInv, NEW k \in Keys, NEW t \in Times,
         Process(k, t, Overdue(t))
  PROVE  OpenSound' /\ ClosedTight' /\ Numbered'
<1>0. /\ TableTypeOK
      /\ clock' = t /\ clock \in Nat /\ t \in Nat
      /\ ordered' => ordered /\ clock <= t
  BY TimeAssumption DEF Process, TypeOK, TableTypeOK
<1>1. ASSUME ordered', NEW x \in Active(flow') PROVE Sound(flow'[x], t)
  <2>1. CASE flow'[x] = FromFirstPacket(t)
    BY <2>1, FirstPacketSound
  <2>2. CASE x \in Active(flow) \ Overdue(t) /\ flow'[x] = Add(flow[x], t)
    <3>1. /\ flow[x] \in FlowState
          /\ Sound(flow[x], clock)
          /\ TimeoutReason(flow[x], t) = "none"
      BY <1>0, <1>1, <2>2 DEF Active, Overdue, TableTypeOK, SInv, OpenSound
    <3> QED BY <1>0, <1>1, <2>2, <3>1, AddSound
  <2>3. CASE x \in Active(flow) /\ flow'[x] = flow[x]
    <3>1. Sound(flow[x], clock) /\ flow[x] \in FlowState
      BY <1>0, <1>1, <2>3 DEF Active, TableTypeOK, SInv, OpenSound
    <3>2. flow[x].last_seen \in Nat
      BY <3>1, TimeAssumption DEF FlowState
    <3>3. flow[x].last_seen <= t
      BY <1>0, <1>1, <3>1, <3>2 DEF Sound
    <3> QED BY <2>3, <3>1, <3>3 DEF Sound
  <2> QED BY <1>0, <2>1, <2>2, <2>3, PacketFlow
<1>2. OpenSound'
  BY <1>0, <1>1 DEF OpenSound, Active
<1>3. ASSUME NEW s \in finalized', s \notin finalized
      PROVE  /\ s.key \in Active(flow)
             /\ s.state = flow[s.key]
             /\ s.segment_index = segment_counts[s.key]
             /\ segment_counts'[s.key] = segment_counts[s.key] + 1
  BY <1>0, <1>3, PacketCloses
<1>4. ClosedTight'
  BY <1>0, <1>3 DEF SInv, OpenSound, ClosedTight, Sound
<1>5. Numbered'
  <2>1. ASSUME NEW s \in finalized' PROVE s.segment_index < segment_counts'[s.key]
    <3>1. CASE s \in finalized
      <4>1. /\ s.key \in Keys /\ s.segment_index \in Nat
            /\ s.segment_index < segment_counts[s.key]
        BY <1>0, <3>1 DEF SInv, Numbered, TableTypeOK, Segment
      <4> QED BY <1>0, <4>1, PacketCounts
    <3>2. CASE s \notin finalized
      <4>1. segment_counts[s.key] \in Nat
        BY <1>0, <1>3, <3>2 DEF TableTypeOK, Active
      <4> QED BY <1>3, <3>2, <4>1
    <3> QED BY <3>1, <3>2
  <2> QED BY <2>1 DEF Numbered
<1> QED BY <1>2, <1>4, <1>5

\* Every segment that expired has reached its timeout when it is closed.
LEMMA ClosedReached ==
  ASSUME TableTypeOK, NEW k \in Keys, NEW t \in Times,
         Process(k, t, Overdue(t)), NEW s \in finalized', s \notin finalized
  PROVE  Reached(s, t)
<1>1. /\ s.state = flow[s.key]
      /\ \/ s.reason = TimeoutReason(flow[s.key], t)
         \/ s.reason = "capacity"
  BY PacketCloses
<1> QED BY <1>1 DEF Reached, TimeoutReason

\* Time only makes a timeout more reached.
LEMMA ReachedLater ==
  ASSUME NEW s \in Segment, NEW now \in Nat, NEW t \in Nat, now <= t,
         Reached(s, now)
  PROVE  Reached(s, t)
<1>1. s.state.first_seen \in Times /\ s.state.last_seen \in Times
  BY DEF Segment, FlowState
<1>2. s.state.first_seen \in Nat /\ s.state.last_seen \in Nat
  BY <1>1, TimeAssumption
<1> QED BY <1>2, TimeAssumption DEF Reached

LEMMA PacketSplits ==
  ASSUME TypeOK, SInv, NEW k \in Keys, NEW t \in Times,
         Process(k, t, Overdue(t)), TableTypeOK', Numbered'
  PROVE  IdleSince' /\ SplitsAreDue'
<1> SUFFICES ASSUME ordered' PROVE IdleSince' /\ SplitsAreDue'
  BY DEF IdleSince, SplitsAreDue
<1>0. /\ TableTypeOK
      /\ clock' = t /\ clock \in Nat /\ t \in Nat
      /\ ordered /\ clock <= t
  BY TimeAssumption DEF Process, TypeOK, TableTypeOK
<1>1. ASSUME NEW s \in finalized'
      PROVE  /\ s \in Segment /\ s.key \in Keys
             /\ s.segment_index \in Nat /\ segment_counts'[s.key] \in Nat
  BY <1>1 DEF TableTypeOK, Segment
<1>2. ASSUME NEW s \in finalized, s.segment_index + 1 = segment_counts'[s.key]
      PROVE  s.segment_index + 1 = segment_counts[s.key]
  <2>1. s.segment_index < segment_counts[s.key]
    BY DEF SInv, Numbered
  <2>2. s.key \in Keys /\ s.segment_index \in Nat /\ segment_counts[s.key] \in Nat
    BY <1>0 DEF TableTypeOK, Segment
  <2> QED BY <1>0, <1>2, <2>1, <2>2, PacketCounts
<1>3. IdleSince'
  <2> SUFFICES ASSUME NEW s \in finalized',
                      s.segment_index + 1 = segment_counts'[s.key],
                      s.key \notin Active(flow')
               PROVE  Reached(s, t)
    BY <1>0 DEF IdleSince, Active
  <2>1. CASE s \notin finalized
    BY <1>0, <2>1, ClosedReached
  <2>2. CASE s \in finalized
    <3>1. s.segment_index + 1 = segment_counts[s.key]
      BY <1>2, <2>2
    <3>2. s.key \notin Active(flow)
      BY <1>0, <1>1, <3>1, PacketCounts
    <3>3. Reached(s, clock)
      BY <1>0, <2>2, <3>1, <3>2 DEF SInv, IdleSince
    <3> QED BY <1>0, <1>1, <3>3, ReachedLater
  <2> QED BY <2>1, <2>2
<1>4. ASSUME NEW s \in finalized',
             s.segment_index + 1 = segment_counts'[s.key],
             s.key \in Active(flow')
      PROVE  Reached(s, Head(flow'[s.key].packet_timestamps))
  <2>1. CASE s.key = k /\ flow'[k] = FromFirstPacket(t)
             /\ (k \in Active(flow) => segment_counts'[k] = segment_counts[k] + 1)
    <3>1. Head(flow'[s.key].packet_timestamps) = t
      BY <2>1 DEF FromFirstPacket
    <3>2. CASE s \notin finalized
      BY <1>0, <3>1, <3>2, ClosedReached
    <3>3. CASE s \in finalized
      <4>1. s.segment_index + 1 = segment_counts[s.key] /\ segment_counts[k] \in Nat
        BY <1>0, <1>2, <1>4, <3>3 DEF TableTypeOK
      <4>2. s.key \notin Active(flow)
        BY <1>4, <2>1, <4>1
      <4>3. Reached(s, clock)
        BY <1>0, <3>3, <4>1, <4>2 DEF SInv, IdleSince
      <4> QED BY <1>0, <1>1, <3>1, <4>3, ReachedLater
    <3> QED BY <3>2, <3>3
  <2>2. CASE /\ s.key \in Active(flow) \ Overdue(t)
             /\ flow'[s.key] \in {flow[s.key], Add(flow[s.key], t)}
             /\ segment_counts'[s.key] = segment_counts[s.key]
    <3>1. s \in finalized
      <4>1. segment_counts[s.key] \in Nat
        BY <1>0, <2>2 DEF TableTypeOK, Active
      <4> QED BY <1>0, <2>2, <4>1, PacketCloses
    <3>2. Reached(s, Head(flow[s.key].packet_timestamps))
      BY <1>0, <1>4, <2>2, <3>1 DEF SInv, SplitsAreDue
    <3>3. /\ flow[s.key] \in FlowState
          /\ Sound(flow[s.key], clock)
          /\ TimeoutReason(flow[s.key], t) = "none"
      BY <1>0, <2>2 DEF Active, Overdue, TableTypeOK, SInv, OpenSound
    <3>4. Head(Add(flow[s.key], t).packet_timestamps)
            = Head(flow[s.key].packet_timestamps)
      BY <1>0, <3>3, AddSound
    <3> QED BY <2>2, <3>2, <3>4
  <2> QED BY <1>0, <1>4, <2>1, <2>2, PacketFlow
<1>5. ASSUME NEW s \in finalized', NEW u \in finalized', u.key = s.key,
             u.segment_index = s.segment_index + 1
      PROVE  Reached(s, Head(u.state.packet_timestamps))
  <2>1. CASE s \in finalized /\ u \in finalized
    BY <1>0, <1>5, <2>1 DEF SInv, SplitsAreDue, SegmentsOf
  <2>2. CASE s \in finalized /\ u \notin finalized
    BY <1>0, <1>5, <2>2, PacketCloses DEF SInv, SplitsAreDue
  <2>3. CASE s \notin finalized
    <3>1. s.segment_index + 1 = segment_counts'[s.key]
      BY <1>0, <2>3, PacketCloses
    <3>2. u.segment_index < segment_counts'[s.key]
      BY <1>5 DEF Numbered
    <3> QED BY <1>1, <1>5, <3>1, <3>2
  <2> QED BY <2>1, <2>2, <2>3
<1>6. SplitsAreDue'
  BY <1>4, <1>5 DEF SplitsAreDue, SegmentsOf, Active
<1> QED BY <1>3, <1>6

-----------------------------------------------------------------------------
(* The other steps.                                                        *)

\* Keys whose open segment is dropped or closed gain one in their count.
LEMMA Counted ==
  ASSUME TableTypeOK, NEW closed, CountSegments(closed), NEW x \in Keys
  PROVE  /\ segment_counts[x] \in Nat
         /\ segment_counts'[x] = IF x \in closed THEN segment_counts[x] + 1
                                                 ELSE segment_counts[x]
  BY DEF CountSegments, TableTypeOK

LEMMA LimitSegments ==
  ASSUME TypeOK, SInv, NEW k \in Keys, NEW t \in Times,
         LimitReached(k, Overdue(t))
  PROVE  SInv'
<1> DEFINE closed == Overdue(t) \union Filled(k, Overdue(t))
<1>1. /\ TableTypeOK
      /\ finalized' = finalized /\ clock' = clock /\ ordered' = ordered
      /\ CountSegments(closed)
      /\ flow' = Remaining(closed)
  BY DEF LimitReached, TypeOK
<1>2. \A x \in Keys : x \in Active(flow') <=> x \in Active(flow) /\ x \notin closed
  BY <1>1 DEF Remaining, Active
<1>3. \A x \in Active(flow') : flow'[x] = flow[x]
  BY <1>1 DEF Remaining, Active
<1>4. ASSUME NEW s \in finalized
      PROVE  /\ s.key \in Keys
             /\ s.segment_index < segment_counts'[s.key]
             /\ s.segment_index + 1 = segment_counts'[s.key]
                  => /\ s.segment_index + 1 = segment_counts[s.key]
                     /\ s.key \notin closed
  <2>1. /\ s.key \in Keys /\ s.segment_index \in Nat
        /\ s.segment_index < segment_counts[s.key]
    BY <1>1 DEF SInv, Numbered, TableTypeOK, Segment
  <2> QED BY <1>1, <2>1, Counted
<1>5. OpenSound' /\ ClosedTight'
  BY <1>1, <1>2, <1>3 DEF SInv, OpenSound, ClosedTight, Active
<1>6. Numbered'
  BY <1>1, <1>4 DEF Numbered
<1>7. IdleSince'
  BY <1>1, <1>2, <1>4 DEF SInv, IdleSince, Active
<1>8. SplitsAreDue'
  BY <1>1, <1>2, <1>3, <1>4 DEF SInv, SplitsAreDue, SegmentsOf, Active
<1> QED BY <1>5, <1>6, <1>7, <1>8 DEF SInv

LEMMA FlushSegments ==
  ASSUME TypeOK, SInv, NEW r \in {"capture_end", "manual"}, Flush(r)
  PROVE  SInv'
<1>1. /\ TableTypeOK
      /\ finalized' = finalized \union {Closing(x, r) : x \in Active(flow)}
      /\ clock' = clock /\ ordered' = ordered
      /\ CountSegments(Active(flow))
      /\ Active(flow') = {}
  BY DEF Flush, TypeOK, Active
<1>2. ASSUME NEW s \in finalized', s \notin finalized
      PROVE  /\ s.key \in Active(flow) /\ s.key \in Keys
             /\ s.state = flow[s.key]
             /\ s.segment_index = segment_counts[s.key]
             /\ \A now : Reached(s, now)
  BY <1>1, <1>2 DEF Closing, Reached, Active
<1>3. ASSUME NEW s \in finalized
      PROVE  /\ s.key \in Keys /\ s.segment_index \in Nat
             /\ segment_counts[s.key] \in Nat
             /\ s.segment_index < segment_counts[s.key]
             /\ s.segment_index < segment_counts'[s.key]
             /\ s.segment_index + 1 = segment_counts'[s.key]
                  => /\ s.segment_index + 1 = segment_counts[s.key]
                     /\ s.key \notin Active(flow)
  <2>1. /\ s.key \in Keys /\ s.segment_index \in Nat
        /\ s.segment_index < segment_counts[s.key]
    BY <1>1 DEF SInv, Numbered, TableTypeOK, Segment
  <2> QED BY <1>1, <2>1, Counted
<1>4. OpenSound'
  BY <1>1 DEF OpenSound, Active
<1>5. ClosedTight'
  BY <1>1, <1>2 DEF SInv, OpenSound, ClosedTight, Sound
<1>6. Numbered'
  <2>1. ASSUME NEW s \in finalized', s \notin finalized
        PROVE  s.segment_index < segment_counts'[s.key]
    BY <1>1, <1>2, <2>1, Counted
  <2> QED BY <1>3, <2>1 DEF Numbered
<1>7. IdleSince'
  BY <1>1, <1>2, <1>3 DEF SInv, IdleSince, Active
<1>8. SplitsAreDue'
  <2> SUFFICES ASSUME ordered', NEW s \in finalized', NEW u \in finalized',
                      u.key = s.key, u.segment_index = s.segment_index + 1
               PROVE  Reached(s, Head(u.state.packet_timestamps))
    BY <1>1 DEF SplitsAreDue, SegmentsOf, Active
  <2>1. CASE s \notin finalized
    BY <1>2, <2>1
  <2>2. CASE s \in finalized /\ u \in finalized
    BY <1>1, <2>2 DEF SInv, SplitsAreDue, SegmentsOf
  <2>3. CASE s \in finalized /\ u \notin finalized
    BY <1>1, <1>2, <2>3 DEF SInv, SplitsAreDue
  <2> QED BY <2>1, <2>2, <2>3
<1> QED BY <1>4, <1>5, <1>6, <1>7, <1>8 DEF SInv

-----------------------------------------------------------------------------
(* The theorems.                                                           *)

LEMMA SegmentsStep ==
  ASSUME TypeOK, TypeOK', DeadlinesReach, DeadlinesCover, SInv, [Next]_vars
  PROVE  SInv'
<1>1. ASSUME NEW k \in Keys, NEW t \in Times, ProcessPacket(k, t)
      PROVE  SInv'
  <2>1. Process(k, t, Overdue(t))
    BY <1>1, HeapFindsOverdue DEF ProcessPacket
  <2>2. OpenSound' /\ ClosedTight' /\ Numbered'
    BY <2>1, PacketSound
  <2>3. IdleSince' /\ SplitsAreDue'
    BY <2>1, <2>2, PacketSplits DEF TypeOK
  <2> QED BY <2>2, <2>3 DEF SInv
<1>2. ASSUME NEW k \in Keys, NEW t \in Times, RaiseLimit(k, t)
      PROVE  SInv'
  BY <1>2, HeapFindsOverdue, LimitSegments DEF RaiseLimit
<1>3. CASE EndOfCapture \/ ManualFlush
  BY <1>3, FlushSegments
     DEF EndOfCapture, FlushCaptureEnd, ManualFlush, FlushManual
<1>4. CASE UNCHANGED vars
  BY <1>4 DEF vars, tableVars, SInv, OpenSound, ClosedTight, Numbered,
              IdleSince, SplitsAreDue, SegmentsOf, Active
<1> QED BY <1>1, <1>2, <1>3, <1>4 DEF Next

LEMMA SegmentsInvariant == DeadlinesReach => (Spec => []SInv)
<1> SUFFICES ASSUME DeadlinesReach PROVE Spec => []SInv
  OBVIOUS
<1>1. Init => SInv
  BY DEF Init, TableInit, SInv, OpenSound, ClosedTight, Numbered, IdleSince,
         SplitsAreDue, Active
<1>2. TypeOK /\ TypeOK' /\ DeadlinesCover /\ SInv /\ [Next]_vars => SInv'
  BY SegmentsStep
<1> QED BY <1>1, <1>2, FlowTypesCorrect, HeapCoversTable, PTL DEF Spec

\* In a capture in order no segment, open or closed, outlives a timeout.
THEOREM SegmentsKeepTimeouts == DeadlinesReach => (Spec => []SegmentsRespectTimeouts)
<1>1. SInv => SegmentsRespectTimeouts
  BY DEF SInv, OpenSound, ClosedTight, Sound, SegmentsRespectTimeouts
<1> QED BY <1>1, SegmentsInvariant, PTL

\* In a capture in order a timeout splits a conversation only where its own
\* packets demand it.
THEOREM SplitsStayDue == DeadlinesReach => (Spec => []SplitsAreDue)
<1>1. SInv => SplitsAreDue
  BY DEF SInv
<1> QED BY <1>1, SegmentsInvariant, PTL

-----------------------------------------------------------------------------
(***************************************************************************)
(* No packet is lost, for every set of keys, every timeout and limit: the  *)
(* segments of a key, in the order of their index and with the open one    *)
(* last, are a chain whose packets are those that arrived.  A packet       *)
(* extends the open end of its chain; closing a segment cuts there.        *)
(***************************************************************************)

\* A set of numbers has a least one.
LEMMA LeastNumber ==
  ASSUME NEW S \in SUBSET Nat, S # {} PROVE \E m \in S : \A k \in S : m <= k
<1> DEFINE R == OpToRel(<, Nat)
<1>1. IsWellFoundedOn(R, Nat)
  BY NatLessThanWellFounded
<1>2. \A x, y \in Nat : << x, y >> \in R <=> x < y
  BY DEF OpToRel
<1> HIDE DEF R
<1>3. PICK m \in S : \A k \in S : ~ (<< k, m >> \in R)
  BY <1>1, WFMin
<1>4. ASSUME NEW k \in S PROVE m <= k
  <2>1. m \in Nat /\ k \in Nat
    OBVIOUS
  <2>2. ~(k < m)
    BY <1>2, <1>3, <2>1
  <2> QED BY <2>1, <2>2
<1> QED BY <1>4

\* Part i of n closed segments segs and the open packets open.
Part(segs, n, open, i) ==
    IF i = n THEN open
    ELSE (CHOOSE s \in segs : s.segment_index = i).state.packet_timestamps

Joins(join, segs, n, open) ==
    /\ join[0] = Part(segs, n, open, 0)
    /\ \A i \in 1..n : join[i] = join[i - 1] \o Part(segs, n, open, i)

Chained(segs, n, open, all) ==
    /\ {s.segment_index : s \in segs} = 0..(n - 1)
    /\ \A s, u \in segs : s.segment_index = u.segment_index => s = u
    /\ \A s \in segs : s.state.packet_timestamps \in Seq(Times)
    /\ \E join \in [0..n -> Seq(Times)] :
         Joins(join, segs, n, open) /\ join[n] = all

\* A closed segment is found by its index.
LEMMA PartOf ==
  ASSUME NEW segs, NEW n \in Nat, NEW open, NEW s \in segs,
         \A t, u \in segs : t.segment_index = u.segment_index => t = u,
         s.segment_index # n
  PROVE  Part(segs, n, open, s.segment_index) = s.state.packet_timestamps
<1>1. (CHOOSE u \in segs : u.segment_index = s.segment_index) = s
  OBVIOUS
<1> QED BY <1>1 DEF Part

LEMMA JoinThree ==
  ASSUME NEW p \in Seq(Times), NEW q \in Seq(Times), NEW r \in Seq(Times)
  PROVE  (p \o q) \o r = p \o (q \o r)
  OBVIOUS

\* Packets that arrive extend the open end.
LEMMA ChainGrows ==
  ASSUME NEW segs, NEW n \in Nat, NEW open \in Seq(Times), NEW all \in Seq(Times),
         NEW more \in Seq(Times), Chained(segs, n, open, all)
  PROVE  Chained(segs, n, open \o more, all \o more)
<1>1. PICK join \in [0..n -> Seq(Times)] : Joins(join, segs, n, open) /\ join[n] = all
  BY DEF Chained
<1>2. PICK longer : longer = [join EXCEPT ![n] = all \o more]
  OBVIOUS
<1>3. all \o more \in Seq(Times) /\ n \in 0..n
  BY ConcatProperties
<1>4. longer \in [0..n -> Seq(Times)] /\ longer[n] = all \o more
  BY <1>2, <1>3
<1>5. \A i \in 0..n : i # n => longer[i] = join[i]
  BY <1>2
<1>6. \A i \in 0..n : i # n => Part(segs, n, open \o more, i) = Part(segs, n, open, i)
  BY DEF Part
<1>7. Part(segs, n, open \o more, n) = open \o more /\ Part(segs, n, open, n) = open
  BY DEF Part
<1>8. longer[0] = Part(segs, n, open \o more, 0)
  <2>1. CASE n = 0
    BY <1>1, <1>4, <1>7, <2>1 DEF Joins
  <2>2. CASE n # 0
    BY <1>1, <1>5, <1>6, <2>2 DEF Joins
  <2> QED BY <2>1, <2>2
<1>9. ASSUME NEW i \in 1..n PROVE longer[i] = longer[i - 1] \o Part(segs, n, open \o more, i)
  <2>1. i - 1 \in 0..n /\ i - 1 # n /\ i \in 0..n
    OBVIOUS
  <2>2. longer[i - 1] = join[i - 1] /\ join[i - 1] \in Seq(Times)
    BY <1>5, <2>1
  <2>3. join[i] = join[i - 1] \o Part(segs, n, open, i)
    BY <1>1 DEF Joins
  <2>4. CASE i = n
    <3>1. longer[i] = (join[i - 1] \o open) \o more
      BY <1>1, <1>4, <1>7, <2>3, <2>4
    <3>2. (join[i - 1] \o open) \o more = join[i - 1] \o (open \o more)
      BY <2>2, JoinThree
    <3> QED BY <1>7, <2>2, <2>4, <3>1, <3>2
  <2>5. CASE i # n
    BY <1>5, <1>6, <2>1, <2>2, <2>3, <2>5
  <2> QED BY <2>4, <2>5
<1>10. Joins(longer, segs, n, open \o more)
  BY <1>8, <1>9 DEF Joins
<1> QED BY <1>4, <1>10 DEF Chained

\* A segment that closes becomes the last part before the new open one.
LEMMA ChainCloses ==
  ASSUME NEW segs, NEW n \in Nat, NEW open \in Seq(Times), NEW all \in Seq(Times),
         NEW more \in Seq(Times), Chained(segs, n, open, all),
         NEW seg, seg.segment_index = n, seg.state.packet_timestamps = open
  PROVE  Chained(segs \union {seg}, n + 1, more, all \o more)
<1>1. PICK join \in [0..n -> Seq(Times)] : Joins(join, segs, n, open) /\ join[n] = all
  BY DEF Chained
<1>2. PICK longer : longer = [i \in 0..(n + 1) |-> IF i = n + 1 THEN all \o more ELSE join[i]]
  OBVIOUS
<1>3. PICK grown : grown = segs \union {seg}
  OBVIOUS
<1>4. /\ {s.segment_index : s \in segs} = 0..(n - 1)
      /\ \A s, u \in segs : s.segment_index = u.segment_index => s = u
      /\ \A s \in segs : s.state.packet_timestamps \in Seq(Times)
  BY DEF Chained
<1>5. \A s \in segs : s.segment_index \in 0..(n - 1) /\ s.segment_index # n
  BY <1>4
<1>6. /\ {s.segment_index : s \in grown} = 0..n
      /\ \A s, u \in grown : s.segment_index = u.segment_index => s = u
      /\ \A s \in grown : s.state.packet_timestamps \in Seq(Times)
  <2>1. {s.segment_index : s \in grown} = {s.segment_index : s \in segs} \union {n}
    BY <1>3
  <2>2. (0..(n - 1)) \union {n} = 0..n
    OBVIOUS
  <2> QED BY <1>3, <1>4, <1>5, <2>1, <2>2
<1>7. longer \in [0..(n + 1) -> Seq(Times)] /\ longer[n + 1] = all \o more
  <2>1. all \o more \in Seq(Times)
    BY ConcatProperties
  <2>2. \A i \in 0..(n + 1) : i # n + 1 => i \in 0..n
    OBVIOUS
  <2>3. n + 1 \in 0..(n + 1)
    OBVIOUS
  <2> QED BY <1>2, <2>1, <2>2, <2>3
<1>8. \A i \in 0..n : longer[i] = join[i]
  <2>1. \A i \in 0..n : i \in 0..(n + 1) /\ i # n + 1
    OBVIOUS
  <2> QED BY <1>2, <2>1
<1>9. ASSUME NEW i \in 0..n PROVE Part(grown, n + 1, more, i) = Part(segs, n, open, i)
  <2>1. CASE i = n
    <3>1. Part(grown, n + 1, more, seg.segment_index) = seg.state.packet_timestamps
      <4>1. seg \in grown /\ seg.segment_index # n + 1 /\ n + 1 \in Nat
        BY <1>3
      <4> QED BY <1>6, <4>1, PartOf
    <3> QED BY <2>1, <3>1 DEF Part
  <2>2. CASE i # n
    <3>1. i \in 0..(n - 1)
      BY <2>2
    <3>2. PICK s \in segs : s.segment_index = i
      BY <1>4, <3>1
    <3>3. Part(segs, n, open, i) = s.state.packet_timestamps
      BY <1>4, <2>2, <3>2, PartOf
    <3>4. s \in grown /\ i # n + 1 /\ n + 1 \in Nat
      BY <1>3, <3>2
    <3>5. Part(grown, n + 1, more, i) = s.state.packet_timestamps
      BY <1>6, <3>2, <3>4, PartOf
    <3> QED BY <3>3, <3>5
  <2> QED BY <2>1, <2>2
<1>10. longer[0] = Part(grown, n + 1, more, 0)
  <2>1. 0 \in 0..n
    OBVIOUS
  <2> QED BY <1>1, <1>8, <1>9, <2>1 DEF Joins
<1>11. ASSUME NEW i \in 1..(n + 1)
       PROVE  longer[i] = longer[i - 1] \o Part(grown, n + 1, more, i)
  <2>1. CASE i = n + 1
    <3>1. i - 1 = n /\ n \in 0..n
      BY <2>1
    <3>2. longer[i - 1] = all
      BY <1>1, <1>8, <3>1
    <3> QED BY <1>7, <2>1, <3>2 DEF Part
  <2>2. CASE i # n + 1
    <3>1. i \in 1..n /\ i \in 0..n /\ i - 1 \in 0..n
      BY <2>2
    <3> QED BY <1>1, <1>8, <1>9, <3>1 DEF Joins
  <2> QED BY <2>1, <2>2
<1>12. Joins(longer, grown, n + 1, more)
  BY <1>10, <1>11 DEF Joins
<1>13. (n + 1) - 1 = n
  OBVIOUS
<1> QED BY <1>3, <1>6, <1>7, <1>12, <1>13 DEF Chained

-----------------------------------------------------------------------------
(* What a chain says.                                                      *)

\* There is only one way to join a chain.
LEMMA JoinsAgree ==
  ASSUME NEW g, NEW h, NEW segs, NEW n \in Nat, NEW open,
         Joins(g, segs, n, open), Joins(h, segs, n, open)
  PROVE  g[n] = h[n]
<1> DEFINE bad == {i \in 0..n : g[i] # h[i]}
<1>1. CASE bad = {}
  BY <1>1
<1>2. CASE bad # {}
  <2>1. bad \in SUBSET Nat
    OBVIOUS
  <2>2. PICK m \in bad : \A i \in bad : m <= i
    <3> HIDE DEF bad
    <3> QED BY <1>2, <2>1, LeastNumber
  <2>3. m \in 1..n
    BY DEF Joins
  <2>4. m - 1 \in 0..n /\ m - 1 \notin bad
    BY <2>2, <2>3
  <2>5. g[m - 1] = h[m - 1]
    BY <2>4
  <2> QED BY <2>3, <2>5 DEF Joins
<1> QED BY <1>1, <1>2

LEMMA ChainJoined ==
  ASSUME NEW k \in Keys, segment_counts[k] \in Nat, NEW all,
         Chained(SegmentsOf(k), segment_counts[k], flow[k].packet_timestamps, all)
  PROVE  Joined(k) = all
<1> DEFINE N == segment_counts[k]
           segs == SegmentsOf(k)
           open == flow[k].packet_timestamps
           IsJoin(c) == c = [i \in 0..N |-> IF i = 0 THEN Timestamps(k, 0)
                                            ELSE c[i - 1] \o Timestamps(k, i)]
<1>1. PICK join \in [0..N -> Seq(Times)] : Joins(join, segs, N, open) /\ join[N] = all
  BY DEF Chained
<1>2. \A i : Timestamps(k, i) = Part(segs, N, open, i)
  BY DEF Timestamps, Part
<1>3. IsJoin(join)
  <2>1. join = [i \in 0..N |-> join[i]]
    OBVIOUS
  <2>2. ASSUME NEW i \in 0..N
        PROVE  join[i] = IF i = 0 THEN Timestamps(k, 0) ELSE join[i - 1] \o Timestamps(k, i)
    <3>1. i = 0 \/ i \in 1..N
      OBVIOUS
    <3> QED BY <1>1, <1>2, <3>1 DEF Joins
  <2> HIDE DEF N
  <2>3. join = [i \in 0..N |-> IF i = 0 THEN Timestamps(k, 0)
                               ELSE join[i - 1] \o Timestamps(k, i)]
    BY <2>1, <2>2
  <2> QED BY <2>3
<1>4. PICK c : IsJoin(c) /\ Joined(k) = c[N]
  <2>1. Joined(k) = (CHOOSE c : IsJoin(c))[N]
    BY DEF Joined
  <2> QED BY <1>3, <2>1
<1>5. Joins(c, segs, N, open)
  <2>1. c = [i \in 0..N |-> IF i = 0 THEN Timestamps(k, 0)
                            ELSE c[i - 1] \o Timestamps(k, i)]
    BY <1>4
  <2>2. \A i \in 0..N : c[i] = IF i = 0 THEN Timestamps(k, 0)
                               ELSE c[i - 1] \o Timestamps(k, i)
    BY <2>1
  <2>3. 0 \in 0..N /\ \A i \in 1..N : i \in 0..N /\ i # 0
    OBVIOUS
  <2> QED BY <1>2, <2>2, <2>3 DEF Joins
<1>6. c[N] = join[N]
  <2> HIDE DEF N, segs, open
  <2>1. N \in Nat
    BY DEF N
  <2> QED BY <1>1, <1>5, <2>1, JoinsAgree
<1> QED BY <1>1, <1>4, <1>6

LEMMA ChainCounted ==
  ASSUME NEW segs, NEW n \in Nat, NEW open, NEW all, Chained(segs, n, open, all)
  PROVE  Cardinality(segs) = n
<1> DEFINE found == [i \in 0..(n - 1) |-> CHOOSE s \in segs : s.segment_index = i]
<1>1. /\ {s.segment_index : s \in segs} = 0..(n - 1)
      /\ \A s, u \in segs : s.segment_index = u.segment_index => s = u
  BY DEF Chained
<1>2. \A i \in 0..(n - 1) : found[i] \in segs /\ found[i].segment_index = i
  BY <1>1
<1>3. \A s \in segs : s.segment_index \in 0..(n - 1) /\ found[s.segment_index] = s
  BY <1>1, <1>2
<1>4. found \in Bijection(0..(n - 1), segs)
  <2>1. found \in [0..(n - 1) -> segs]
    BY <1>2
  <2> HIDE DEF found
  <2>2. \A i, j \in 0..(n - 1) : found[i] = found[j] => i = j
    BY <1>2
  <2>3. \A s \in segs : \E i \in 0..(n - 1) : found[i] = s
    BY <1>3
  <2> QED BY <2>1, <2>2, <2>3 DEF Bijection, Injection, Surjection, IsInjective
<1>5. IsFiniteSet(0..(n - 1)) /\ Cardinality(0..(n - 1)) = n
  BY FS_Interval
<1>6. ExistsBijection(0..(n - 1), segs)
  BY <1>4 DEF ExistsBijection
<1> QED BY <1>5, <1>6, FS_Bijection

-----------------------------------------------------------------------------
(* Every step keeps the chains.                                            *)

Chain(k) ==
    Chained(SegmentsOf(k), segment_counts[k], flow[k].packet_timestamps, arrived[k])

Chains == status # "failed" => \A k \in Keys : Chain(k)

LEMMA ChainTypes ==
  ASSUME TableTypeOK, NEW x \in Keys
  PROVE  /\ segment_counts[x] \in Nat /\ arrived[x] \in Seq(Times)
         /\ flow[x].packet_timestamps \in Seq(Times)
<1>1. segment_counts[x] \in Nat /\ arrived[x] \in Seq(Times)
      /\ (flow[x] \in FlowState \/ flow[x] = NoFlow)
  BY DEF TableTypeOK
<1>2. NoFlow.packet_timestamps = << >> /\ << >> \in Seq(Times)
  BY DEF NoFlow
<1>3. flow[x] \in FlowState => flow[x].packet_timestamps \in Seq(Times)
  BY DEF FlowState
<1> QED BY <1>1, <1>2, <1>3

\* A key gets one more packet, or none; before, its segment may close.
LEMMA ChainKept ==
  ASSUME TableTypeOK, NEW x \in Keys, Chain(x), NEW more \in Seq(Times),
         arrived'[x] = arrived[x] \o more,
         \/ /\ segment_counts'[x] = segment_counts[x]
            /\ SegmentsOf(x)' = SegmentsOf(x)
            /\ flow'[x].packet_timestamps = flow[x].packet_timestamps \o more
         \/ \E r : /\ segment_counts'[x] = segment_counts[x] + 1
                   /\ SegmentsOf(x)' = SegmentsOf(x) \union {Closing(x, r)}
                   /\ flow'[x].packet_timestamps = more
  PROVE  Chain(x)'
<1>1. /\ segment_counts[x] \in Nat /\ arrived[x] \in Seq(Times)
      /\ flow[x].packet_timestamps \in Seq(Times)
  BY ChainTypes
<1>2. CASE /\ segment_counts'[x] = segment_counts[x]
           /\ SegmentsOf(x)' = SegmentsOf(x)
           /\ flow'[x].packet_timestamps = flow[x].packet_timestamps \o more
  BY <1>1, <1>2, ChainGrows DEF Chain
<1>3. ASSUME NEW r, segment_counts'[x] = segment_counts[x] + 1,
             SegmentsOf(x)' = SegmentsOf(x) \union {Closing(x, r)},
             flow'[x].packet_timestamps = more
      PROVE  Chain(x)'
  <2>1. /\ Closing(x, r).segment_index = segment_counts[x]
        /\ Closing(x, r).state.packet_timestamps = flow[x].packet_timestamps
    BY DEF Closing
  <2> QED BY <1>1, <1>3, <2>1, ChainCloses DEF Chain
<1> QED BY <1>2, <1>3

LEMMA PacketChain ==
  ASSUME TableTypeOK, NEW k \in Keys, NEW t \in Times,
         NEW expired \in SUBSET Active(flow), Process(k, t, expired),
         NEW x \in Keys, Chain(x)
  PROVE  Chain(x)'
<1> DEFINE filled == Filled(k, expired)
           closed == expired \union filled
<1>1. /\ filled \subseteq Active(flow) \ expired /\ filled \subseteq {k}
  BY DEF Filled
<1>2. PICK more : more = IF x = k THEN << t >> ELSE << >>
  OBVIOUS
<1>3. more \in Seq(Times)
  BY <1>2
<1>4. arrived[x] \in Seq(Times) /\ flow[x].packet_timestamps \in Seq(Times)
  BY ChainTypes
<1>5. arrived'[x] = arrived[x] \o more
  <2>1. arrived'[x] = IF x = k THEN Append(arrived[x], t) ELSE arrived[x]
    BY DEF Process, TableTypeOK
  <2> QED BY <1>2, <1>4, <2>1, AppendIsConcat, ConcatEmptySeq
<1>6. segment_counts'[x] = IF x \in closed THEN segment_counts[x] + 1 ELSE segment_counts[x]
  BY DEF Process, CountSegments
<1>7. flow'[x] = IF x = k
                 THEN IF Opens(k, closed) THEN FromFirstPacket(t) ELSE Add(flow[k], t)
                 ELSE IF x \in closed THEN NoFlow ELSE flow[x]
  BY DEF Process, Remaining
<1>8. finalized' = finalized
        \union {Closing(y, TimeoutReason(flow[y], t)) : y \in expired}
        \union {Closing(y, "capacity") : y \in filled}
  BY DEF Process
<1>9. \A y, r : Closing(y, r).key = y
  BY DEF Closing
<1> HIDE DEF filled
<1>10. CASE x \in closed
  <2>1. flow'[x].packet_timestamps = more
    BY <1>2, <1>7, <1>10 DEF Opens, FromFirstPacket, NoFlow
  <2>2. CASE x \in expired
    <3>1. SegmentsOf(x)' = SegmentsOf(x) \union {Closing(x, TimeoutReason(flow[x], t))}
      BY <1>1, <1>8, <1>9, <2>2 DEF SegmentsOf
    <3> QED BY <1>3, <1>5, <1>6, <1>10, <2>1, <3>1, ChainKept
  <2>3. CASE x \in filled
    <3>1. SegmentsOf(x)' = SegmentsOf(x) \union {Closing(x, "capacity")}
      BY <1>1, <1>8, <1>9, <2>3 DEF SegmentsOf
    <3> QED BY <1>3, <1>5, <1>6, <1>10, <2>1, <3>1, ChainKept
  <2> QED BY <1>10, <2>2, <2>3
<1>11. CASE x \notin closed
  <2>1. SegmentsOf(x)' = SegmentsOf(x)
    BY <1>8, <1>9, <1>11 DEF SegmentsOf
  <2>2. flow'[x].packet_timestamps = flow[x].packet_timestamps \o more
    <3>1. CASE x # k
      BY <1>2, <1>4, <1>7, <1>11, <3>1, ConcatEmptySeq
    <3>2. CASE x = k /\ k \in Active(flow)
      <4>1. flow'[x].packet_timestamps = Append(flow[x].packet_timestamps, t)
        BY <1>7, <1>11, <3>2 DEF Opens, Add
      <4> QED BY <1>2, <1>4, <3>2, <4>1, AppendIsConcat
    <3>3. CASE x = k /\ k \notin Active(flow)
      <4>1. flow[x].packet_timestamps = << >>
        BY <3>3 DEF Active, NoFlow
      <4>2. flow'[x].packet_timestamps = << t >>
        BY <1>7, <3>3 DEF Opens, FromFirstPacket
      <4> QED BY <1>2, <1>3, <3>3, <4>1, <4>2, ConcatEmptySeq
    <3> QED BY <3>1, <3>2, <3>3
  <2> QED BY <1>3, <1>5, <1>6, <1>11, <2>1, <2>2, ChainKept
<1> QED BY <1>10, <1>11

LEMMA FlushChain ==
  ASSUME TableTypeOK, NEW r, Flush(r), NEW x \in Keys, Chain(x)
  PROVE  Chain(x)'
<1>1. /\ finalized' = finalized \union {Closing(y, r) : y \in Active(flow)}
      /\ segment_counts'[x] = IF x \in Active(flow) THEN segment_counts[x] + 1
                                                    ELSE segment_counts[x]
      /\ flow'[x].packet_timestamps = << >>
      /\ arrived' = arrived
  BY DEF Flush, CountSegments, NoFlow
<1>2. \A y : Closing(y, r).key = y
  BY DEF Closing
<1>3. arrived[x] \in Seq(Times) /\ << >> \in Seq(Times)
  BY DEF TableTypeOK
<1>4. arrived'[x] = arrived[x] \o << >>
  BY <1>1, <1>3, ConcatEmptySeq
<1>5. CASE x \in Active(flow)
  <2>1. SegmentsOf(x)' = SegmentsOf(x) \union {Closing(x, r)}
    BY <1>1, <1>2, <1>5 DEF SegmentsOf
  <2> QED BY <1>1, <1>3, <1>4, <1>5, <2>1, ChainKept
<1>6. CASE x \notin Active(flow)
  <2>1. SegmentsOf(x)' = SegmentsOf(x)
    BY <1>1, <1>2, <1>6 DEF SegmentsOf
  <2>2. flow[x].packet_timestamps = << >>
    BY <1>6 DEF Active, NoFlow
  <2>3. flow'[x].packet_timestamps = flow[x].packet_timestamps \o << >>
    BY <1>1, <1>3, <2>2, ConcatEmptySeq
  <2> QED BY <1>1, <1>3, <1>4, <1>6, <2>1, <2>3, ChainKept
<1> QED BY <1>5, <1>6

LEMMA ChainsStep == TypeOK /\ Chains /\ [Next]_vars => Chains'
<1> SUFFICES ASSUME TypeOK, Chains, [Next]_vars, status' # "failed", NEW x \in Keys
             PROVE  Chain(x)'
  BY DEF Chains
<1>0. TableTypeOK
  BY DEF TypeOK
<1>1. ASSUME NEW k \in Keys, NEW t \in Times, ProcessPacket(k, t) PROVE Chain(x)'
  <2>1. Process(k, t, Expired(t)) /\ Expired(t) \in SUBSET Active(flow)
    BY <1>1 DEF ProcessPacket, Expired, Candidates
  <2>2. Chain(x)
    BY <2>1 DEF Process, Chains
  <2> QED BY <1>0, <2>1, <2>2, PacketChain
<1>2. ASSUME NEW k \in Keys, NEW t \in Times, RaiseLimit(k, t) PROVE FALSE
  BY <1>2 DEF RaiseLimit, LimitReached
<1>3. CASE EndOfCapture \/ ManualFlush
  <2>1. PICK r : Flush(r)
    BY <1>3 DEF EndOfCapture, FlushCaptureEnd, ManualFlush, FlushManual
  <2>2. Chain(x)
    BY <1>3 DEF EndOfCapture, FlushCaptureEnd, ManualFlush, FlushManual, Chains
  <2> QED BY <1>0, <2>1, <2>2, FlushChain
<1>4. CASE UNCHANGED vars
  BY <1>4 DEF vars, tableVars, Chains, Chain, SegmentsOf
<1> QED BY <1>1, <1>2, <1>3, <1>4 DEF Next

LEMMA ChainsInit == Init => Chains
<1> SUFFICES ASSUME Init, NEW k \in Keys PROVE Chain(k)
  BY DEF Chains
<1>1. /\ SegmentsOf(k) = {} /\ segment_counts[k] = 0
      /\ flow[k].packet_timestamps = << >> /\ arrived[k] = << >>
  BY DEF Init, TableInit, SegmentsOf, NoFlow
<1>2. PICK join : join = [i \in 0..0 |-> << >>]
  OBVIOUS
<1>3. join \in [0..0 -> Seq(Times)] /\ join[0] = << >>
  BY <1>2
<1>4. Joins(join, {}, 0, << >>)
  BY <1>3 DEF Joins, Part
<1>5. {s.segment_index : s \in {}} = 0..(0 - 1)
  OBVIOUS
<1>6. Chained({}, 0, << >>, << >>)
  BY <1>3, <1>4, <1>5 DEF Chained
<1> QED BY <1>1, <1>6 DEF Chain

LEMMA ChainsWhole == TypeOK /\ Chains => NoPacketLost
<1> SUFFICES ASSUME TypeOK, Chains, status # "failed", NEW k \in Keys
             PROVE  /\ {s.segment_index : s \in SegmentsOf(k)} = 0..(segment_counts[k] - 1)
                    /\ Cardinality(SegmentsOf(k)) = segment_counts[k]
                    /\ Joined(k) = arrived[k]
  BY DEF NoPacketLost
<1>1. segment_counts[k] \in Nat
  BY DEF TypeOK, TableTypeOK
<1>2. Chained(SegmentsOf(k), segment_counts[k], flow[k].packet_timestamps, arrived[k])
  BY DEF Chains, Chain
<1> QED BY <1>1, <1>2, ChainCounted, ChainJoined DEF Chained

\* Until a limit is hit no packet is lost, counted twice or moved, for every set of keys,
\* every timeout, rounding of the deadlines and limit, whatever the heap holds.
THEOREM NoPacketIsLost == Spec => []NoPacketLost
<1>1. TypeOK /\ Chains /\ [Next]_vars => Chains'
  BY ChainsStep
<1> QED BY ChainsInit, <1>1, ChainsWhole, FlowTypesCorrect, PTL DEF Spec
=============================================================================
