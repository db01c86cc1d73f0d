---------------------------- MODULE FlowFeatures ----------------------------
(***************************************************************************)
(* The state of one flow segment and the features it is finalised with     *)
(* (FlowState, extract_features).  Packets come in the order they were     *)
(* captured, which need not be the order of their timestamps: the lists of *)
(* timestamps are sorted before use, the observations of TCP flags are     *)
(* not.  A feature outside the bounds of the registry fails the capture.   *)
(*                                                                         *)
(* Abstractions.  Times are milliseconds.  A feature is a fraction; of a   *)
(* standard deviation the square is kept, of the periodicity score, which  *)
(* is 1 / (1 + deviation / mean), the square of deviation / mean.  The     *)
(* features that repeat another one's calculation on other values (FIN,    *)
(* PSH and URG counts, rates of bytes) are left out.                       *)
(***************************************************************************)
EXTENDS Integers, Sequences, FiniteSets

CONSTANTS
    Protocols,         \* of the flows: "tcp" or another
    Observed,          \* packets: from, flags, time, bytes
    MaxPackets

VARIABLES
    state,             \* FlowState
    features           \* NotExtracted, Refused or the features

vars == << state, features >>

NotExtracted == [result |-> "none"]
Refused == [result |-> "FeatureCalculationError"]
BurstWindow == 1000
Flags == {"syn", "ack", "rst"}
Directions == {"forward", "backward"}

-----------------------------------------------------------------------------
(* FlowState.                                                              *)

EmptyState(protocol, sender) ==
    [protocol |-> protocol, forward_source |-> sender, first_seen |-> -1, last_seen |-> -1,
     sizes |-> [d \in Directions |-> << >>], timestamps |-> [d \in Directions |-> << >>],
     packet_sizes |-> << >>, packet_timestamps |-> << >>,
     flag_counts |-> [f \in Flags |-> 0], observations |-> << >>, finalized |-> FALSE]

PacketCount(s) == Len(s.sizes["forward"]) + Len(s.sizes["backward"])

Direction(s, packet) == IF packet.from = s.forward_source THEN "forward" ELSE "backward"

Earliest(seen, time) == IF seen = -1 \/ time < seen THEN time ELSE seen
Latest(seen, time) == IF seen = -1 \/ time > seen THEN time ELSE seen

\* What add makes of a state that is not finalized.
Added(s, packet) ==
    LET direction == Direction(s, packet)
        tcp == s.protocol = "tcp"
    IN  [protocol |-> s.protocol, forward_source |-> s.forward_source,
         first_seen |-> Earliest(s.first_seen, packet.time),
         last_seen |-> Latest(s.last_seen, packet.time),
         sizes |-> [s.sizes EXCEPT ![direction] = Append(@, packet.bytes)],
         timestamps |-> [s.timestamps EXCEPT ![direction] = Append(@, packet.time)],
         packet_sizes |-> Append(s.packet_sizes, packet.bytes),
         packet_timestamps |-> Append(s.packet_timestamps, packet.time),
         flag_counts |-> [f \in Flags |->
            s.flag_counts[f] + (IF tcp /\ f \in packet.flags THEN 1 ELSE 0)],
         observations |->
            IF tcp THEN Append(s.observations, [direction |-> direction, flags |-> packet.flags])
            ELSE s.observations,
         finalized |-> FALSE]

-----------------------------------------------------------------------------
(* Calculation.                                                            *)

Values(numbers) == {numbers[i] : i \in 1..Len(numbers)}
Least(S) == CHOOSE x \in S : \A y \in S : x <= y
Greatest(S) == CHOOSE x \in S : \A y \in S : x >= y

Sum(numbers) ==
    LET partial[n \in 0..Len(numbers)] == IF n = 0 THEN 0 ELSE partial[n - 1] + numbers[n]
    IN  partial[Len(numbers)]

\* In ascending order: the first is the least number, the second the least one that
\* with it makes two, and so on.
NotAbove(numbers, v) == Cardinality({i \in 1..Len(numbers) : numbers[i] <= v})
Sorted(numbers) ==
    [i \in 1..Len(numbers) |-> Least({v \in Values(numbers) : i <= NotAbove(numbers, v)})]

Ratio(numerator, denominator) ==
    IF denominator = 0 THEN << 0, 1 >> ELSE << numerator, denominator >>
AtMost(x, y) == x[1] * y[2] <= y[1] * x[2]

Mean(numbers) == Ratio(Sum(numbers), Len(numbers))

Variance(numbers) ==
    LET n == Len(numbers)
        squares == [i \in 1..n |-> numbers[i] * numbers[i]]
    IN  IF n < 2 THEN << 0, 1 >>
        ELSE << n * Sum(squares) - Sum(numbers) * Sum(numbers), n * n >>

Smallest(numbers) == << IF numbers = << >> THEN 0 ELSE Least(Values(numbers)), 1 >>
Largest(numbers) == << IF numbers = << >> THEN 0 ELSE Greatest(Values(numbers)), 1 >>

\* The quarter-th quartile, interpolated between its neighbours.
Quantile(numbers, quarter) ==
    LET ordered == Sorted(numbers)
        position == (Len(numbers) - 1) * quarter
        lower == position \div 4
        weight == position % 4
    IN  IF numbers = << >> THEN << 0, 1 >>
        ELSE << ordered[1 + lower] * (4 - weight)
                    + (IF weight = 0 THEN 0 ELSE ordered[2 + lower] * weight), 4 >>

NotNegative(x) == IF x < 0 THEN 0 ELSE x
Gaps(ordered) == [i \in 1..(Len(ordered) - 1) |-> NotNegative(ordered[i + 1] - ordered[i])]

\* As if packets were captured in the order of their times.
Iats_AsCaptured(timestamps) == IF timestamps = << >> THEN << >> ELSE Gaps(timestamps)

Iats(timestamps) == IF timestamps = << >> THEN << >> ELSE Gaps(Sorted(timestamps))

\* The three steps of the handshake, looked for in the order of capture.
Opens(seen) == seen.direction = "forward" /\ "syn" \in seen.flags /\ "ack" \notin seen.flags
Answers(seen) == seen.direction = "backward" /\ {"syn", "ack"} \subseteq seen.flags
Confirms(seen) == seen.direction = "forward" /\ "ack" \in seen.flags

Handshake(observations) ==
    LET phase[n \in 0..Len(observations)] ==
            IF n = 0 THEN 0
            ELSE IF phase[n - 1] = 0 /\ Opens(observations[n]) THEN 1
            ELSE IF phase[n - 1] = 1 /\ Answers(observations[n]) THEN 2
            ELSE IF phase[n - 1] = 2 /\ Confirms(observations[n]) THEN 3
            ELSE phase[n - 1]
    IN  IF phase[Len(observations)] = 3 THEN 1 ELSE 0

\* The window's left end only moves on; the largest window is kept.
Burst(timestamps) ==
    LET ordered == Sorted(timestamps)
        window[right \in 0..Len(timestamps)] ==
            IF right = 0 THEN [left |-> 1, largest |-> 1]
            ELSE LET left == Least({i \in window[right - 1].left..right :
                                        ordered[right] - ordered[i] <= BurstWindow})
                 IN  [left |-> left,
                      largest |-> Greatest({window[right - 1].largest, right - left + 1})]
    IN  IF timestamps = << >> THEN 0 ELSE window[Len(timestamps)].largest

Irregularity(iats) ==
    IF Len(iats) < 3 \/ Sum(iats) = 0 THEN [score |-> "zero", square |-> << 0, 1 >>]
    ELSE [score |-> "positive", square |-> << Variance(iats)[1], Sum(iats) * Sum(iats) >>]

Quartiles(numbers) ==
    << Smallest(numbers), Quantile(numbers, 1), Quantile(numbers, 2), Quantile(numbers, 3),
       Largest(numbers) >>

Failed(s, handshake) ==
    /\ s.protocol = "tcp"
    /\ s.flag_counts["rst"] > 0 \/ (s.flag_counts["syn"] > 0 /\ handshake = 0)

Extracted(s) ==
    LET duration == NotNegative(s.last_seen - s.first_seen)
        forward == s.sizes["forward"]
        backward == s.sizes["backward"]
        iats == Iats(s.packet_timestamps)
        handshake == IF s.protocol = "tcp" THEN Handshake(s.observations) ELSE 0
        imbalance == Sum(forward) - Sum(backward)
    IN  [result |-> "features",
         packets_per_second |-> Ratio(1000 * PacketCount(s), duration),
         forward_backward_packet_ratio |-> Ratio(Len(forward), Len(backward)),
         packet_size |-> Quartiles(s.packet_sizes),
         mean_packet_size |-> Mean(s.packet_sizes),
         std_packet_size |-> Variance(s.packet_sizes),
         forward_mean_packet_size |-> Mean(forward), backward_mean_packet_size |-> Mean(backward),
         flow_duration |-> duration,
         inter_arrival_time |-> Quartiles(iats),
         mean_inter_arrival_time |-> Mean(iats), std_inter_arrival_time |-> Variance(iats),
         forward_mean_iat |-> Mean(Iats(s.timestamps["forward"])),
         backward_mean_iat |-> Mean(Iats(s.timestamps["backward"])),
         flag_ratio |-> [f \in Flags |-> Ratio(s.flag_counts[f], PacketCount(s))],
         completed_handshake_indicator |-> handshake,
         asymmetry_score |-> Ratio(IF imbalance < 0 THEN -imbalance ELSE imbalance,
                                   Sum(forward) + Sum(backward)),
         connection_burst_score |->
            Ratio(Burst(s.packet_timestamps), Len(s.packet_timestamps)),
         periodicity_score |-> Irregularity(iats),
         failed_connection_indicator |-> IF Failed(s, handshake) THEN 1 ELSE 0]

\* The features the registry bounds by one, and those it only bounds by zero.
Shares(f) ==
    {f.flag_ratio[flag] : flag \in Flags} \union {f.asymmetry_score, f.connection_burst_score}
Amounts(f) ==
    {f.packets_per_second, f.forward_backward_packet_ratio, f.mean_packet_size, f.std_packet_size,
     f.forward_mean_packet_size, f.backward_mean_packet_size, << f.flow_duration, 1 >>,
     f.mean_inter_arrival_time, f.std_inter_arrival_time, f.forward_mean_iat, f.backward_mean_iat}
    \union {f.packet_size[i] : i \in 1..5} \union {f.inter_arrival_time[i] : i \in 1..5}

InBounds(f) ==
    /\ \A x \in Shares(f) \union Amounts(f) : x[2] # 0 /\ AtMost(<< 0, 1 >>, x)
    /\ \A x \in Shares(f) : AtMost(x, << 1, 1 >>)
    /\ {f.completed_handshake_indicator, f.failed_connection_indicator} \subseteq {0, 1}
Validated(f) == IF InBounds(f) THEN f ELSE Refused

-----------------------------------------------------------------------------
Init ==
    /\ \E protocol \in Protocols, first \in Observed : state = EmptyState(protocol, first.from)
    /\ features = NotExtracted

\* The flow's first packet gives its direction.
AddPacket ==
    /\ ~state.finalized
    /\ PacketCount(state) < MaxPackets
    /\ \E packet \in Observed :
        /\ PacketCount(state) = 0 => Direction(state, packet) = "forward"
        /\ state' = Added(state, packet)
    /\ UNCHANGED features

\* mark_finalized and extract_features.
Finalize ==
    /\ ~state.finalized
    /\ PacketCount(state) > 0
    /\ LET closed == [state EXCEPT !.finalized = TRUE]
       IN  state' = closed /\ features' = Validated(Extracted(closed))

Next == AddPacket \/ Finalize

Spec == Init /\ [][Next]_vars

-----------------------------------------------------------------------------
TypeOK ==
    /\ PacketCount(state) \in 0..MaxPackets
    /\ features.result \in {"none", "features", "FeatureCalculationError"}

\* The packets of a second that begins with a packet.
SecondFrom(times, i) ==
    {j \in 1..Len(times) : times[j] >= times[i] /\ times[j] - times[i] <= BurstWindow}
DensestSecond(times, n) ==
    /\ \E i \in 1..Len(times) : Cardinality(SecondFrom(times, i)) = n
    /\ \A i \in 1..Len(times) : Cardinality(SecondFrom(times, i)) <= n

\* SYN, SYN and ACK back, ACK, in this order among whatever else was captured.
HandshakeCaptured(seen) ==
    \E i, j, k \in 1..Len(seen) :
        i < j /\ j < k /\ Opens(seen[i]) /\ Answers(seen[j]) /\ Confirms(seen[k])

Ascending(values) == \A i \in 1..4 : AtMost(values[i], values[i + 1])

\* The features of a flow are those of its packets, however their timestamps were out
\* of order: the gaps cover the flow, quartiles ascend and hold the mean between the
\* outermost, the burst is the densest second, a handshake is found wherever one was
\* captured, a connection with a SYN and no failure had one, and a flow is perfectly
\* periodic only if all gaps are the same.
AreOf(f, s) ==
    LET times == s.packet_timestamps
    IN  /\ f.mean_inter_arrival_time[1] = f.flow_duration
        /\ f.flow_duration = Greatest(Values(times)) - Least(Values(times))
        /\ Ascending(f.packet_size) /\ Ascending(f.inter_arrival_time)
        /\ AtMost(f.packet_size[1], f.mean_packet_size)
        /\ AtMost(f.mean_packet_size, f.packet_size[5])
        /\ DensestSecond(times, f.connection_burst_score[1])
        /\ (f.completed_handshake_indicator = 1) <=> HandshakeCaptured(s.observations)
        /\ s.flag_counts["syn"] > 0 /\ f.failed_connection_indicator = 0 =>
                f.completed_handshake_indicator = 1
        /\ f.periodicity_score.score = "positive" /\ f.periodicity_score.square[1] = 0 =>
                f.inter_arrival_time[1] = f.inter_arrival_time[5]

\* No flow's features leave the bounds of the registry, which would fail its capture,
\* and they are those of its packets.
FeaturesAreSound ==
    features # NotExtracted => features # Refused /\ AreOf(features, state)
=============================================================================
