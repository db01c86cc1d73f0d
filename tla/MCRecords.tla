------------------------------ MODULE MCRecords -----------------------------
(***************************************************************************)
(* The components around the runtime, checked side by side: what analysts  *)
(* do, what is stored, which models are used, and the computations, which  *)
(* use the variables v1, v2, ... for theirs.                               *)
(*                                                                         *)
(* a and b stand for two analysts, callers, writers or workers, which are  *)
(* interchangeable in every part.                                          *)
(***************************************************************************)
EXTENDS AnalystWork, StorageWork, ModelWork, TLC

VARIABLES v1, v2, v3, v4, v5, v6, v7

Generic == << v1, v2, v3, v4, v5, v6, v7 >>
AllVars == << AnalystVars, StorageVars, ModelVars, Generic >>

Analysis == Permutations(Analysts) \cup Permutations(PinnedJobs)

\* Two processes create, run and recover the first pinned job; their calls overlap while no
\* demo environment is prepared and the job is not run.  Once there are two jobs, one
\* process has done nothing yet.
PinnedStarts == Pins!Started(CHOOSE d \in DemoVersions : \A x \in DemoVersions : d <= x, 0)
Bounded ==
    part = "pinned" =>
        /\ Pins!Prepared # {} \/ (\E j \in PinnedJobs : job[j].status = "running") =>
            Cardinality({p \in PinnedProcesses : runner[p].call # Pins!Idle}) <= 1
        /\ Len(created) = Cardinality(PinnedJobs) =>
            Cardinality({p \in PinnedProcesses : runner[p] # PinnedStarts}) <= 1

\* Two alerts with a flow each; every writer is a process of its own.
MCFlowOf == ("alert1" :> "flow1") @@ ("alert2" :> "flow2")
MCProcessOf == [w \in Writers |-> w]

\* What the four contents turn out to be.
MCNature ==
    ("sample" :> "capture") @@ ("short" :> "miscounted") @@ ("csv" :> "table")
        @@ ("huge" :> "too_large")

\* The second bundle of the anomaly engine is qualified; the first two editions of a data
\* set have partitions of one shape.
MCQualified == {<< "anomaly", "2" >>}
MCShapeOf == << 1, 1, 3 >>

\* What the configuration file of each kind may hold; the editions with one identity
\* differ in what an experiment does not show.
Config(kind, experiment_id, candidate, edition) ==
    [kind |-> kind, experiment |-> experiment_id, version |-> "1", candidate |-> candidate,
     edition |-> edition]
MCConfigs ==
    {Config("supervised", "first", FALSE, n) : n \in {1, 2}}
    \cup {Config("supervised", "second", FALSE, 1), Config("anomaly", "first", FALSE, 1)}
    \cup {Config("anomaly", x, TRUE, 2) : x \in {"first", "second"}}
    \cup {Config("fusion", x, FALSE, 1) : x \in {"first", "second"}}

-----------------------------------------------------------------------------
\* Four rows: two of one label, two free ones that may share a group or session.
Row(group, login, label, features) ==
    [group |-> group, session |-> login, label |-> label, features |-> features]
Canonical ==
    {<< Row(1, 1, 0, << 1, 0 >>), Row(2, 2, 0, << second, 0 >>),
        Row(3, 3, 1, third), Row(place[1], place[2], label, fourth) >> :
        second \in {1, 3}, third \in (0..2) \X (0..1), fourth \in (0..2) \X (0..1),
        label \in {1, 2}, place \in {<< 3, 3 >>, << 4, 4 >>, << 4, 3 >>}}

MCRatios == [train |-> 60, validation |-> 20, test |-> 20]
Sizes == 3..12

\* Three validation rows in two or three groups; the scores leave each row its own
\* range, and ties.
ValidationData ==
    {[label |-> label, group |-> group, score |-> << s1, s2, s3 >>, raw |-> << r1, r2, r3 >>] :
        label \in {<< 0, 0, 1 >>, << 0, 1, 1 >>}, group \in {<< 1, 2, 3 >>, << 1, 1, 2 >>},
        s1 \in {0, 3}, s2 \in {1, 2, 4}, s3 \in {1, 3}, r1 \in 0..3, r2 \in {1, 3},
        r3 \in {0, 2, 3}}

Choice == INSTANCE ModelSelection WITH
    Validations <- ValidationData, Top <- 4, References <- << << 1, 1, 2 >>, << 0, 2, 3, 3 >> >>,
    Thresholds <- {1, 2, 3}, RateLimit <- 1260,
    Weights <- {[supervised |-> 1, anomaly |-> 3], [supervised |-> 3, anomaly |-> 1]},
    MinimumGain <- 0, AllowedRate <- 0,
    data <- v1, scores <- v2, results <- v3, chosen <- v4

\* Four patterns, benign and up to three families; five rows in four groups, whose
\* sessions may be shared, in two folds.
Families == {<< "benign", second, third, fourth >> :
                second \in {"benign", "c2"}, third \in {"c2", "scan"}, fourth \in {"scan", "flood"}}
TrainingRow(group, login, label) == [group |-> group, session |-> login, label |-> label]
Folds ==
    {[rows |-> {TrainingRow(1, 1, 0), TrainingRow(1, p, 1), TrainingRow(2, q, 0),
                TrainingRow(3, 3, 1), TrainingRow(4, 4, last)},
      fold |-> << 1, second, third, 2 >>] :
        p \in {1, 3}, q \in {1, 2, 4}, last \in {0, 1}, second \in {1, 2}, third \in {1, 2}}

\* Four flows of two sources and two destinations at chosen times, quiet ones and ones
\* unusual to either engine or both; every feature may leave the range of the benign rows.
Features(rst, burst, iat, mean) ==
    [rst_ratio |-> rst, connection_burst_score |-> burst, std_inter_arrival_time |-> iat,
     mean_inter_arrival_time |-> mean]
Calm == Features(100, 100, 100, 0)
Even == Features(100, 100, 0, 100)
Odd == Features(100, 100, 200, 100)
Bursts == Features(100, 300, 200, 100)
Loud == Features(300, 100, 0, 100)
TrainingRows ==
    {<< Features(0, 0, 100, 0), Features(200, 100, 200, 100) >>,
     << Features(100, 0, 100, 100), Features(100, 300, 0, 100), Features(200, 0, 200, 100) >>}
\* The classifier weighs resets, bursts and uneven timing, the detector bursts and even
\* timing.
Classifier(f) ==
    IF f.rst_ratio > 250 THEN 4
    ELSE IF f.connection_burst_score > 200 THEN 2
    ELSE IF f.std_inter_arrival_time > 150 THEN 3 ELSE 1
Detector(f) ==
    (IF f.std_inter_arrival_time < 50 THEN 2 ELSE 1) + (IF f.connection_burst_score > 200 THEN 2 ELSE 0)
RiskPolicy(source, threshold, same_models) ==
    [source |-> source, threshold |-> threshold, bands |-> << 0, 4, 6, 8, 12 >>,
     same_models |-> same_models]
SeenFlow(from, to, start, end, features) ==
    [source |-> from, destination |-> to, start |-> start, end |-> end, features |-> features]
Batches ==
    {[training |-> training, policy |-> risk,
      flows |-> << SeenFlow(1, 1, 0, 1, f), SeenFlow(p[1], p[2], 2, length, g),
                   SeenFlow(q[1], q[2], third, third + 1, h), SeenFlow(r[1], r[2], 6, 7, f) >>] :
        training \in TrainingRows,
        risk \in {RiskPolicy("fusion_score", 4, TRUE), RiskPolicy("supervised_probability", 8, TRUE)},
        length \in {2, 11}, third \in {4, 5},
        f \in {Calm, Loud, Odd}, g \in {Calm, Even, Odd}, h \in {Odd, Bursts},
        p \in {<< 1, 1 >>, << 1, 2 >>}, q \in {<< 1, 1 >>, << 2, 1 >>},
        r \in {<< 1, 1 >>, << 1, 2 >>, << 2, 1 >>}}
    \cup {[training |-> training, policy |-> RiskPolicy("normalized_anomaly_score", 8, same),
           flows |-> << SeenFlow(1, 1, 0, 1, Even), SeenFlow(1, 1, 2, 3, Bursts) >>] :
               training \in TrainingRows, same \in BOOLEAN}

Leads == INSTANCE Triage WITH
    Inputs <- Batches,
    FeatureNames <- << "rst_ratio", "connection_burst_score", "std_inter_arrival_time",
                       "mean_inter_arrival_time" >>,
    Supervised <- Classifier, Anomaly <- Detector, Top <- 4,
    EngineThreshold <- [supervised |-> 2, anomaly |-> 2],
    FusionWeights <- [supervised |-> 3, anomaly |-> 1], TopK <- 2,
    CorrelationWindow <- 8, MinimumAlerts <- 2, MaximumAlertsPerGroup <- 4,
    MaximumAlertsPerRun <- 4,
    ScoreWeights <- [risk |-> 35, alert_count |-> 20, evidence_diversity |-> 25,
                     temporal_density |-> 20],
    ConfidenceWeights <- [correlation |-> 40, rule_specificity |-> 25,
                          evidence_diversity |-> 20, entity_coherence |-> 15],
    AlertCountReference <- 5, EvidenceDiversityReference <- 6,
    GroupThreshold <- 35, HypothesisThreshold <- 50,
    CorrelationBands <- << 0, 35, 50, 70, 90 >>, Scale <- 960,
    input <- v1, stage <- v2, alerts <- v3, dismissed <- v4, groups <- v5,
    hypotheses <- v6

\* Captures of one interface and up to three blocks of packets, whole, cut after any word,
\* or with one word changed.
Frame(ethertype, total, protocol, header) ==
    [vlans |-> 0, ethertype |-> ethertype, version |-> IF ethertype = "ipv6" THEN 6 ELSE 4,
     ip_header |-> 20, total |-> total, fragment |-> FALSE, protocol |-> protocol,
     header |-> header, icmp |-> << "echo", 1 >>, ends |-> << "client", "server" >>,
     extensions |-> << >>]
Frames ==
    << Frame("ipv4", 44, "tcp", 20), Frame("ipv4", 28, "udp", 8), Frame("ipv4", 24, "icmp", 0),
       [Frame("ipv4", 28, "icmp", 0) EXCEPT !.vlans = 1],
       [Frame("ipv6", 72, "tcp", 24) EXCEPT !.extensions = << [length |-> 8, fragment |-> FALSE] >>],
       [Frame("ipv6", 60, "udp", 8) EXCEPT !.extensions = << [length |-> 8, fragment |-> TRUE] >>],
       [Frame("ipv6", 44, "icmp", 0) EXCEPT !.vlans = 2, !.icmp = << "type", 3, 1 >>],
       Frame("other", 28, "udp", 8),
       [Frame("ipv4", 40, "tcp", 24) EXCEPT !.fragment = TRUE], Frame("ipv4", 40, "tcp", 24) >>
MCFrameOf(word) == Frames[1 + (word % Len(Frames))]

InterfaceWords == << 1, 32, 1, 60, 9 + 65536, 3, 0, 32 >>
PacketWords(type, bytes, frame) ==
    LET data == [i \in 1..((bytes + 3) \div 4) |-> IF i = 1 THEN frame ELSE 0]
        length == 32 + 4 * Len(data)
    IN  << type, length, 0, 0, 2001, bytes, bytes >> \o data \o << length >>
RecordWords(bytes, frame) ==
    << 2, 5, bytes, bytes >> \o [i \in 1..((bytes + 3) \div 4) |-> IF i = 1 THEN frame ELSE 0]
PcapngWords ==
    {InterfaceWords \o blocks : blocks \in
        {PacketWords(6, 58, 0) \o << 5, 12, 12 >>, PacketWords(2, 42, 1) \o PacketWords(6, 14, 7),
         PacketWords(6, 46, 3) \o << 3, 16, 46, 16 >>, << 1, 20, 101, 60, 20 >>}}
ClassicWords == {RecordWords(44, 0) \o RecordWords(28, 1), RecordWords(24, 2)}

Damaged(words) ==
    {words} \cup {SubSeq(words, 1, n) : n \in 0..Len(words)}
    \cup {[words EXCEPT ![i] = w] : i \in 1..Len(words),
            w \in {0, 1, 2, 3, 5, 6, 8, 20, 32, 57, 64, 101}}
    \cup {[words EXCEPT ![i] = 12 * w] : i \in {2, 8, 10, Len(words)}, w \in {1, 3}}
    \cup {[words EXCEPT ![1] = 168627466], [words EXCEPT ![2] = 1000000],
           [words EXCEPT ![5] = 9 + 65536 * 2]}
Capture(format, link, words) ==
    [format |-> format, snap_length |-> 60, link_type |-> link, words |-> words]
MCCaptureFiles ==
    {Capture("pcapng", 1, w) : w \in UNION {Damaged(words) : words \in PcapngWords}}
    \cup {Capture("classic", 101, w) : w \in UNION {Damaged(words) : words \in ClassicWords}}

\* Packets of the two sides of a connection, out of order, up to two within a second.
Sent(from, flags, time, bytes) == [from |-> from, flags |-> flags, time |-> time, bytes |-> bytes]
Exchanged ==
    {Sent("client", {"syn"}, t, 40) : t \in {0, 900}}
    \cup {Sent("server", {"syn", "ack"}, t, 44) : t \in {0, 1000, 1500}}
    \cup {Sent("client", {"ack"}, t, 60) : t \in {1000, 2000}}
    \cup {Sent("server", {"rst"}, 2000, 40), Sent("client", {}, 3000, 0)}

\* Every short array and event, and longer ones with strings, nesting and blanks.
Strings(tokens, length) == UNION {[1..n -> tokens] : n \in 0..length}
JsonTexts ==
    {<< "[" >> \o s : s \in Strings({"{", "}", ",", "]"}, 5)}
    \cup {<< "{" >> \o s : s \in Strings({"}", "{", "quote", "escape", "blank"}, 4)}
    \cup {<< "[", "{", "quote" >> \o s \o << "quote", "}", "blank", ",", "{", x, "}", "]", "newline" >> :
            s \in Strings({"{", "escape", "quote"}, 3), x \in {"member", "nan", "["}}
    \cup {<< "newline", "{", "[", x, "]", "}" >> \o s :
            x \in {"member", "{", "]"}, s \in Strings({"blank", "newline", "}"}, 2)}
LineTexts ==
    {<< "{", x, "}", "newline", "{", y, "}" >> \o s :
        x \in {"member", "quote", "{"}, y \in {"blank", "newline", "nan"},
        s \in Strings({"newline", "{", "}", "blank"}, 3)}

EventFiles ==
    {[lines |-> FALSE, tokens |-> t] : t \in JsonTexts}
    \cup {[lines |-> TRUE, tokens |-> t] : t \in JsonTexts \cup LineTexts}

Events == INSTANCE JsonEvents WITH
    Texts <- EventFiles, ChunkTokens <- 3, MaxRecordTokens <- 6, MaxDepth <- 2, MaxRecords <- 2,
    input <- v1, at <- v2, buffer <- v3, phase <- v4, array <- v5, expect_value <- v6,
    count <- v7

-----------------------------------------------------------------------------
\* The variables a computation does not use.
Unused7 == v7 = Unused
Unused5 == v5 = Unused /\ v6 = Unused /\ Unused7
GenericUnused ==
    v1 = Unused /\ v2 = Unused /\ v3 = Unused /\ v4 = Unused /\ Unused5

Rest5 == << v5, v6, v7 >>

Init ==
    \/ AnalystInit /\ StorageUnused /\ ModelUnused /\ GenericUnused
    \/ StorageInit /\ AnalystUnused /\ ModelUnused /\ GenericUnused
    \/ ModelInit /\ AnalystUnused /\ StorageUnused /\ GenericUnused
    \/ /\ AnalystUnused /\ StorageUnused /\ ModelUnused
       /\ \/ part = "choice" /\ Choice!Init /\ Unused5
          \/ part = "leads" /\ Leads!Init /\ Unused7
          \/ part = "events" /\ Events!Init

Apart == UNCHANGED << AnalystVars, StorageVars, ModelVars >>

ChoiceNext == part = "choice" /\ Choice!Next /\ UNCHANGED Rest5 /\ Apart
LeadsNext == part = "leads" /\ Leads!Next /\ UNCHANGED v7 /\ Apart
EventsNext == part = "events" /\ Events!Next /\ Apart

Next ==
    \/ AnalystNext /\ UNCHANGED << StorageVars, ModelVars, Generic >>
    \/ StorageNext /\ UNCHANGED << AnalystVars, ModelVars, Generic >>
    \/ ModelNext /\ Bounded' /\ UNCHANGED << AnalystVars, StorageVars, Generic >>
    \/ ChoiceNext
    \/ LeadsNext
    \/ EventsNext

Spec == Init /\ [][Next]_AllVars

-----------------------------------------------------------------------------
\* Every variable of a part has its type.
TypeOK ==
    /\ part = "sessions" => RowSessions!TypeOK
    /\ part = "cases" => CaseWork!TypeOK
    /\ part = "feedback" => Reviews!TypeOK
    /\ part = "store" => Store!TypeOK
    /\ part = "registry" => Registry!TypeOK
    /\ part = "pinned" => Pins!TypeOK
    /\ part = "files" => Files!TypeOK
    /\ part = "schema" => Schema!TypeOK
    /\ part = "gates" => Gates!TypeOK
    /\ part = "data_files" => DataFiles!TypeOK
    /\ part = "lab" => Lab!TypeOK
    /\ part = "choice" => Choice!TypeOK
    /\ part = "splits" => Splits!TypeOK
    /\ part = "leads" => Leads!TypeOK
    /\ part = "captures" => Readings!TypeOK
    /\ part = "segment" => Segment!TypeOK
    /\ part = "events" => Events!TypeOK
    /\ part = "pages" => Pages!TypeOK

\* What is selected from validation data keeps to its limits and is the best of what
\* was as admissible (ModelSelection); an alert says what is behind it, a hypothesis what
\* the flows of its alerts did (Triage); events are found however a file is read
\* (JsonEvents).
ComputedIsSound ==
    /\ part = "choice" => Choice!SelectionIsSound
    /\ part = "leads" => Leads!TriageIsSound
    /\ part = "events" => Events!InspectionIsWhole
=============================================================================
