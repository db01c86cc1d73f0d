---------------------------- MODULE StorageWork -----------------------------
(***************************************************************************)
(* What is stored: artifact stores, uploaded files, what is read of the    *)
(* captures among them and made of their flows, the files of the           *)
(* preparation commands and the gates before them, the schema of the       *)
(* database, and the transactions of the sessions on one row of            *)
(* runtime_jobs.                                                           *)
(***************************************************************************)
EXTENDS Parts, Integers, Sequences

CONSTANTS
    Writers, ProcessOf, ArtifactKinds, Crashes,
    TelemetrySources, Contents, SampleContents, Nature, Faults,
    CaptureFiles, FrameOf(_), FrameWords, MaxRecords, MaxPacketBytes, MaxInterfaces,
    MaxInterfaceBlockBytes,
    FlowProtocols, ObservedPackets, MaxFlowPackets,
    Commands,
    DataSets, Tolerance, Ratios, SplitSizes,
    SchemaProcesses,
    Workers, NoWorker, MaxAttempts, Packets, LeaseTicks, OperatorSession, StarterSession

VARIABLES
    destination, staging, writer, audited, crashes,
    row, flows, stored, staged, call, lost, faults,
    capture, inspected, replayed,
    flow_state, flow_features,
    file, temporary, content, robbed,
    samples, hashed, gate,
    tables, columns, versions, process,
    transaction, driving

Store == INSTANCE ArtifactStore WITH Kinds <- ArtifactKinds

Files == INSTANCE Ingestion WITH Sources <- TelemetrySources

Readings == INSTANCE Captures WITH
    FileChoices <- CaptureFiles, file <- capture, read <- replayed

Segment == INSTANCE FlowFeatures WITH
    Protocols <- FlowProtocols, Observed <- ObservedPackets, MaxPackets <- MaxFlowPackets,
    state <- flow_state, features <- flow_features

\* One command prepares the data sets of a directory at a time.
DataFiles == INSTANCE DatasetFiles WITH Calls <- Commands

Gates == INSTANCE Datasets WITH
    Canonical <- DataSets, GroupCounts <- SplitSizes,
    rows <- samples, order <- hashed, outcome <- gate

Schema == INSTANCE Migrations WITH Processes <- SchemaProcesses

RowSessions == INSTANCE RuntimeSessions WITH session <- transaction, Ending <- FALSE

\* Writers that share a process, and thereby the staging path of a version, write
\* only kinds whose mkdir is outside the handler that cleans up.
StoreAssumption ==
    /\ ArtifactKinds \subseteq Store!AllKinds /\ Crashes \in Nat
    /\ \/ \A v, w \in Writers : ProcessOf[v] = ProcessOf[w] => v = w
       \/ ArtifactKinds \intersect Store!CleansAfterMkdir = {}

FilesAssumption ==
    /\ Nature \in [Contents -> Files!AllNatures] /\ Files!NoChecksum \notin Contents
    /\ Faults \in Nat

\* Captures are words, and frames have the fields that are decoded.
CapturesAssumption ==
    /\ \A f \in CaptureFiles :
        /\ f.format \in {"classic", "pcapng"} /\ f.words \in Seq(Nat)
        /\ f.snap_length \in Nat /\ f.link_type \in Nat
    /\ \A word \in FrameWords :
        /\ Readings!FrameFields \subseteq DOMAIN FrameOf(word)
        /\ FrameOf(word).vlans \in Nat /\ FrameOf(word).total \in Nat
        /\ FrameOf(word).ip_header \in Nat
    /\ MaxRecords \in Nat /\ MaxPacketBytes \in Nat /\ MaxInterfaces \in Nat
    /\ MaxInterfaceBlockBytes \in Nat

SegmentAssumption ==
    /\ \A packet \in ObservedPackets : packet.time \in Nat /\ packet.bytes \in Nat
    /\ MaxFlowPackets \in Nat

DataFilesAssumption == DataFiles!None \notin Commands /\ Faults \in Nat

\* Data sets have rows, and the rows of each have equally many features.
GatesAssumption ==
    /\ \A R \in DataSets :
        /\ R # << >> /\ R \in Seq({R[i] : i \in DOMAIN R})
        /\ \A i \in DOMAIN R :
            /\ R[i].label \in 0..2
            /\ R[i].features \in Seq(Int) /\ R[i].features # << >>
            /\ Len(R[i].features) = Len(R[1].features)
    /\ Tolerance \in Nat
    /\ Ratios \in [{"train", "validation", "test"} -> Nat]
    /\ SplitSizes \subseteq Nat

SchemaAssumption == Crashes \in Nat

SessionsAssumption ==
    /\ NoWorker \notin Workers /\ OperatorSession # StarterSession
    /\ OperatorSession \notin Workers /\ StarterSession \notin Workers
    /\ MaxAttempts \in Nat \ {0}

ASSUME StorageAssumption ==
    /\ StoreAssumption /\ FilesAssumption /\ DataFilesAssumption /\ SchemaAssumption
    /\ SessionsAssumption /\ GatesAssumption /\ CapturesAssumption /\ SegmentAssumption

-----------------------------------------------------------------------------
StoreVars == << destination, staging, writer, audited >>
FileVars == << flows, stored, staged, lost >>
CaptureVars == << capture, inspected, replayed >>
SegmentVars == << flow_state, flow_features >>
DataFileVars == << file, temporary, content, robbed >>
GateVars == << samples, hashed, gate >>
SchemaVars == << tables, columns, versions, process >>
SessionVars == << transaction, driving >>
StorageVars ==
    << part, row, call, crashes, faults,
       StoreVars, FileVars, CaptureVars, SegmentVars, DataFileVars, GateVars, SchemaVars,
       SessionVars >>

StoreUnused == destination = Unused /\ staging = Unused /\ writer = Unused /\ audited = Unused
FilesUnused == flows = Unused /\ stored = Unused /\ staged = Unused /\ lost = Unused
CapturesUnused == capture = Unused /\ inspected = Unused /\ replayed = Unused
SegmentUnused == flow_state = Unused /\ flow_features = Unused
DataFilesUnused ==
    file = Unused /\ temporary = Unused /\ content = Unused /\ robbed = Unused
GatesUnused == samples = Unused /\ hashed = Unused /\ gate = Unused
SchemaUnused == tables = Unused /\ columns = Unused /\ versions = Unused /\ process = Unused
SessionsUnused == transaction = Unused /\ driving = Unused
CallUnused == call = Unused /\ faults = Unused
StorageUnused ==
    /\ row = Unused /\ crashes = Unused /\ CallUnused
    /\ StoreUnused /\ FilesUnused /\ CapturesUnused /\ SegmentUnused /\ DataFilesUnused
    /\ GatesUnused /\ SchemaUnused /\ SessionsUnused

StorageInit ==
    \/ /\ part = "store" /\ Store!Init /\ row = Unused /\ CallUnused
       /\ FilesUnused /\ CapturesUnused /\ SegmentUnused /\ DataFilesUnused
       /\ GatesUnused /\ SchemaUnused /\ SessionsUnused
    \/ /\ part = "files" /\ Files!Init /\ crashes = Unused
       /\ StoreUnused /\ CapturesUnused /\ SegmentUnused /\ DataFilesUnused
       /\ GatesUnused /\ SchemaUnused /\ SessionsUnused
    \/ /\ part = "captures" /\ Readings!Init /\ row = Unused /\ crashes = Unused /\ CallUnused
       /\ StoreUnused /\ FilesUnused /\ SegmentUnused /\ DataFilesUnused /\ GatesUnused
       /\ SchemaUnused /\ SessionsUnused
    \/ /\ part = "segment" /\ Segment!Init /\ row = Unused /\ crashes = Unused /\ CallUnused
       /\ StoreUnused /\ FilesUnused /\ CapturesUnused /\ DataFilesUnused
       /\ GatesUnused /\ SchemaUnused /\ SessionsUnused
    \/ /\ part = "data_files" /\ DataFiles!Init /\ row = Unused /\ crashes = Unused
       /\ StoreUnused /\ FilesUnused /\ CapturesUnused /\ SegmentUnused /\ GatesUnused
       /\ SchemaUnused /\ SessionsUnused
    \/ /\ part = "gates" /\ Gates!Init /\ row = Unused /\ crashes = Unused /\ CallUnused
       /\ StoreUnused /\ FilesUnused /\ CapturesUnused /\ SegmentUnused
       /\ DataFilesUnused /\ SchemaUnused /\ SessionsUnused
    \/ /\ part = "schema" /\ Schema!Init /\ row = Unused /\ CallUnused
       /\ StoreUnused /\ FilesUnused /\ CapturesUnused /\ SegmentUnused
       /\ DataFilesUnused /\ GatesUnused /\ SessionsUnused
    \/ /\ part = "sessions" /\ RowSessions!Init /\ crashes = Unused /\ CallUnused
       /\ StoreUnused /\ FilesUnused /\ CapturesUnused /\ SegmentUnused
       /\ DataFilesUnused /\ GatesUnused /\ SchemaUnused

StoreNext ==
    /\ part = "store" /\ Store!Next
    /\ UNCHANGED << part, row, call, faults >>
    /\ UNCHANGED << FileVars, CaptureVars, SegmentVars, DataFileVars, GateVars, SchemaVars,
                    SessionVars >>
FilesNext ==
    /\ part = "files" /\ Files!Next
    /\ UNCHANGED << part, crashes >>
    /\ UNCHANGED << StoreVars, CaptureVars, SegmentVars, DataFileVars, GateVars, SchemaVars,
                    SessionVars >>
CapturesNext ==
    /\ part = "captures" /\ Readings!Next
    /\ UNCHANGED << part, row, call, crashes, faults >>
    /\ UNCHANGED << StoreVars, FileVars, SegmentVars, DataFileVars, GateVars, SchemaVars,
                    SessionVars >>
SegmentNext ==
    /\ part = "segment" /\ Segment!Next
    /\ UNCHANGED << part, row, call, crashes, faults >>
    /\ UNCHANGED << StoreVars, FileVars, CaptureVars, DataFileVars, GateVars, SchemaVars,
                    SessionVars >>
DataFilesNext ==
    /\ part = "data_files" /\ DataFiles!Next
    /\ UNCHANGED << part, row, crashes >>
    /\ UNCHANGED << StoreVars, FileVars, CaptureVars, SegmentVars, GateVars, SchemaVars,
                    SessionVars >>
GatesNext ==
    /\ part = "gates" /\ Gates!Next
    /\ UNCHANGED << part, row, call, crashes, faults >>
    /\ UNCHANGED << StoreVars, FileVars, CaptureVars, SegmentVars, DataFileVars, SchemaVars,
                    SessionVars >>
SchemaNext ==
    /\ part = "schema" /\ Schema!Next
    /\ UNCHANGED << part, row, call, faults >>
    /\ UNCHANGED << StoreVars, FileVars, CaptureVars, SegmentVars, DataFileVars, GateVars,
                    SessionVars >>
RowSessionsNext ==
    /\ part = "sessions" /\ RowSessions!Next
    /\ UNCHANGED << part, call, crashes, faults >>
    /\ UNCHANGED << StoreVars, FileVars, CaptureVars, SegmentVars, DataFileVars, GateVars,
                    SchemaVars >>

StorageNext ==
    \/ StoreNext
    \/ FilesNext
    \/ CapturesNext
    \/ SegmentNext
    \/ DataFilesNext
    \/ GatesNext
    \/ SchemaNext
    \/ RowSessionsNext

StorageSpec == StorageInit /\ [][StorageNext]_StorageVars

-----------------------------------------------------------------------------
\* A directory at its destination as AtomicVersions sees it: whole if it passes
\* verification, and then of the writer of its files.
AuthorOf(directory) == CHOOSE w \in Writers : \A e \in directory.files : e[2] = w
SeenAs(k) ==
    IF part # "store" \/ destination[k] = Store!Absent THEN [state |-> "absent"]
    ELSE IF Store!Verifies(k, destination[k])
         THEN [state |-> "whole", by |-> AuthorOf(destination[k])]
         ELSE [state |-> "torn"]

Versions == INSTANCE AtomicVersions WITH
    Kinds <- ArtifactKinds,
    version <- [k \in ArtifactKinds |-> SeenAs(k)],
    recorded <- IF part = "store" THEN audited ELSE {}

\* The staged writes, failed clean-ups and crashes of ArtifactStore look like the
\* atomic creation that artifact_io.py promises: a version at its destination has
\* always been whole since it appeared, is never replaced or taken back, and an
\* audit record follows it.
VersionsAreAtomic == Versions!Spec

\* A completed source has its file and all its flows, any other none, and only a lost
\* call strands one (Ingestion); what is replayed of a capture is what was counted in
\* it, and a frame that was cut short is not decoded to another packet (Captures);
\* the features of a flow are those of its packets (FlowFeatures).
SourcesAreSound ==
    /\ part = "files" => Files!CompletedIsWhole
    /\ part = "captures" => Readings!CaptureIsSound
    /\ part = "segment" => Segment!FeaturesAreSound

\* A data set file under its name is whole, a manifest stands next to its own
\* partitions (DatasetFiles).
PublishedIsWhole == part = "data_files" => DataFiles!PublishedIsWhole

\* What passes the data set gates is separated and labelled, and the sizes of the
\* partitions add up (Datasets).
PassedIsSeparated == part = "gates" => Gates!PassedIsSeparated

\* A recorded schema version stands for its columns and tables (Migrations).
VersionIsWhole == part = "schema" => Schema!VersionIsWhole

\* Flushes of changed columns do not undo what another session did to a job row
\* or to its open attempt (RuntimeSessions).
OpenAttemptMirrored == part = "sessions" => RowSessions!OpenAttemptMirrored
=============================================================================
