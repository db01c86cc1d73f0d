------------------------------ MODULE Ingestion -----------------------------
(***************************************************************************)
(* Files become telemetry sources: ingestion/service.py with the storage   *)
(* addressed by checksum of ingestion/file_storage.py.                     *)
(*                                                                         *)
(* A call is one source from the row it adds to the status it leaves.      *)
(* Each update of the row is a transaction of its own and may fail; the    *)
(* process may die at any point.  Calls run on threads of the API or in    *)
(* processes of the command line and share the storage root.  A checksum   *)
(* is the content; of a content it is kept what the ingestor and the flow  *)
(* processor make of it.  PcapFlowProcessor itself is FlowAggregation.     *)
(***************************************************************************)
EXTENDS Naturals, FiniteSets

CONSTANTS
    Sources,            \* one for each call
    Contents,           \* what may be uploaded
    SampleContents,     \* those the sample manifest declares
    Nature,             \* what each content is, of AllNatures
    Faults              \* bound on crashes, damage and database errors

\* A capture has packets and flows, a table records; a miscounted capture
\* decodes to another number of packets than its framing has.
AllNatures == {"capture", "table", "miscounted", "malformed", "too_large", "empty"}
NoChecksum == "none"
NoCall == [pc |-> "none"]

VARIABLES
    row,        \* telemetry_sources
    flows,      \* network_flows: sources with rows, in number
    stored,     \* files under their checksum: absent, intact or damaged
    staged,     \* sources with a staging file
    call,       \* where each call is
    lost,       \* history: calls that died or met a database error
    faults

vars == << row, flows, stored, staged, call, lost, faults >>

NoRow == [status |-> "none"]
Status == {"pending", "running", "completed", "failed"}

TypeOK ==
    /\ \A s \in Sources : row[s] # NoRow =>
        /\ row[s].status \in Status
        /\ row[s].checksum \in Contents \union {NoChecksum}
        /\ row[s].progress \in {0, 1, 5, 10}
    /\ flows \in [Sources -> Nat]
    /\ stored \in [Contents -> {"absent", "intact", "damaged"}]
    /\ staged \subseteq Sources /\ lost \subseteq Sources /\ faults \in 0..Faults

Init ==
    /\ row = [s \in Sources |-> NoRow] /\ flows = [s \in Sources |-> 0]
    /\ stored = [c \in Contents |-> "absent"]
    /\ staged = {} /\ call = [s \in Sources |-> NoCall] /\ lost = {} /\ faults = 0

Step(s, pc) == call' = [call EXCEPT ![s].pc = pc]
Unmoved == UNCHANGED << lost, faults >>

\* An update either commits or leaves the row as it was and ends the call: a
\* DatabaseError is no IngestionError, so nothing marks the source failed.  The
\* staging file is discarded on the way out.
Commit(s, new, pc) ==
    /\ row' = [row EXCEPT ![s] = new] /\ Step(s, pc) /\ Unmoved /\ UNCHANGED staged
LoseCall(s) ==
    /\ faults < Faults /\ faults' = faults + 1
    /\ call' = [call EXCEPT ![s] = NoCall]
    /\ lost' = lost \union {s} /\ UNCHANGED row
FailCommit(s) == LoseCall(s) /\ staged' = staged \ {s}

-----------------------------------------------------------------------------
\* An upload or a path with an accepted name and type, or a sample whose file
\* has the checksum of the manifest, recorded as a sample.
ResolvedSample(c) == c \in SampleContents
Add(s, c, kind) ==
    /\ row[s] = NoRow /\ s \notin lost
    /\ kind = "sample" => ResolvedSample(c)
    /\ row' = [row EXCEPT ![s] = [status |-> "pending", source_type |-> kind, progress |-> 0,
                                  checksum |-> NoChecksum, records |-> 0, stored |-> NoChecksum]]
    /\ call' = [call EXCEPT ![s] = [pc |-> "added", content |-> c]]
    /\ Unmoved /\ UNCHANGED << flows, stored, staged >>

IngestUpload(s, c) == Add(s, c, "upload")
IngestSample(s, c) == Add(s, c, "sample")

Run(s) ==
    /\ call[s].pc = "added"
    /\ \/ Commit(s, [row[s] EXCEPT !.status = "running", !.progress = 1], "running")
       \/ FailCommit(s)
    /\ UNCHANGED << flows, stored >>

\* stage: a file of its own; what is too large or empty is removed again.
Stage(s) ==
    /\ call[s].pc = "running"
    /\ IF Nature[call[s].content] \in {"too_large", "empty"}
       THEN Step(s, "failing") /\ UNCHANGED staged
       ELSE Step(s, "staged") /\ staged' = staged \union {s}
    /\ Unmoved /\ UNCHANGED << row, flows, stored >>

RecordChecksum(s) ==
    /\ call[s].pc = "staged"
    /\ \/ Commit(s, [row[s] EXCEPT !.checksum = call[s].content, !.progress = 5], "recorded")
       \/ FailCommit(s)
    /\ UNCHANGED << flows, stored >>

\* The ingestor's framing, and for captures the flows, whose packets must be
\* as many as the framing has.
Records(c) == IF Nature[c] \in {"capture", "table", "miscounted"} THEN 2 ELSE 0
DecodedPackets(c) == IF Nature[c] = "capture" THEN 2 ELSE 1
FlowsOf(c) == IF Nature[c] = "table" THEN 0 ELSE DecodedPackets(c)
Accepted_AnyCount(c) == Nature[c] \in {"table", "capture", "miscounted"}
Accepted(c) ==
    \/ Nature[c] = "table"
    \/ Nature[c] \in {"capture", "miscounted"} /\ DecodedPackets(c) = Records(c)

Inspect(s) ==
    /\ call[s].pc = "recorded"
    /\ Step(s, IF Accepted(call[s].content) THEN "inspected" ELSE "failing")
    /\ Unmoved /\ UNCHANGED << row, flows, stored, staged >>

\* commit(): an existing file is compared with the checksum and the staged one
\* dropped; otherwise the staged one takes the name, in a step of its own that
\* may fail and then drops the staged one.
LookUpStored(s) ==
    /\ call[s].pc = "inspected"
    /\ LET file == stored[call[s].content] IN
        /\ Step(s, CASE file = "absent" -> "moving"
                     [] file = "intact" -> "stored"
                     [] file = "damaged" -> "failing")
        /\ staged' = IF file = "absent" THEN staged ELSE staged \ {s}
    /\ Unmoved /\ UNCHANGED << row, flows, stored >>

Move(s) ==
    /\ call[s].pc = "moving"
    /\ \/ /\ stored' = [stored EXCEPT ![call[s].content] = "intact"]
          /\ Step(s, "stored") /\ UNCHANGED faults
       \/ /\ faults < Faults /\ faults' = faults + 1
          /\ Step(s, "failing") /\ UNCHANGED stored
    /\ staged' = staged \ {s} /\ UNCHANGED << row, flows, lost >>

\* _complete: the flows and the completed source in one transaction.
Complete(s) ==
    /\ call[s].pc = "stored"
    /\ LET c == call[s].content IN
        \/ /\ Commit(s, [row[s] EXCEPT !.status = "completed", !.progress = 10,
                              !.records = Records(c), !.stored = c], "none")
           /\ flows' = [flows EXCEPT ![s] = FlowsOf(c)]
        \/ FailCommit(s) /\ UNCHANGED flows
    /\ UNCHANGED stored

\* _mark_failed
Fail(s) ==
    /\ call[s].pc = "failing"
    /\ \/ /\ row' = [row EXCEPT ![s].status = "failed"] /\ Unmoved
          /\ Step(s, "none") /\ staged' = staged \ {s}
       \/ FailCommit(s)
    /\ UNCHANGED << flows, stored >>

Crash(s) ==
    /\ call[s].pc # "none" /\ LoseCall(s)
    /\ UNCHANGED << flows, stored, staged >>

\* A stored file is damaged behind the service's back.
Damage(c) ==
    /\ faults < Faults /\ faults' = faults + 1
    /\ stored[c] = "intact" /\ stored' = [stored EXCEPT ![c] = "damaged"]
    /\ UNCHANGED << row, flows, staged, call, lost >>

Next ==
    \/ \E s \in Sources, c \in Contents : IngestUpload(s, c) \/ IngestSample(s, c)
    \/ \E s \in Sources :
        \/ Run(s) \/ Stage(s) \/ RecordChecksum(s) \/ Inspect(s) \/ LookUpStored(s)
        \/ Move(s) \/ Complete(s) \/ Fail(s) \/ Crash(s)
    \/ \E c \in Contents : Damage(c)

Spec == Init /\ [][Next]_vars

-----------------------------------------------------------------------------
\* A completed source has its file under its checksum and every flow of its
\* packets; any other source has no flows at all.  A source that is neither
\* completed nor failed has its call under way, or the call was lost: nothing
\* else strands a source, although nothing takes up a lost one either.
CompletedIsWhole ==
    \A s \in Sources :
        /\ row[s].status = "completed" =>
            /\ row[s].stored = row[s].checksum /\ stored[row[s].checksum] # "absent"
            /\ flows[s] = IF Nature[row[s].checksum] = "table" THEN 0 ELSE row[s].records
        /\ row[s].status # "completed" => flows[s] = 0
        /\ row[s].status \in {"pending", "running"} => s \in lost \/ call[s].pc # "none"
        /\ s \in staged => s \in lost \/ call[s].pc \in {"staged", "recorded", "inspected",
                                                           "moving", "failing"}
=============================================================================
