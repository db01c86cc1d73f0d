------------------------ MODULE RuntimeOutputProofs ------------------------
(***************************************************************************)
(* What a replay stores, for every capture, batch size, policy and number  *)
(* of attempts: evidence is kept, a row is created in one step only, a job *)
(* that completes is whole, a group of alerts stays within its window, and *)
(* only an analyst's step makes a batch or a correlation be refused.       *)
(***************************************************************************)
EXTENDS RuntimeOutput, FiniteSetTheorems, WellFoundedInduction, TLAPS

-----------------------------------------------------------------------------
(* The invariant.                                                          *)

\* Where the worker is in the capture, and what it has closed and committed.
Progress ==
    /\ pc \in {"idle", "read", "persist", "correlate", "finish"}
    /\ position \in Nat
    /\ pending \subseteq Flows
    /\ processed \subseteq Flows
    /\ status = "queued" => pc = "idle"
    /\ pc = "idle" => position = 0 /\ pending = {}
    /\ pc = "read" => position <= Packets
    /\ pc \in {"correlate", "finish"} => pending = {}
    /\ pc # "idle" =>
         /\ status = "running"
         /\ processed \union pending = {f \in Flows : ClosedBy[f] <= position}
    /\ pc = "finish" => position > Packets

\* What belongs to a flow is stored together and in order: a ledger entry with
\* the flow and its detection, an alert with its detection.
Evidence ==
    /\ flows \subseteq Flows
    /\ detections \subseteq flows
    /\ alert \in [Flows -> Alert \union {NoAlert}]
    /\ ledger \in [Flows -> Alert \union {NoAlert, NoEntry}]
    /\ \A f \in Flows :
         /\ alert[f] # NoAlert <=> f \in detections \intersect Alerts
         /\ ledger[f] # NoEntry => f \in detections
         /\ ledger[f] \notin {NoEntry, NoAlert} => alert[f] # NoAlert

Covered == processed \subseteq Ledgered

IInv == Progress /\ Evidence /\ Covered

-----------------------------------------------------------------------------
(* The types of alerts.                                                    *)

LEMMA AlertsDiffer ==
  /\ NewAlert \in Alert
  /\ NewAlert # NoAlert
  /\ NoEntry # NoAlert
  /\ NoEntry \notin Alert
  /\ NoAlert \notin Alert
  BY RunAssumption DEF NewAlert, NoAlert, NoEntry, Alert

LEMMA EvaluatedType ==
  ASSUME NEW f PROVE EvaluatedAlert(f) \in Alert \union {NoAlert}
  BY AlertsDiffer DEF EvaluatedAlert

\* Evidence of flows without detection is added, nothing else is touched.
LEMMA StoreFollows ==
  ASSUME IInv, NEW fresh \in SUBSET Flows, fresh \intersect detections = {},
         Store(fresh)
  PROVE  /\ flows' \subseteq Flows
         /\ flows \subseteq flows'
         /\ detections' = detections \union fresh
         /\ detections' \subseteq flows'
         /\ alert' \in [Flows -> Alert \union {NoAlert}]
         /\ \A f \in Flows : alert'[f] # NoAlert <=> f \in detections' \intersect Alerts
         /\ \A f \in Flows : alert[f] # NoAlert => alert'[f] = alert[f]
         /\ \A f \in fresh : alert'[f] = EvaluatedAlert(f)
         /\ \A f \in Flows \ fresh : alert'[f] = alert[f]
<1>1. \A f \in Flows : alert'[f] = IF f \in fresh THEN EvaluatedAlert(f) ELSE alert[f]
  BY DEF Store
<1>2. \A f \in fresh : EvaluatedAlert(f) # NoAlert <=> f \in Alerts
  BY AlertsDiffer DEF EvaluatedAlert
<1> QED BY <1>1, <1>2, EvaluatedType DEF IInv, Evidence, Store

\* What a batch adds is new.
LEMMA BatchFollows ==
  ASSUME IInv, PersistBatch
  PROVE  /\ Fresh \subseteq Flows
         /\ Fresh \intersect detections = {}
         /\ Store(Fresh)
         /\ \A f \in Fresh : ledger[f] = NoEntry /\ ledger'[f] = alert'[f]
         /\ \A f \in Flows \ Fresh : ledger'[f] = ledger[f]
         /\ ledger' \in [Flows -> Alert \union {NoAlert, NoEntry}]
         /\ pending \subseteq Ledgered'
         /\ Ledgered \subseteq Ledgered'
<1>1. Fresh \subseteq Flows /\ Fresh \intersect detections = {} /\ Store(Fresh)
  BY DEF IInv, Progress, PersistBatch, Fresh, ForeignDetection
<1>2. ledger' = [f \in Flows |-> IF f \in Fresh THEN alert'[f] ELSE ledger[f]]
  BY DEF PersistBatch, OutputChecksum
<1>3. \A f \in Fresh : ledger[f] = NoEntry
  BY DEF IInv, Progress, Fresh, Ledgered
<1>4. \A f \in Fresh : ledger'[f] = alert'[f] /\ ledger'[f] \in Alert \union {NoAlert}
  BY <1>1, <1>2, StoreFollows
<1>5. \A f \in Flows \ Fresh : ledger'[f] = ledger[f]
  BY <1>2
<1>6. ledger' \in [Flows -> Alert \union {NoAlert, NoEntry}]
  BY <1>2, <1>4, <1>5 DEF IInv, Evidence
<1>7. Fresh \subseteq Ledgered'
  BY <1>1, <1>4, AlertsDiffer DEF Ledgered
<1>8. Ledgered \subseteq Ledgered'
  BY <1>3, <1>5 DEF Ledgered
<1>9. pending \subseteq Ledgered'
  BY <1>7, <1>8 DEF Fresh, IInv, Progress
<1> QED BY <1>1, <1>3, <1>4, <1>5, <1>6, <1>8, <1>9

-----------------------------------------------------------------------------
(* One step.                                                               *)

\* A step that touches no evidence keeps what is said of it.
LEMMA EvidenceUnchanged ==
  ASSUME IInv, UNCHANGED <<flows, detections, alert, ledger>>
  PROVE  Evidence' /\ Ledgered' = Ledgered
  BY DEF IInv, Evidence, Ledgered

LEMMA StopFollows ==
  ASSUME IInv, StopWorker, UNCHANGED processed, status' # "queued"
  PROVE  Progress'
  BY DEF IInv, Progress, StopWorker

LEMMA FailFollows ==
  ASSUME IInv, NEW reason, Fail(reason)
  PROVE  IInv'
<1>1. Evidence' /\ Ledgered' = Ledgered
  BY EvidenceUnchanged DEF Fail, evidence
<1>2. Progress'
  BY StopFollows DEF Fail
<1> QED BY <1>1, <1>2 DEF IInv, Covered, Fail

LEMMA ReadFollows ==
  ASSUME IInv, Read
  PROVE  Progress'
<1> USE CaptureAssumption
<1>1. /\ pc = "read" /\ position \in Nat /\ position <= Packets
      /\ position' = position + 1
      /\ pending' = pending \union Closing(position + 1)
      /\ status = "running" /\ status' = status /\ processed' = processed
      /\ processed \union pending = {f \in Flows : ClosedBy[f] <= position}
  BY DEF Read, IInv, Progress, job, history
<1>2. processed' \union pending' = {f \in Flows : ClosedBy[f] <= position'}
  BY <1>1 DEF Closing
<1>3. pending' \subseteq Flows
  BY <1>1 DEF Closing, IInv, Progress
<1>4. /\ pc' \in {"read", "persist", "finish"}
      /\ pc' = "read" => position' <= Packets
      /\ pc' = "finish" => position' > Packets /\ pending' = {}
  BY <1>1 DEF Read, AfterRead
<1> QED BY <1>1, <1>2, <1>3, <1>4 DEF Progress, IInv

LEMMA AfterBatchFollows ==
  ASSUME IInv, pc # "idle"
  PROVE  /\ AfterBatch \in {"read", "finish"}
         /\ AfterBatch = "read" => position <= Packets
         /\ AfterBatch = "finish" => position > Packets
  BY CaptureAssumption DEF AfterBatch, IInv, Progress

LEMMA PersistFollows ==
  ASSUME IInv, PersistBatch
  PROVE  IInv'
<1>1. Progress'
  <2>1. pc' \in {"correlate", AfterBatch}
    BY DEF PersistBatch
  <2>2. /\ pc = "persist" /\ status = "running" /\ status' = status
        /\ pending' = {} /\ processed' = processed \union pending
        /\ position' = position
    BY DEF PersistBatch, IInv, Progress
  <2> QED BY <2>1, <2>2, AfterBatchFollows DEF IInv, Progress
<1>2. Evidence'
  BY BatchFollows, StoreFollows, AlertsDiffer DEF Evidence, IInv
<1>3. Covered'
  BY BatchFollows DEF PersistBatch, Covered, IInv
<1> QED BY <1>1, <1>2, <1>3 DEF IInv

LEMMA CorrelateFollows ==
  ASSUME IInv, Correlate \/ Complete
  PROVE  IInv'
<1>1. UNCHANGED <<flows, detections, alert, ledger, processed>>
  BY DEF Correlate, Complete, RunDownstream, history
<1>2. Progress'
  <2>1. CASE Correlate
    BY <2>1, <1>1, AfterBatchFollows DEF Correlate, IInv, Progress
  <2>2. CASE Complete
    BY <2>2, <1>1, StopFollows DEF Complete
  <2> QED BY <2>1, <2>2
<1> QED BY <1>1, <1>2, EvidenceUnchanged DEF IInv, Covered

LEMMA VerdictFollows ==
  ASSUME IInv, NEW f \in Flows, NEW verdict \in Verdicts, GiveVerdict(f, verdict)
  PROVE  IInv'
<1> DEFINE given == [verdict |-> verdict, updates |-> alert[f].updates + 1]
<1>1. /\ alert' = [alert EXCEPT ![f] = given]
      /\ alert[f] \in Alert /\ alert[f] # NoAlert
  BY DEF GiveVerdict, IInv, Evidence
<1>2. given \in Alert
  BY <1>1 DEF Alert
<1>3. /\ alert' \in [Flows -> Alert \union {NoAlert}]
      /\ alert'[f] # NoAlert
      /\ \A g \in Flows \ {f} : alert'[g] = alert[g]
  BY <1>1, <1>2, AlertsDiffer DEF IInv, Evidence
<1>4. UNCHANGED <<job, flows, detections, ledger, worker, history>>
  BY DEF GiveVerdict
<1>5. Evidence'
  BY <1>1, <1>3, <1>4 DEF IInv, Evidence
<1> QED BY <1>4, <1>5 DEF IInv, Progress, Covered, Ledgered, job, worker, history

LEMMA ScoreFollows ==
  ASSUME IInv, NEW f \in Flows, ScoreFlow(f)
  PROVE  IInv'
<1>1. /\ {f} \subseteq Flows /\ {f} \intersect detections = {} /\ Store({f})
      /\ UNCHANGED <<job, ledger, worker, processed>>
  BY DEF ScoreFlow
<1>2. Evidence'
  BY <1>1, StoreFollows DEF Evidence, IInv
<1> QED BY <1>1, <1>2 DEF IInv, Progress, Covered, Ledgered, job, worker

LEMMA OthersFollow ==
  ASSUME IInv, Claim \/ Interrupt \/ Recover \/ CorrelateAll \/ GenerateAll
  PROVE  IInv'
<1>1. UNCHANGED <<flows, detections, alert, ledger>>
  BY DEF Claim, Interrupt, Recover, CorrelateAll, GenerateAll, evidence
<1>2. Progress' /\ processed' \subseteq processed
  <2>1. CASE Claim
    <3>1. processed' \union pending' = {g \in Flows : ClosedBy[g] <= position'}
      BY <2>1, CaptureAssumption DEF Claim, IInv, Progress
    <3> QED BY <2>1, <3>1, CaptureAssumption DEF Claim, IInv, Progress
  <2>2. CASE Interrupt
    BY <2>2, StopFollows DEF Interrupt, history
  <2>3. CASE Recover
    BY <2>3 DEF Recover, IInv, Progress, worker, history
  <2>4. CASE CorrelateAll
    BY <2>4 DEF CorrelateAll, IInv, Progress, job, worker
  <2>5. CASE GenerateAll
    BY <2>5 DEF GenerateAll, IInv, Progress, job, worker
  <2> QED BY <2>1, <2>2, <2>3, <2>4, <2>5
<1> QED BY <1>1, <1>2, EvidenceUnchanged DEF IInv, Covered

LEMMA InitHolds == Init => IInv
  BY AlertsDiffer DEF Init, IInv, Progress, Evidence, Covered, Ledgered

LEMMA StepHolds == IInv /\ [Next]_vars => IInv'
<1> SUFFICES ASSUME IInv, [Next]_vars PROVE IInv'
  OBVIOUS
<1>1. CASE Read
  <2>1. UNCHANGED <<flows, detections, alert, ledger, processed>>
    BY <1>1 DEF Read, evidence, history
  <2> QED BY <1>1, <2>1, ReadFollows, EvidenceUnchanged DEF IInv, Covered
<1>2. CASE PersistBatch
  BY <1>2, PersistFollows
<1>3. CASE RefuseBatch
  BY <1>3, FailFollows DEF RefuseBatch
<1>4. CASE Correlate \/ Complete
  BY <1>4, CorrelateFollows
<1>5. CASE RefuseDownstream
  BY <1>5, FailFollows DEF RefuseDownstream
<1>6. CASE DatabaseError
  BY <1>6, FailFollows DEF DatabaseError
<1>7. CASE Claim \/ Interrupt \/ Recover \/ CorrelateAll \/ GenerateAll
  BY <1>7, OthersFollow
<1>8. CASE \E f \in Flows, verdict \in Verdicts : GiveVerdict(f, verdict)
  BY <1>8, VerdictFollows
<1>9. CASE \E f \in Flows : ScoreFlow(f)
  BY <1>9, ScoreFollows
<1>10. CASE UNCHANGED vars
  <2>1. UNCHANGED <<flows, detections, alert, ledger, processed, status, pc, position,
                    pending>>
    BY <1>10 DEF vars, job, evidence, worker, history
  <2> QED BY <2>1, EvidenceUnchanged DEF IInv, Progress, Covered
<1> QED
  BY <1>1, <1>2, <1>3, <1>4, <1>5, <1>6, <1>7, <1>8, <1>9, <1>10 DEF Next, Work

LEMMA InvariantHolds == Spec => []IInv
  BY InitHolds, StepHolds, PTL DEF Spec

-----------------------------------------------------------------------------
(* What may never happen.                                                  *)

\* The action of EvidenceKept.
Kept ==
    /\ flows \subseteq flows'
    /\ detections \subseteq detections'
    /\ groups \subseteq groups'
    /\ hypotheses \subseteq hypotheses'
    /\ \A f \in Flows :
         /\ ledger[f] # NoEntry => ledger'[f] = ledger[f]
         /\ alert[f] # NoAlert =>
              \/ alert'[f] = alert[f]
              \/ alert'[f].updates = alert[f].updates + 1

LEMMA GroupsGrow ==
  ASSUME NEW ids, StoreGroups(ids)
  PROVE  groups \subseteq groups'
  BY DEF StoreGroups

\* What is stored is looked up by its identity.
LEMMA StoredGrow ==
  ASSUME NEW ids, StoreGroups(ids)
  PROVE  Stored' = Stored \union ids
<1> DEFINE row(g) == [id |-> g, snapshot |-> Snapshot(g)]
<1>1. groups' = groups \union {row(g) : g \in ids \ Stored}
  BY DEF StoreGroups
<1>2. \A g : row(g).id = g
  OBVIOUS
<1> HIDE DEF row
<1>3. ASSUME NEW g \in Stored' PROVE g \in Stored \union ids
  <2>1. PICK r \in groups' : r.id = g
    BY <1>3 DEF Stored
  <2>2. CASE r \in groups
    BY <2>1, <2>2 DEF Stored
  <2>3. CASE r \in {row(h) : h \in ids \ Stored}
    BY <2>1, <2>3, <1>2
  <2> QED BY <2>2, <2>3, <1>1
<1>4. ASSUME NEW g \in Stored PROVE g \in Stored'
  <2>1. PICK r \in groups : r.id = g
    BY <1>4 DEF Stored
  <2> QED BY <2>1, <1>1 DEF Stored
<1>5. ASSUME NEW g \in ids \ Stored PROVE g \in Stored'
  <2>1. row(g) \in groups'
    BY <1>5, <1>1
  <2> QED BY <2>1, <1>2 DEF Stored
<1> QED BY <1>3, <1>4, <1>5

LEMMA StepKeeps == IInv /\ [Next]_vars => Kept
<1> SUFFICES ASSUME IInv, [Next]_vars PROVE Kept
  OBVIOUS
<1>1. CASE UNCHANGED evidence
  BY <1>1 DEF evidence, Kept
<1>2. CASE PersistBatch
  <2>1. UNCHANGED <<groups, hypotheses>>
    BY <1>2 DEF PersistBatch
  <2> QED BY <1>2, <2>1, BatchFollows, StoreFollows DEF Kept
<1>3. CASE Correlate \/ Complete
  BY <1>3, GroupsGrow DEF Correlate, Complete, RunDownstream, Kept
<1>4. CASE \E f \in Flows, verdict \in Verdicts : GiveVerdict(f, verdict)
  <2>1. PICK f \in Flows, verdict \in Verdicts : GiveVerdict(f, verdict)
    BY <1>4
  <2>2. alert' = [alert EXCEPT ![f] = [verdict |-> verdict, updates |-> alert[f].updates + 1]]
    BY <2>1 DEF GiveVerdict
  <2>3. alert'[f].updates = alert[f].updates + 1
    BY <2>2 DEF IInv, Evidence
  <2>4. \A g \in Flows \ {f} : alert'[g] = alert[g]
    BY <2>2 DEF IInv, Evidence
  <2> QED BY <2>1, <2>3, <2>4 DEF GiveVerdict, Kept
<1>5. CASE \E f \in Flows : ScoreFlow(f)
  <2>1. PICK f \in Flows : ScoreFlow(f)
    BY <1>5
  <2>2. {f} \subseteq Flows /\ {f} \intersect detections = {} /\ Store({f})
        /\ UNCHANGED <<ledger, groups, hypotheses>>
    BY <2>1 DEF ScoreFlow
  <2> QED BY <2>2, StoreFollows DEF Kept
<1>6. CASE CorrelateAll
  BY <1>6, GroupsGrow DEF CorrelateAll, Kept
<1>7. CASE GenerateAll
  <2>1. hypotheses \subseteq hypotheses'
    BY <1>7 DEF GenerateAll, Generated
  <2> QED BY <1>7, <2>1 DEF GenerateAll, Kept
<1>8. CASE Claim \/ Read \/ RefuseBatch \/ RefuseDownstream \/ DatabaseError \/ Interrupt
           \/ Recover
  BY <1>1, <1>8
     DEF Claim, Read, RefuseBatch, RefuseDownstream, DatabaseError, Interrupt, Recover, Fail
<1>9. CASE UNCHANGED vars
  BY <1>1, <1>9 DEF vars
<1> QED
  BY <1>2, <1>3, <1>4, <1>5, <1>6, <1>7, <1>8, <1>9 DEF Next, Work

\* No recovery removes or rewrites what an earlier attempt stored, whatever the
\* capture, the batches and the attempt limit.
THEOREM EvidenceStays == Spec => EvidenceKept
<1>1. IInv /\ [Next]_vars => [Kept]_vars
  BY StepKeeps
<1> QED BY <1>1, InvariantHolds, PTL DEF Spec, EvidenceKept, Kept

\* The action of CompletionIsWhole.
Whole ==
    status # "completed" /\ status' = "completed" =>
        /\ processed = Flows
        /\ Ledgered' = Flows
        /\ JobGroups \subseteq Stored'
        /\ {g \in JobGroups : g \in Gated} \subseteq hypotheses'

LEMMA OnlyCompleteCompletes ==
  ASSUME IInv, [Next]_vars, status # "completed", status' = "completed"
  PROVE  Complete
  BY DEF Next, Work, vars, job, Claim, Read, PersistBatch, RefuseBatch, Correlate,
         RefuseDownstream, DatabaseError, Interrupt, Recover, GiveVerdict, ScoreFlow,
         CorrelateAll, GenerateAll, Fail, RunDownstream

LEMMA StepIsWhole == IInv /\ [Next]_vars => Whole
<1> SUFFICES ASSUME IInv, [Next]_vars, status # "completed", status' = "completed"
             PROVE  /\ processed = Flows
                    /\ Ledgered' = Flows
                    /\ JobGroups \subseteq Stored'
                    /\ {g \in JobGroups : g \in Gated} \subseteq hypotheses'
  BY DEF Whole
<1>1. Complete
  BY OnlyCompleteCompletes
<1>2. processed = Flows
  <2>1. position > Packets /\ pending = {}
        /\ processed \union pending = {f \in Flows : ClosedBy[f] <= position}
    BY <1>1 DEF Complete, IInv, Progress
  <2>2. \A f \in Flows : ClosedBy[f] <= position
    BY <2>1, CaptureAssumption DEF IInv, Progress
  <2> QED BY <2>1, <2>2
<1>3. Ledgered' = Flows
  BY <1>1, <1>2 DEF Complete, RunDownstream, IInv, Covered, Ledgered
<1>4. JobGroups \subseteq Stored'
  BY <1>1, StoredGrow DEF Complete, RunDownstream
<1>5. {g \in JobGroups : g \in Gated} \subseteq hypotheses'
  BY <1>1 DEF Complete, RunDownstream, Generated
<1> QED BY <1>2, <1>3, <1>4, <1>5

\* A job completes only with all flows of its capture covered by the ledger and
\* its groups and hypotheses stored, however many attempts it took.
THEOREM CompletedIsWhole == Spec => CompletionIsWhole
<1>1. IInv /\ [Next]_vars => [Whole]_vars
  BY StepIsWhole
<1> QED BY <1>1, InvariantHolds, PTL DEF Spec, CompletionIsWhole, Whole

-----------------------------------------------------------------------------
(* A replay with interruptions looks like one without.                     *)

\* What is in the ledger is all that closed up to some packet.
InPrefix == Ledgered = {} \/ \E n \in 1..(Packets + 1) : Ledgered = AsOne!ClosedUpTo(n)

PInv == IInv /\ InPrefix

\* What UninterruptedReplay sees of the status.
Outcome == IF status \in {"completed", "failed"} THEN status ELSE "open"

LEMMA ClosedSoFar ==
  ASSUME NEW p \in Nat
  PROVE  \/ AsOne!ClosedUpTo(p) = {}
         \/ \E n \in 1..(Packets + 1) : AsOne!ClosedUpTo(p) = AsOne!ClosedUpTo(n)
<1>1. CASE p = 0
  BY <1>1, CaptureAssumption DEF AsOne!ClosedUpTo
<1>2. CASE p \in 1..(Packets + 1)
  BY <1>2
<1>3. CASE p > Packets + 1
  <2>1. Packets + 1 \in 1..(Packets + 1)
    BY CaptureAssumption
  <2>2. AsOne!ClosedUpTo(Packets + 1) = AsOne!ClosedUpTo(p)
    BY <1>3, CaptureAssumption DEF AsOne!ClosedUpTo
  <2> QED BY <2>1, <2>2
<1> QED BY <1>1, <1>2, <1>3, CaptureAssumption

\* A batch completes the ledger up to the packet the worker is at; what an earlier
\* attempt committed beyond it stays.
LEMMA BatchExtends ==
  ASSUME IInv, PersistBatch
  PROVE  /\ position \in Nat /\ status = "running" /\ status' = "running"
         /\ Ledgered' = Ledgered \union AsOne!ClosedUpTo(position)
<1>1. /\ position \in Nat /\ status = "running" /\ status' = "running"
      /\ processed \union pending = AsOne!ClosedUpTo(position)
  BY DEF PersistBatch, IInv, Progress, AsOne!ClosedUpTo
<1>2. ASSUME NEW f \in Fresh PROVE f \in Flows /\ ledger'[f] # NoEntry
  <2>1. f \in Flows /\ ledger'[f] = alert'[f] /\ alert'[f] \in Alert \union {NoAlert}
    BY BatchFollows, StoreFollows
  <2> QED BY <2>1, AlertsDiffer
<1>3. \A f \in Flows \ Fresh : ledger'[f] = ledger[f]
  BY BatchFollows
<1>4. pending \subseteq Flows /\ Fresh = pending \ Ledgered
  BY DEF Fresh, IInv, Progress
<1>5. Ledgered' = Ledgered \union pending
  BY <1>2, <1>3, <1>4 DEF Ledgered
<1> QED BY <1>1, <1>5 DEF IInv, Covered

\* The ledger after a batch is the longer one of two prefixes.
LEMMA BatchCommits ==
  ASSUME PInv, PersistBatch
  PROVE  /\ Outcome = "open" /\ Outcome' = "open"
         /\ Ledgered' = Ledgered \/ \E n \in 1..(Packets + 1) : AsOne!Commit(n)
<1>1. /\ position \in Nat /\ status = "running" /\ status' = "running"
      /\ Ledgered' = Ledgered \union AsOne!ClosedUpTo(position)
  BY BatchExtends DEF PInv
<1>2. Outcome = "open" /\ Outcome' = "open"
  BY <1>1 DEF Outcome
<1>3. CASE AsOne!ClosedUpTo(position) = {}
  BY <1>1, <1>2, <1>3
<1>4. ASSUME NEW n \in 1..(Packets + 1), AsOne!ClosedUpTo(position) = AsOne!ClosedUpTo(n)
      PROVE  Ledgered' = Ledgered \/ AsOne!Commit(n)
  <2>1. Ledgered \subseteq AsOne!ClosedUpTo(n) \/ AsOne!ClosedUpTo(n) \subseteq Ledgered
    <3>1. CASE Ledgered = {}
      BY <3>1
    <3>2. ASSUME NEW m \in 1..(Packets + 1), Ledgered = AsOne!ClosedUpTo(m)
          PROVE  Ledgered \subseteq AsOne!ClosedUpTo(n) \/ AsOne!ClosedUpTo(n) \subseteq Ledgered
      BY <3>2, CaptureAssumption DEF AsOne!ClosedUpTo
    <3> QED BY <3>1, <3>2 DEF PInv, InPrefix
  <2>2. CASE AsOne!ClosedUpTo(n) \subseteq Ledgered
    BY <1>1, <1>4, <2>2
  <2>3. CASE Ledgered \subseteq AsOne!ClosedUpTo(n)
    <3>1. Ledgered' = AsOne!ClosedUpTo(n)
      BY <1>1, <1>4, <2>3
    <3> QED BY <1>2, <2>3, <3>1 DEF AsOne!Commit, Outcome
  <2> QED BY <2>1, <2>2, <2>3
<1> QED BY <1>1, <1>2, <1>3, <1>4, ClosedSoFar

\* A step that leaves the ledger as it is.
LEMMA LedgerStays ==
  ASSUME UNCHANGED ledger PROVE Ledgered' = Ledgered
BY DEF Ledgered

\* What any step is for UninterruptedReplay.
LEMMA StepAsOne ==
  ASSUME PInv, [Next]_vars
  PROVE  [AsOne!Next]_<< Ledgered, Outcome >> /\ InPrefix'
<1>1. CASE PersistBatch
  <2>1. [AsOne!Next]_<< Ledgered, Outcome >>
    BY <1>1, BatchCommits DEF AsOne!Next
  <2>2. InPrefix'
    <3>1. CASE Ledgered' = Ledgered
      BY <3>1 DEF PInv, InPrefix
    <3>2. ASSUME NEW n \in 1..(Packets + 1), AsOne!Commit(n) PROVE InPrefix'
      BY <3>2 DEF AsOne!Commit, InPrefix
    <3> QED BY <1>1, <3>1, <3>2, BatchCommits
  <2> QED BY <2>1, <2>2
<1>2. ASSUME UNCHANGED ledger PROVE InPrefix'
  BY <1>2, LedgerStays DEF PInv, InPrefix
<1>3. CASE Complete
  <2>1. UNCHANGED ledger /\ status = "running" /\ status' = "completed"
    BY <1>3 DEF Complete, RunDownstream, PInv, IInv, Progress
  <2>2. Ledgered' = Flows
    BY <1>3, <2>1, StepIsWhole DEF PInv, Whole, Next, Work
  <2>3. AsOne!Complete
    BY <2>1, <2>2, LedgerStays DEF AsOne!Complete
  <2> QED BY <1>2, <2>1, <2>3 DEF AsOne!Next
<1>4. ASSUME UNCHANGED ledger, status \notin {"completed", "failed"}, status' # "completed"
      PROVE  [AsOne!Next]_<< Ledgered, Outcome >>
  <2>1. CASE status' = "failed"
    BY <1>4, <2>1, LedgerStays DEF AsOne!Next, AsOne!GiveUp, Outcome
  <2>2. CASE status' # "failed"
    BY <1>4, <2>2, LedgerStays DEF Outcome
  <2> QED BY <2>1, <2>2
<1>5. CASE UNCHANGED << ledger, status >>
  BY <1>2, <1>5, LedgerStays DEF Outcome
<1>6. ASSUME NEW reason, Fail(reason), pc # "idle"
      PROVE  [AsOne!Next]_<< Ledgered, Outcome >> /\ InPrefix'
  <2>1. UNCHANGED ledger /\ status = "running" /\ status' \in {"failed", "failed_retryable"}
    BY <1>6 DEF Fail, evidence, PInv, IInv, Progress
  <2> QED BY <1>2, <1>4, <2>1
<1>7. CASE Claim \/ Interrupt \/ Recover
  <2>1. UNCHANGED ledger /\ status \notin {"completed", "failed"} /\ status' # "completed"
    BY <1>7 DEF Claim, Interrupt, Recover, evidence, PInv, IInv, Progress
  <2> QED BY <1>2, <1>4, <2>1
<1>8. CASE \/ Read \/ Correlate \/ CorrelateAll \/ GenerateAll \/ UNCHANGED vars
           \/ \E f \in Flows, verdict \in Verdicts : GiveVerdict(f, verdict)
           \/ \E f \in Flows : ScoreFlow(f)
  <2>1. UNCHANGED << ledger, status >>
    BY <1>8 DEF Read, Correlate, CorrelateAll, GenerateAll, GiveVerdict, ScoreFlow,
                RunDownstream, vars, job, evidence
  <2> QED BY <1>5, <2>1
<1>9. CASE RefuseBatch \/ RefuseDownstream \/ DatabaseError
  BY <1>6, <1>9 DEF RefuseBatch, RefuseDownstream, DatabaseError
<1> QED BY <1>1, <1>3, <1>7, <1>8, <1>9 DEF Next, Work

\* However often a replay is interrupted, fails and is recovered, its ledger and its
\* outcome are those of a replay that reads the capture once, and it is completed
\* only when it is whole.
THEOREM InterruptionsStayHidden == Spec => ReplaysAsOne
<1>1. Init => PInv
  <2>1. Init => Ledgered = {}
    BY DEF Init, Ledgered
  <2> QED BY <2>1, InitHolds DEF PInv, InPrefix
<1>2. PInv /\ [Next]_vars => PInv'
  BY StepAsOne, StepHolds DEF PInv
<1>3. Init => AsOne!Init
  BY DEF Init, Ledgered, AsOne!Init
<1>4. PInv /\ [Next]_vars => [AsOne!Next]_<< Ledgered, Outcome >>
  BY StepAsOne
<1>5. Spec => AsOne!Spec
  BY <1>1, <1>2, <1>3, <1>4, PTL DEF Spec, AsOne!Spec, Outcome
<1> QED BY <1>5, CompletedIsWhole DEF ReplaysAsOne

-----------------------------------------------------------------------------
(* Why evidence is refused.                                                *)

\* Without verdicts, a ledger entry and a stored group are what the ledger and
\* a correlation would compute again.
Reproducible ==
    /\ \A f \in Flows : ledger[f] # NoEntry => ledger[f] = alert[f]
    /\ \A r \in groups : r.snapshot = Snapshot(r.id)

Untouched ==
    /\ \A r \in groups : r.id.alerts \subseteq {f \in Alerts : alert[f] # NoAlert}
    /\ VerdictsGiven = {} => Reproducible
    /\ "detections" \in DOMAIN foreign
    /\ detections \ Ledgered \subseteq foreign.detections

AInv == IInv /\ Untouched /\ OnlyAnalystsRefuse

LEMMA GroupAlerts ==
  ASSUME NEW S \in SUBSET Alerts, NEW g \in CorrelatedGroups[S]
  PROVE  g.alerts \subseteq S
  BY DEF CorrelatedGroups

\* Verdicts are not taken back; without one, alerts stay as they are.
LEMMA VerdictsStay ==
  ASSUME IInv, Kept, Evidence'
  PROVE  /\ VerdictsGiven \subseteq VerdictsGiven'
         /\ VerdictsGiven' = {} => \A f \in Flows : alert[f] # NoAlert => alert'[f] = alert[f]
<1>1. \A f \in Flows : /\ alert[f] \in Alert \union {NoAlert}
                       /\ alert'[f] \in Alert \union {NoAlert}
  BY DEF IInv, Evidence
<1>2. \A f \in Flows : alert[f].updates \in Nat /\ alert'[f].updates \in Nat
  BY <1>1 DEF Alert, NoAlert
<1>3. \A f \in VerdictsGiven : alert[f] # NoAlert
  BY DEF VerdictsGiven, NoAlert
<1>4. ASSUME NEW f \in VerdictsGiven PROVE f \in VerdictsGiven'
  <2>1. f \in Flows /\ alert[f].updates > 0
    BY <1>4 DEF VerdictsGiven
  <2>2. alert'[f] = alert[f] \/ alert'[f].updates = alert[f].updates + 1
    BY <1>3, <1>4, <2>1 DEF Kept
  <2>3. alert'[f].updates > 0
    BY <1>2, <2>1, <2>2
  <2> QED BY <2>1, <2>3 DEF VerdictsGiven
<1>5. ASSUME VerdictsGiven' = {}, NEW f \in Flows, alert[f] # NoAlert
      PROVE  alert'[f] = alert[f]
  <2>1. ~(alert'[f].updates > 0)
    BY <1>5 DEF VerdictsGiven
  <2> QED BY <1>2, <1>5, <2>1 DEF Kept
<1> QED BY <1>4, <1>5

\* What a step must do to keep Untouched: old rows keep, new ones are as computed.
LEMMA UntouchedKept ==
  ASSUME AInv, Kept, Evidence',
         \A f \in Flows : ledger[f] = NoEntry =>
             ledger'[f] \in {NoEntry, alert'[f]},
         \A r \in groups' \ groups :
             /\ r.snapshot = Snapshot(r.id)
             /\ r.id.alerts \subseteq {f \in Alerts : alert[f] # NoAlert}
             /\ UNCHANGED alert,
         "detections" \in DOMAIN foreign',
         (detections \ Ledgered)' \subseteq foreign.detections'
  PROVE  Untouched'
<1> USE CaptureAssumption
<1>1. \A f \in Flows : alert[f] # NoAlert => alert'[f] # NoAlert
  BY DEF AInv, IInv, Evidence, Kept
<1>2. \A r \in groups' : r.id.alerts \subseteq {f \in Alerts : alert'[f] # NoAlert}
  BY <1>1 DEF AInv, Untouched
<1>3. ASSUME VerdictsGiven' = {} PROVE Reproducible'
  <2>1. VerdictsGiven = {} /\ \A f \in Flows : alert[f] # NoAlert => alert'[f] = alert[f]
    BY <1>3, VerdictsStay DEF AInv
  <2>2. Reproducible
    BY <2>1 DEF AInv, Untouched
  <2>3. ASSUME NEW f \in Flows, ledger'[f] # NoEntry PROVE ledger'[f] = alert'[f]
    <3>1. CASE ledger[f] = NoEntry
      BY <3>1, <2>3
    <3>2. CASE ledger[f] # NoEntry
      <4>1. ledger'[f] = ledger[f] /\ ledger[f] = alert[f]
        BY <3>2, <2>2 DEF Kept, Reproducible
      <4>2. alert'[f] = alert[f]
        BY <2>1, <3>2 DEF AInv, IInv, Evidence, Kept
      <4> QED BY <4>1, <4>2
    <3> QED BY <3>1, <3>2
  <2>4. ASSUME NEW r \in groups' PROVE r.snapshot = Snapshot(r.id)'
    <3>1. r.snapshot = Snapshot(r.id) /\ r.id.alerts \subseteq {f \in Alerts : alert[f] # NoAlert}
      BY <2>2 DEF AInv, Untouched, Reproducible
    <3>2. \A a \in r.id.alerts : alert'[a] = alert[a]
      BY <3>1, <2>1
    <3> QED BY <3>1, <3>2 DEF Snapshot
  <2> QED BY <2>3, <2>4 DEF Reproducible
<1> QED BY <1>2, <1>3 DEF Untouched

LEMMA NewGroups ==
  ASSUME NEW ids, StoreGroups(ids), NEW r \in groups' \ groups
  PROVE  r.id \in ids /\ r.snapshot = Snapshot(r.id)
  BY DEF StoreGroups

LEMMA JobGroupAlerts ==
  ASSUME IInv, NEW g \in JobGroups
  PROVE  g.alerts \subseteq {f \in Alerts : alert[f] # NoAlert}
<1>1. Eligible(JobAlerts) \in SUBSET Alerts
  BY DEF Eligible, JobAlerts
<1>2. \A f \in JobAlerts : alert[f] # NoAlert
  BY CaptureAssumption DEF IInv, Evidence, JobAlerts
<1> QED BY <1>1, <1>2, GroupAlerts DEF JobGroups, Eligible

\* Steps that store nothing and leave the history of strangers alone.
LEMMA QuietStep ==
  ASSUME AInv, Kept, Evidence',
         UNCHANGED <<detections, ledger, groups>>,
         DOMAIN foreign' = DOMAIN foreign, foreign'.detections = foreign.detections
  PROVE  Untouched'
<1>1. (detections \ Ledgered)' \subseteq foreign.detections'
  BY DEF AInv, Untouched, Ledgered
<1> QED BY <1>1, UntouchedKept DEF AInv, Untouched

LEMMA BatchUntouched ==
  ASSUME AInv, Kept, Evidence', PersistBatch
  PROVE  Untouched'
<1>1. UNCHANGED <<groups, foreign>>
  BY DEF PersistBatch
<1>2. \A f \in Flows : ledger[f] = NoEntry => ledger'[f] \in {NoEntry, alert'[f]}
  BY BatchFollows DEF AInv
<1>3. (detections \ Ledgered)' \subseteq foreign.detections'
  <2>1. detections' = detections \union Fresh
    BY BatchFollows, StoreFollows DEF AInv
  <2>2. Fresh \subseteq Ledgered' /\ Ledgered \subseteq Ledgered'
    BY BatchFollows DEF AInv, Fresh
  <2> QED BY <1>1, <2>1, <2>2 DEF AInv, Untouched
<1> QED BY <1>1, <1>2, <1>3, UntouchedKept DEF AInv, Untouched

LEMMA CorrelateUntouched ==
  ASSUME AInv, Kept, Evidence', Correlate \/ Complete
  PROVE  Untouched'
<1>1. StoreGroups(JobGroups) /\ UNCHANGED <<detections, alert, ledger, foreign>>
  BY DEF Correlate, Complete, RunDownstream, history
<1>2. \A r \in groups' \ groups :
        /\ r.snapshot = Snapshot(r.id)
        /\ r.id.alerts \subseteq {f \in Alerts : alert[f] # NoAlert}
  BY <1>1, NewGroups, JobGroupAlerts DEF AInv
<1>3. (detections \ Ledgered)' \subseteq foreign.detections'
  BY <1>1 DEF AInv, Untouched, Ledgered
<1> QED BY <1>1, <1>2, <1>3, UntouchedKept DEF AInv, Untouched

LEMMA CorrelateAllUntouched ==
  ASSUME AInv, Kept, Evidence', CorrelateAll
  PROVE  Untouched'
<1> DEFINE all == {f \in Flows : alert[f] # NoAlert}
           ids == CorrelatedGroups[Eligible(all)]
<1>1. StoreGroups(ids) /\ UNCHANGED <<detections, alert, ledger>>
      /\ foreign' = [foreign EXCEPT !.groups = @ \union (ids \ Stored)]
  BY DEF CorrelateAll
<1>2. all \subseteq Alerts /\ Eligible(all) \in SUBSET Alerts /\ Eligible(all) \subseteq all
  BY DEF AInv, IInv, Evidence, Eligible
<1>3. \A g \in ids : g.alerts \subseteq {f \in Alerts : alert[f] # NoAlert}
  BY <1>2, GroupAlerts
<1>4. \A r \in groups' \ groups :
        /\ r.snapshot = Snapshot(r.id)
        /\ r.id.alerts \subseteq {f \in Alerts : alert[f] # NoAlert}
  BY <1>1, <1>3, NewGroups
<1>5. foreign'.detections = foreign.detections /\ DOMAIN foreign' = DOMAIN foreign
  BY <1>1
<1>6. (detections \ Ledgered)' \subseteq foreign.detections'
  BY <1>1, <1>5 DEF AInv, Untouched, Ledgered
<1> QED BY <1>1, <1>4, <1>5, <1>6, UntouchedKept DEF AInv, Untouched

LEMMA ScoreUntouched ==
  ASSUME AInv, Kept, Evidence', NEW f \in Flows, ScoreFlow(f)
  PROVE  Untouched'
<1>1. UNCHANGED <<ledger, groups>> /\ detections' = detections \union {f}
      /\ foreign' = [foreign EXCEPT !.detections = @ \union {f}]
  BY DEF ScoreFlow, Store
<1>2. foreign'.detections = foreign.detections \union {f} /\ DOMAIN foreign' = DOMAIN foreign
  BY <1>1 DEF AInv, Untouched
<1>3. (detections \ Ledgered)' \subseteq foreign.detections'
  BY <1>1, <1>2 DEF AInv, Untouched, Ledgered
<1> QED BY <1>1, <1>2, <1>3, UntouchedKept DEF AInv, Untouched

LEMMA UntouchedStep ==
  ASSUME AInv, [Next]_vars
  PROVE  Untouched'
<1>1. Kept /\ Evidence'
  BY StepKeeps, StepHolds DEF AInv, IInv
<1>2. CASE PersistBatch
  BY <1>1, <1>2, BatchUntouched
<1>3. CASE Correlate \/ Complete
  BY <1>1, <1>3, CorrelateUntouched
<1>4. CASE CorrelateAll
  BY <1>1, <1>4, CorrelateAllUntouched
<1>5. CASE \E f \in Flows : ScoreFlow(f)
  BY <1>1, <1>5, ScoreUntouched
<1>6. CASE \/ Claim \/ Read \/ RefuseBatch \/ RefuseDownstream \/ DatabaseError \/ Interrupt
           \/ Recover \/ \E f \in Flows, verdict \in Verdicts : GiveVerdict(f, verdict)
           \/ UNCHANGED vars
  <2>1. UNCHANGED <<detections, ledger, groups, foreign>>
    BY <1>6 DEF Claim, Read, RefuseBatch, RefuseDownstream, DatabaseError, Interrupt, Recover,
                GiveVerdict, Fail, vars, evidence, history
  <2> QED BY <2>1, <1>1, QuietStep
<1>7. CASE GenerateAll
  <2>1. /\ UNCHANGED <<detections, ledger, groups>>
        /\ foreign' = [foreign EXCEPT !.hypotheses =
                           @ \union (Generated(Stored) \ hypotheses)]
    BY <1>7 DEF GenerateAll
  <2>2. DOMAIN foreign' = DOMAIN foreign /\ foreign'.detections = foreign.detections
    BY <2>1
  <2> QED BY <2>1, <2>2, <1>1, QuietStep
<1> QED
  BY <1>2, <1>3, <1>4, <1>5, <1>6, <1>7 DEF Next, Work

\* What was true of an earlier refusal stays true.
LEMMA RefusalStays ==
  ASSUME AInv, Kept, Evidence', UNCHANGED refusal,
         foreign.detections \subseteq foreign'.detections
  PROVE  OnlyAnalystsRefuse'
  BY VerdictsStay DEF AInv, OnlyAnalystsRefuse

LEMMA BatchRefusal ==
  ASSUME AInv, RefuseBatch
  PROVE  OnlyAnalystsRefuse'
<1>1. CASE LedgerConflict /\ Fail("ledger_conflict")
  <2>1. PICK f \in pending \intersect Ledgered :
               f \notin flows \/ f \notin detections \/ OutputChecksum(f) # ledger[f]
    BY <1>1 DEF LedgerConflict
  <2>2. f \in Flows /\ ledger[f] # NoEntry /\ alert[f] # ledger[f]
    BY <2>1 DEF AInv, IInv, Evidence, Ledgered, OutputChecksum
  <2>3. VerdictsGiven # {}
    BY <2>2 DEF AInv, Untouched, Reproducible
  <2> QED BY <1>1, <2>3 DEF Fail, evidence, OnlyAnalystsRefuse, VerdictsGiven
<1>2. CASE ForeignDetection /\ Fail("foreign_detection")
  <2>1. PICK f \in pending \ Ledgered : f \in detections
    BY <1>2 DEF ForeignDetection
  <2>2. foreign.detections # {}
    BY <2>1 DEF AInv, Untouched
  <2> QED BY <1>2, <2>2 DEF Fail, OnlyAnalystsRefuse
<1> QED BY <1>1, <1>2 DEF RefuseBatch

LEMMA DownstreamRefusal ==
  ASSUME AInv, RefuseDownstream
  PROVE  OnlyAnalystsRefuse'
<1>1. CASE Fail("input")
  BY <1>1 DEF Fail, OnlyAnalystsRefuse
<1>2. CASE Conflicting(JobGroups) /\ Fail("group_conflict")
  <2>1. PICK r \in groups : r.snapshot # Snapshot(r.id)
    BY <1>2 DEF Conflicting
  <2>2. VerdictsGiven # {}
    BY <2>1 DEF AInv, Untouched, Reproducible
  <2> QED BY <1>2, <2>2 DEF Fail, evidence, OnlyAnalystsRefuse, VerdictsGiven
<1> QED BY <1>1, <1>2 DEF RefuseDownstream

LEMMA RefusalStep ==
  ASSUME AInv, [Next]_vars
  PROVE  OnlyAnalystsRefuse'
<1>1. Kept /\ Evidence'
  BY StepKeeps, StepHolds DEF AInv, IInv
<1>2. CASE RefuseBatch
  BY <1>2, BatchRefusal
<1>3. CASE RefuseDownstream
  BY <1>3, DownstreamRefusal
<1>4. CASE DatabaseError
  BY <1>4 DEF DatabaseError, Fail, OnlyAnalystsRefuse
<1>5. CASE \/ Claim \/ Read \/ PersistBatch \/ Correlate \/ Complete \/ Interrupt \/ Recover
           \/ \E f \in Flows, verdict \in Verdicts : GiveVerdict(f, verdict)
           \/ UNCHANGED vars
  <2>1. UNCHANGED <<refusal, foreign>>
    BY <1>5 DEF Claim, Read, PersistBatch, Correlate, Complete, RunDownstream, Interrupt,
                Recover, GiveVerdict, vars, history
  <2> QED BY <2>1, <1>1, RefusalStays
<1>6. CASE CorrelateAll \/ GenerateAll \/ \E f \in Flows : ScoreFlow(f)
  <2>1. UNCHANGED refusal
    BY <1>6 DEF CorrelateAll, GenerateAll, ScoreFlow
  <2>2. foreign.detections \subseteq foreign'.detections
    BY <1>6 DEF CorrelateAll, GenerateAll, ScoreFlow, AInv, Untouched
  <2> QED BY <2>1, <2>2, <1>1, RefusalStays
<1> QED BY <1>2, <1>3, <1>4, <1>5, <1>6 DEF Next, Work

LEMMA RefusalInit == Init => AInv
<1> SUFFICES ASSUME Init PROVE AInv
  OBVIOUS
<1>1. IInv
  BY InitHolds
<1>2. Untouched /\ OnlyAnalystsRefuse
  BY DEF Init, Untouched, Reproducible, OnlyAnalystsRefuse
<1> QED BY <1>1, <1>2 DEF AInv

\* An attempt never trips over what an earlier attempt of its job left behind:
\* a conflict takes a verdict, a detection outside the ledger takes a flow that
\* was scored from the command line.
THEOREM AnalystsRefuse == Spec => []OnlyAnalystsRefuse
<1>1. AInv /\ [Next]_vars => AInv'
  BY StepHolds, UntouchedStep, RefusalStep DEF AInv
<1>2. AInv => OnlyAnalystsRefuse
  BY DEF AInv
<1> QED BY RefusalInit, <1>1, <1>2, PTL DEF Spec

-----------------------------------------------------------------------------
(***************************************************************************)
(* The types of RuntimeOutput and the durable counters of an attempt, for  *)
(* every capture, batch size, policy and number of attempts.               *)
(***************************************************************************)

-----------------------------------------------------------------------------
(* The invariant.                                                          *)

\* What TypeOK says beyond IInv.
Typed ==
    /\ status \in Status
    /\ attempts \in Seq(Counters)
    /\ \A r \in groups : r.id \in GroupId
    /\ hypotheses \subseteq GroupId
    /\ position \in 0..(Packets + 1)
    /\ correlated \in Nat
    /\ observed \in [groups : SUBSET GroupId, hypotheses : SUBSET GroupId]
    /\ foreign \in [flows : SUBSET Flows, detections : SUBSET Flows,
                    groups : SUBSET GroupId, hypotheses : SUBSET GroupId]
    /\ refusal \in {"none", "ledger_conflict", "foreign_detection", "group_conflict",
                    "input", "database"}

\* A worker belongs to an attempt, counts a flow once and remembers what it has
\* seen for as long as it runs.
Counting ==
    /\ pc # "idle" => Attempt > 0
    /\ pc = "idle" => observed = [groups |-> {}, hypotheses |-> {}]
    /\ processed \intersect pending = {}
    /\ IsFiniteSet(observed.groups) /\ IsFiniteSet(observed.hypotheses)

CInv == IInv /\ Typed /\ Counting /\ CountersTruthful

LEMMA TypesFollow == CInv => TypeOK
  BY DEF CInv, IInv, Progress, Evidence, Typed, TypeOK

-----------------------------------------------------------------------------
(* Groups are finite in number and well formed.                            *)

LEMMA ClusterEntities ==
  ASSUME NEW S, NEW c \in Clusters(S)
  PROVE  c.entity_key \in Entities
  BY DEF Clusters

LEMMA GroupsFinite ==
  ASSUME NEW S \in SUBSET Alerts
  PROVE  IsFiniteSet(CorrelatedGroups[S]) /\ CorrelatedGroups[S] \subseteq GroupId
<1> DEFINE members == {m \in SUBSET S : \E c \in Clusters(S) : c.alerts = m}
           keys(m) == {c.entity_key : c \in {d \in Clusters(S) : d.alerts = m}}
           group == [m \in members |-> [alerts |-> m, entity_keys |-> keys(m)]]
           found == {[alerts |-> m, entity_keys |-> keys(m)] : m \in members}
<1>1. CorrelatedGroups[S] = Matched \cap found
  BY DEF CorrelatedGroups
<1>2. IsFiniteSet(members)
  <2>1. IsFiniteSet(SUBSET Alerts)
    BY AlertAssumption, FS_SUBSET
  <2>2. members \in SUBSET (SUBSET Alerts)
    OBVIOUS
  <2> QED BY <2>1, <2>2, FS_Subset
<1>3. group \in Surjection(members, found)
  BY DEF Surjection
<1>4. \A m : keys(m) \subseteq Entities
  BY ClusterEntities
<1>5. CorrelatedGroups[S] \subseteq GroupId
  <2> HIDE DEF keys
  <2> QED BY <1>1, <1>4 DEF GroupId
<1>6. IsFiniteSet(found)
  <2> HIDE DEF members, group, found
  <2> QED BY <1>2, <1>3, FS_Surjection
<1>7. CorrelatedGroups[S] \subseteq found
  BY <1>1
<1> QED BY <1>5, <1>6, <1>7, FS_Subset

LEMMA JobGroupsFinite == IsFiniteSet(JobGroups) /\ JobGroups \subseteq GroupId
<1>1. Eligible(JobAlerts) \in SUBSET Alerts
  BY DEF Eligible, JobAlerts
<1> QED BY <1>1, GroupsFinite DEF JobGroups

-----------------------------------------------------------------------------
(* Counting.                                                               *)

\* A set splits along another one.
LEMMA Split ==
  ASSUME NEW S, IsFiniteSet(S), NEW X
  PROVE  /\ Cardinality(S) \in Nat
         /\ Cardinality(S \ X) \in Nat
         /\ Cardinality(S \intersect X) \in Nat
         /\ Cardinality(S \ X) + Cardinality(S \intersect X) = Cardinality(S)
<1>1. IsFiniteSet(S \ X) /\ IsFiniteSet(S \intersect X)
  BY FS_Difference, FS_Intersection
<1>2. /\ Cardinality(S) \in Nat /\ Cardinality(S \ X) \in Nat
      /\ Cardinality(S \intersect X) \in Nat
  BY <1>1, FS_CardinalityType
<1>3. Cardinality(S \ X) = Cardinality(S) - Cardinality(S \intersect X)
  BY FS_Difference
<1> QED BY <1>2, <1>3

\* What is new of a set adds to what was there.
LEMMA Grow ==
  ASSUME NEW S, NEW T, IsFiniteSet(S), IsFiniteSet(T)
  PROVE  /\ Cardinality(S) \in Nat
         /\ Cardinality(T \ S) \in Nat
         /\ Cardinality(S \union T) = Cardinality(S) + Cardinality(T \ S)
<1>1. IsFiniteSet(T \ S)
  BY FS_Difference
<1>2. Cardinality(S \union T) = Cardinality(S \union (T \ S))
  <2>1. S \union T = S \union (T \ S)
    OBVIOUS
  <2> QED BY <2>1
<1>3. Cardinality(S \union (T \ S)) =
        Cardinality(S) + Cardinality(T \ S) - Cardinality(S \intersect (T \ S))
  BY <1>1, FS_Union
<1>4. Cardinality(S) \in Nat /\ Cardinality(T \ S) \in Nat
  BY <1>1, FS_CardinalityType
<1>5. Cardinality(S \intersect (T \ S)) = 0
  <2>1. S \intersect (T \ S) = {}
    OBVIOUS
  <2> QED BY <2>1, FS_EmptySet
<1> QED BY <1>2, <1>3, <1>4, <1>5

Sum(credit, o) == credit[o].created + credit[o].reused

LEMMA CountAdds ==
  ASSUME attempts \in Seq(Counters), Attempt > 0,
         NEW credit \in Counters, Count(credit)
  PROVE  /\ attempts' \in Seq(Counters)
         /\ Attempt' = Attempt
         /\ \A o \in Output : Processed(o)' = Processed(o) + Sum(credit, o)
<1> DEFINE n == Attempt
           added == [o \in Output |-> [created |-> attempts[n][o].created + credit[o].created,
                                       reused  |-> attempts[n][o].reused + credit[o].reused]]
<1>1. n \in 1..Len(attempts) /\ attempts[n] \in Counters
  BY DEF Attempt
<1>2. added \in Counters
  BY <1>1 DEF Counters
<1>3. attempts' = [attempts EXCEPT ![n] = added]
  BY DEF Count
<1>4. attempts' \in Seq(Counters) /\ Len(attempts') = Len(attempts) /\ attempts'[n] = added
  BY <1>1, <1>2, <1>3
<1>5. Attempt' = Attempt
  BY <1>4 DEF Attempt
<1>6. ASSUME NEW o \in Output PROVE Processed(o)' = Processed(o) + Sum(credit, o)
  <2>1. /\ attempts[n][o].created \in Nat /\ attempts[n][o].reused \in Nat
        /\ credit[o].created \in Nat /\ credit[o].reused \in Nat
    BY <1>1 DEF Counters
  <2>2. /\ Processed(o) = attempts[n][o].created + attempts[n][o].reused
        /\ Processed(o)' = attempts'[n][o].created + attempts'[n][o].reused
    BY <1>5 DEF Processed
  <2>3. /\ added[o].created = attempts[n][o].created + credit[o].created
        /\ added[o].reused = attempts[n][o].reused + credit[o].reused
    OBVIOUS
  <2> HIDE DEF added
  <2> QED BY <2>1, <2>2, <2>3, <1>4 DEF Sum
<1> QED BY <1>4, <1>5, <1>6

-----------------------------------------------------------------------------
(* What a batch and a correlation are credited with.                       *)

LEMMA FlowsFinite ==
  ASSUME NEW S \in SUBSET Flows
  PROVE  IsFiniteSet(S)
  BY CaptureAssumption, FS_Subset

LEMMA BatchCredits ==
  ASSUME IInv, ~LedgerConflict, ~ForeignDetection
  PROVE  /\ BatchCredit(Fresh) \in Counters
         /\ Sum(BatchCredit(Fresh), "flows") = Cardinality(pending)
         /\ Sum(BatchCredit(Fresh), "detections") = Cardinality(pending)
         /\ Sum(BatchCredit(Fresh), "alerts") = Cardinality(pending \intersect Alerts)
         /\ Sum(BatchCredit(Fresh), "groups") = 0
         /\ Sum(BatchCredit(Fresh), "hypotheses") = 0
<1> DEFINE new == Fresh \ flows
           old == {f \in pending \ Fresh : alert[f] # NoAlert}
           credit == BatchCredit(Fresh)
<1>1. pending \subseteq Flows /\ Fresh \subseteq pending /\ new \subseteq pending
  BY DEF IInv, Progress, Fresh
<1>2. /\ IsFiniteSet(pending) /\ IsFiniteSet(pending \intersect Alerts)
  BY <1>1, FlowsFinite
<1>3. /\ Cardinality(new) \in Nat /\ Cardinality(pending \ new) \in Nat
      /\ Cardinality(new) + Cardinality(pending \ new) = Cardinality(pending)
  <2>1. pending \intersect new = new
    BY <1>1
  <2> HIDE DEF new
  <2> QED BY <1>2, <2>1, Split
<1>4. /\ Cardinality(Fresh) \in Nat /\ Cardinality(pending \ Fresh) \in Nat
      /\ Cardinality(Fresh) + Cardinality(pending \ Fresh) = Cardinality(pending)
  <2>1. pending \intersect Fresh = Fresh
    BY <1>1
  <2> QED BY <1>2, <2>1, Split
<1>5. /\ Cardinality(Fresh \intersect Alerts) \in Nat /\ Cardinality(old) \in Nat
      /\ Cardinality(Fresh \intersect Alerts) + Cardinality(old) =
           Cardinality(pending \intersect Alerts)
  <2>1. (pending \intersect Alerts) \intersect Fresh = Fresh \intersect Alerts
    BY <1>1
  <2>2. \A f \in pending \ Fresh : alert[f] # NoAlert <=> f \in Alerts
    BY <1>1 DEF IInv, Evidence, Fresh, Ledgered
  <2>3. (pending \intersect Alerts) \ Fresh = old
    BY <2>2
  <2>4. /\ Cardinality((pending \intersect Alerts) \ Fresh) \in Nat
        /\ Cardinality((pending \intersect Alerts) \intersect Fresh) \in Nat
        /\ Cardinality((pending \intersect Alerts) \ Fresh) +
             Cardinality((pending \intersect Alerts) \intersect Fresh) =
           Cardinality(pending \intersect Alerts)
    BY <1>2, Split
  <2> HIDE DEF old
  <2>5. /\ Cardinality(old) \in Nat /\ Cardinality(Fresh \intersect Alerts) \in Nat
        /\ Cardinality(old) + Cardinality(Fresh \intersect Alerts) =
             Cardinality(pending \intersect Alerts)
    BY <2>1, <2>3, <2>4
  <2> QED BY <2>5
<1>6. credit = [flows      |-> [created |-> Cardinality(new),
                                reused  |-> Cardinality(pending \ new)],
                detections |-> [created |-> Cardinality(Fresh),
                                reused  |-> Cardinality(pending \ Fresh)],
                alerts     |-> [created |-> Cardinality(Fresh \intersect Alerts),
                                reused  |-> Cardinality(old)],
                groups     |-> [created |-> 0, reused |-> 0],
                hypotheses |-> [created |-> 0, reused |-> 0]]
  BY DEF BatchCredit, Credit, Nothing
<1> HIDE DEF credit, new, old
<1>7. credit \in Counters
  BY <1>3, <1>4, <1>5, <1>6 DEF Counters, Output
<1>8. /\ Sum(credit, "flows") = Cardinality(new) + Cardinality(pending \ new)
      /\ Sum(credit, "detections") = Cardinality(Fresh) + Cardinality(pending \ Fresh)
      /\ Sum(credit, "alerts") = Cardinality(Fresh \intersect Alerts) + Cardinality(old)
      /\ Sum(credit, "groups") = 0
      /\ Sum(credit, "hypotheses") = 0
  BY <1>6 DEF Sum
<1> QED BY <1>3, <1>4, <1>5, <1>7, <1>8 DEF credit

LEMMA DownstreamCredits ==
  ASSUME NEW ids, IsFiniteSet(ids)
  PROVE  /\ DownstreamCredit(ids) \in Counters
         /\ \A o \in {"flows", "detections", "alerts"} : Sum(DownstreamCredit(ids), o) = 0
         /\ Sum(DownstreamCredit(ids), "groups") = Cardinality(ids \ observed.groups)
         /\ Sum(DownstreamCredit(ids), "hypotheses") =
              Cardinality(Generated(ids) \ observed.hypotheses)
<1> DEFINE before == {g \in Stored : g.alerts \intersect JobAlerts # {}}
           known == hypotheses \intersect before
           gs == ids \ observed.groups
           hs == Generated(ids) \ observed.hypotheses
           credit == DownstreamCredit(ids)
<1>1. IsFiniteSet(gs) /\ IsFiniteSet(hs)
  <2>1. hs \subseteq ids
    BY DEF Generated
  <2> QED BY <2>1, FS_Subset
<1>2. hs \intersect hypotheses \intersect before = hs \intersect known
  OBVIOUS
<1>3. credit = [NoCounters EXCEPT
                  !["groups"]     = [created |-> Cardinality(gs \ before),
                                     reused  |-> Cardinality(gs \intersect before)],
                  !["hypotheses"] = [created |-> Cardinality(hs \ known),
                                     reused  |-> Cardinality(hs \intersect known)]]
  BY <1>2 DEF DownstreamCredit, Credit
<1> HIDE DEF before, known, gs, hs, credit
<1>4. /\ Cardinality(gs \ before) \in Nat /\ Cardinality(gs \intersect before) \in Nat
      /\ Cardinality(hs \ known) \in Nat /\ Cardinality(hs \intersect known) \in Nat
      /\ Cardinality(gs \ before) + Cardinality(gs \intersect before) = Cardinality(gs)
      /\ Cardinality(hs \ known) + Cardinality(hs \intersect known) = Cardinality(hs)
  BY <1>1, Split
<1>5. credit \in Counters
  BY <1>3, <1>4 DEF Counters, Output, NoCounters
<1>6. /\ \A o \in {"flows", "detections", "alerts"} : Sum(credit, o) = 0
      /\ Sum(credit, "groups") = Cardinality(gs \ before) + Cardinality(gs \intersect before)
      /\ Sum(credit, "hypotheses") = Cardinality(hs \ known) + Cardinality(hs \intersect known)
  <2>1. \A o \in {"flows", "detections", "alerts"} :
          credit[o] = [created |-> 0, reused |-> 0]
    BY <1>3 DEF NoCounters, Output
  <2>2. credit["groups"] = [created |-> Cardinality(gs \ before),
                            reused  |-> Cardinality(gs \intersect before)]
    BY <1>3 DEF NoCounters, Output
  <2>3. credit["hypotheses"] = [created |-> Cardinality(hs \ known),
                                reused  |-> Cardinality(hs \intersect known)]
    BY <1>3 DEF NoCounters, Output
  <2>4. /\ Sum(credit, "groups") = Cardinality(gs \ before) + Cardinality(gs \intersect before)
        /\ Sum(credit, "hypotheses") = Cardinality(hs \ known) + Cardinality(hs \intersect known)
    BY <2>2, <2>3 DEF Sum
  <2>5. \A o \in {"flows", "detections", "alerts"} : Sum(credit, o) = 0
    BY <2>1 DEF Sum
  <2> QED BY <2>4, <2>5
<1> QED BY <1>4, <1>5, <1>6 DEF credit, gs, hs

-----------------------------------------------------------------------------
(* One step keeps the types.                                               *)

LEMMA StoreGroupsTyped ==
  ASSUME Typed, NEW ids \in SUBSET GroupId, StoreGroups(ids)
  PROVE  /\ \A r \in groups' : r.id \in GroupId
         /\ Stored \subseteq GroupId
         /\ Generated(ids) \subseteq GroupId
  BY DEF Typed, StoreGroups, Stored, Generated

LEMMA FailTyped ==
  ASSUME CInv, NEW reason \in {"ledger_conflict", "foreign_detection", "group_conflict",
                              "input", "database"}, Fail(reason)
  PROVE  Typed'
<1>1. status' \in Status
  BY DEF Fail, Status
<1> QED BY <1>1, CaptureAssumption DEF Fail, StopWorker, evidence, CInv, Typed

LEMMA CorrelateTyped ==
  ASSUME CInv, Correlate \/ Complete
  PROVE  Typed'
<1>1. JobGroups \in SUBSET GroupId
  BY JobGroupsFinite
<1>2. RunDownstream(JobGroups) /\ Attempt > 0
  BY DEF Correlate, Complete, CInv, Counting
<1>3. /\ \A r \in groups' : r.id \in GroupId
      /\ Generated(JobGroups) \subseteq GroupId
  BY <1>1, <1>2, StoreGroupsTyped DEF RunDownstream, CInv
<1>4. hypotheses' \subseteq GroupId
  BY <1>2, <1>3 DEF RunDownstream, CInv, Typed
<1>5. attempts' \in Seq(Counters)
  BY <1>2, CountAdds, DownstreamCredits, JobGroupsFinite DEF RunDownstream, CInv, Typed
<1>6. UNCHANGED <<foreign, refusal>>
  BY <1>2 DEF RunDownstream, history
<1>7. CASE Correlate
  <2>1. Processed("alerts") \in Nat
    <3>1. attempts[Attempt] \in Counters
      BY <1>2 DEF CInv, Typed, Attempt
    <3> QED BY <3>1 DEF Processed, Counters, Output
  <2>2. observed' \in [groups : SUBSET GroupId, hypotheses : SUBSET GroupId]
    BY <1>1, <1>3, <1>7 DEF Correlate, CInv, Typed
  <2> QED BY <1>3, <1>4, <1>5, <1>6, <1>7, <2>1, <2>2 DEF Correlate, CInv, Typed
<1>8. CASE Complete
  BY <1>3, <1>4, <1>5, <1>6, <1>8, CaptureAssumption
     DEF Complete, StopWorker, Status, CInv, Typed
<1> QED BY <1>2, <1>7, <1>8

LEMMA PersistTyped ==
  ASSUME CInv, PersistBatch
  PROVE  Typed'
<1>1. attempts' \in Seq(Counters)
  BY CountAdds, BatchCredits DEF PersistBatch, CInv, Counting, Typed
<1> QED BY <1>1 DEF PersistBatch, CInv, Typed

LEMMA CorrelateAllTyped ==
  ASSUME CInv, CorrelateAll
  PROVE  Typed'
<1> DEFINE all == {f \in Flows : alert[f] # NoAlert}
           ids == CorrelatedGroups[Eligible(all)]
<1>1. Eligible(all) \in SUBSET Alerts
  BY DEF CInv, IInv, Evidence, Eligible
<1>2. ids \in SUBSET GroupId
  BY <1>1, GroupsFinite
<1>3. /\ StoreGroups(ids)
      /\ foreign' = [foreign EXCEPT !.groups = @ \union (ids \ Stored)]
      /\ UNCHANGED <<job, hypotheses, worker, refusal>>
  BY DEF CorrelateAll
<1> HIDE DEF ids
<1>4. \A r \in groups' : r.id \in GroupId
  BY <1>2, <1>3, StoreGroupsTyped DEF CInv
<1> QED BY <1>2, <1>3, <1>4 DEF job, worker, CInv, Typed

LEMMA GenerateAllTyped ==
  ASSUME CInv, GenerateAll
  PROVE  Typed'
<1>1. Generated(Stored) \subseteq GroupId
  BY DEF Generated, Stored, CInv, Typed
<1>2. /\ hypotheses' = hypotheses \union Generated(Stored)
      /\ foreign' = [foreign EXCEPT !.hypotheses = @ \union (Generated(Stored) \ hypotheses)]
      /\ UNCHANGED <<job, groups, worker, refusal>>
  BY DEF GenerateAll
<1> QED BY <1>1, <1>2 DEF job, worker, CInv, Typed

LEMMA StepTyped ==
  ASSUME CInv, [Next]_vars
  PROVE  Typed'
<1>1. CASE Claim
  <2>1. NoCounters \in Counters
    BY DEF NoCounters, Counters
  <2> QED BY <1>1, <2>1 DEF Claim, Status, evidence, CInv, Typed
<1>2. CASE Read
  <2>1. position' \in 0..(Packets + 1)
    BY <1>2, CaptureAssumption DEF Read, CInv, IInv, Progress
  <2> QED BY <1>2, <2>1 DEF Read, job, evidence, history, CInv, Typed
<1>3. CASE PersistBatch
  BY <1>3, PersistTyped
<1>4. CASE RefuseBatch
  BY <1>4, FailTyped DEF RefuseBatch
<1>5. CASE Correlate \/ Complete
  BY <1>5, CorrelateTyped
<1>6. CASE RefuseDownstream
  BY <1>6, FailTyped DEF RefuseDownstream
<1>7. CASE DatabaseError
  BY <1>7, FailTyped DEF DatabaseError
<1>8. CASE Interrupt
  BY <1>8, CaptureAssumption DEF Interrupt, StopWorker, Status, evidence, history, CInv, Typed
<1>9. CASE Recover
  BY <1>9 DEF Recover, Status, evidence, worker, history, CInv, Typed
<1>10. CASE \E f \in Flows, verdict \in Verdicts : GiveVerdict(f, verdict)
  BY <1>10 DEF GiveVerdict, job, worker, history, CInv, Typed
<1>11. CASE \E f \in Flows : ScoreFlow(f)
  BY <1>11 DEF ScoreFlow, job, worker, CInv, Typed
<1>12. CASE CorrelateAll
  BY <1>12, CorrelateAllTyped
<1>13. CASE GenerateAll
  BY <1>13, GenerateAllTyped
<1>14. CASE UNCHANGED vars
  BY <1>14 DEF vars, job, evidence, worker, history, CInv, Typed
<1> QED
  BY <1>1, <1>2, <1>3, <1>4, <1>5, <1>6, <1>7, <1>8, <1>9, <1>10, <1>11, <1>12, <1>13,
     <1>14 DEF Next, Work

-----------------------------------------------------------------------------
(* One step keeps the counters truthful.                                   *)

\* Evidence is only added, so what the ledger covers stays covered.
LEMMA LedgerGrows ==
  ASSUME CInv, [Next]_vars
  PROVE  Ledgered \subseteq Ledgered'
<1>1. Kept
  BY StepKeeps DEF CInv
<1> QED BY <1>1 DEF Kept, Ledgered

\* Counters, commits and what was seen are as before.
LEMMA CountersKept ==
  ASSUME CInv, [Next]_vars, UNCHANGED <<attempts, processed>>,
         pc' # "idle" => pc # "idle" /\ UNCHANGED observed
  PROVE  CountersTruthful'
<1>1. Ledgered \subseteq Ledgered'
  BY LedgerGrows
<1>2. Attempt' = Attempt /\ \A o : Processed(o)' = Processed(o)
  BY DEF Attempt, Processed
<1> QED BY <1>1, <1>2 DEF CInv, CountersTruthful

LEMMA StopCounts ==
  ASSUME CInv, [Next]_vars, StopWorker, UNCHANGED <<attempts, processed>>
  PROVE  Counting' /\ CountersTruthful'
<1>1. Counting'
  BY FS_EmptySet DEF StopWorker, Counting
<1>2. CountersTruthful'
  BY CountersKept DEF StopWorker
<1> QED BY <1>1, <1>2

LEMMA FailCounts ==
  ASSUME CInv, [Next]_vars, NEW reason, Fail(reason)
  PROVE  Counting' /\ CountersTruthful'
  BY StopCounts DEF Fail

LEMMA ClaimCounts ==
  ASSUME CInv, Claim
  PROVE  Counting' /\ CountersTruthful'
<1>1. /\ status = "queued" /\ pc = "idle" /\ pending = {}
      /\ observed = [groups |-> {}, hypotheses |-> {}]
  BY DEF Claim, CInv, IInv, Progress, Counting
<1>2. /\ attempts' = Append(attempts, NoCounters) /\ attempts \in Seq(Counters)
      /\ observed' = observed /\ pending' = pending /\ processed' = {} /\ pc' = "read"
  BY DEF Claim, CInv, Typed
<1>3. Attempt' = Attempt + 1 /\ Attempt \in Nat /\ attempts'[Attempt'] = NoCounters
  BY <1>2 DEF Attempt
<1>4. Cardinality({}) = 0 /\ IsFiniteSet({})
  BY FS_EmptySet
<1>5. Counting'
  BY <1>1, <1>2, <1>3, <1>4 DEF Counting
<1>6. \A o \in Output : Processed(o)' = 0
  BY <1>3 DEF Processed, NoCounters
<1>7. processed' \intersect Alerts = {}
  BY <1>2
<1>8. CountersTruthful'
  BY <1>1, <1>2, <1>4, <1>6, <1>7 DEF CountersTruthful, Output
<1> QED BY <1>5, <1>8

\* A flow closes once.
LEMMA ReadCounts ==
  ASSUME CInv, [Next]_vars, Read
  PROVE  Counting' /\ CountersTruthful'
<1>1. /\ pc = "read" /\ position \in Nat
      /\ pending' = pending \union Closing(position + 1)
      /\ UNCHANGED <<attempts, processed, observed>>
      /\ processed \union pending = {f \in Flows : ClosedBy[f] <= position}
  BY DEF Read, job, history, CInv, IInv, Progress
<1>2. processed \intersect Closing(position + 1) = {}
  BY <1>1, CaptureAssumption DEF Closing
<1>3. pc' # "idle"
  BY DEF Read, AfterRead
<1>4. Attempt' = Attempt
  BY <1>1 DEF Attempt
<1>5. Counting'
  BY <1>1, <1>2, <1>3, <1>4 DEF CInv, Counting
<1>6. CountersTruthful'
  BY <1>1, CountersKept
<1> QED BY <1>5, <1>6

\* What a batch commits is added to what was committed.
LEMMA CommitAdds ==
  ASSUME CInv
  PROVE  /\ Cardinality(processed) \in Nat /\ Cardinality(pending) \in Nat
         /\ Cardinality(processed \union pending) =
              Cardinality(processed) + Cardinality(pending)
         /\ Cardinality(processed \intersect Alerts) \in Nat
         /\ Cardinality(pending \intersect Alerts) \in Nat
         /\ Cardinality((processed \union pending) \intersect Alerts) =
              Cardinality(processed \intersect Alerts) + Cardinality(pending \intersect Alerts)
<1> DEFINE done == processed \intersect Alerts
           rest == pending \intersect Alerts
<1>1. /\ processed \subseteq Flows /\ pending \subseteq Flows
      /\ processed \intersect pending = {}
  BY DEF CInv, IInv, Progress, Counting
<1>2. /\ IsFiniteSet(processed) /\ IsFiniteSet(pending)
      /\ IsFiniteSet(done) /\ IsFiniteSet(rest)
  BY <1>1, FlowsFinite
<1>3. pending \ processed = pending /\ rest \ done = rest
  BY <1>1
<1>4. (processed \union pending) \intersect Alerts = done \union rest
  OBVIOUS
<1> HIDE DEF done, rest
<1>5. /\ Cardinality(processed) \in Nat
      /\ Cardinality(pending \ processed) \in Nat
      /\ Cardinality(processed \union pending) =
           Cardinality(processed) + Cardinality(pending \ processed)
  BY <1>2, Grow
<1>6. /\ Cardinality(done) \in Nat
      /\ Cardinality(rest \ done) \in Nat
      /\ Cardinality(done \union rest) = Cardinality(done) + Cardinality(rest \ done)
  BY <1>2, Grow
<1>7. /\ Cardinality(pending \ processed) = Cardinality(pending)
      /\ Cardinality(rest \ done) = Cardinality(rest)
      /\ Cardinality((processed \union pending) \intersect Alerts) =
           Cardinality(done \union rest)
  BY <1>3, <1>4
<1> QED BY <1>5, <1>6, <1>7 DEF done, rest

LEMMA PersistCounts ==
  ASSUME CInv, [Next]_vars, PersistBatch
  PROVE  Counting' /\ CountersTruthful'
<1> DEFINE credit == BatchCredit(Fresh)
<1>1. /\ pc = "persist" /\ Attempt > 0 /\ attempts \in Seq(Counters)
      /\ ~LedgerConflict /\ ~ForeignDetection
      /\ Count(credit)
      /\ pending' = {} /\ processed' = processed \union pending /\ observed' = observed
  BY DEF PersistBatch, CInv, Counting, Typed
<1>2. /\ credit \in Counters
      /\ Sum(credit, "flows") = Cardinality(pending)
      /\ Sum(credit, "detections") = Cardinality(pending)
      /\ Sum(credit, "alerts") = Cardinality(pending \intersect Alerts)
      /\ Sum(credit, "groups") = 0
      /\ Sum(credit, "hypotheses") = 0
  BY <1>1, BatchCredits DEF CInv
<1> HIDE DEF credit
<1>3. /\ Attempt' = Attempt
      /\ \A o \in Output : Processed(o)' = Processed(o) + Sum(credit, o)
  BY <1>1, <1>2, CountAdds
<1>4. pc' # "idle"
  BY AfterBatchFollows, <1>1 DEF PersistBatch, CInv
<1>5. Counting'
  BY <1>1, <1>3, <1>4 DEF CInv, Counting
<1>6. processed' \subseteq Ledgered'
  <2>1. pending \subseteq Ledgered' /\ Ledgered \subseteq Ledgered'
    BY BatchFollows DEF CInv
  <2> QED BY <1>1, <2>1 DEF CInv, IInv, Covered
<1>7. /\ Processed("flows") = Cardinality(processed)
      /\ Processed("detections") = Cardinality(processed)
      /\ Processed("alerts") = Cardinality(processed \intersect Alerts)
      /\ Processed("groups") = Cardinality(observed.groups)
      /\ Processed("hypotheses") = Cardinality(observed.hypotheses)
  BY <1>1 DEF CInv, CountersTruthful
<1>8. /\ Cardinality(observed.groups) \in Nat /\ Cardinality(observed.hypotheses) \in Nat
  BY FS_CardinalityType DEF CInv, Counting
<1>9. /\ Processed("flows")' = Cardinality(processed')
      /\ Processed("detections")' = Cardinality(processed')
      /\ Processed("alerts")' = Cardinality(processed' \intersect Alerts)
      /\ Processed("groups")' = Cardinality(observed'.groups)
      /\ Processed("hypotheses")' = Cardinality(observed'.hypotheses)
  BY <1>1, <1>2, <1>3, <1>7, <1>8, CommitAdds DEF Output
<1> QED BY <1>5, <1>6, <1>9 DEF CountersTruthful

LEMMA CorrelateCounts ==
  ASSUME CInv, [Next]_vars, Correlate
  PROVE  Counting' /\ CountersTruthful'
<1> DEFINE credit == DownstreamCredit(JobGroups)
           seen == Generated(JobGroups)
<1>1. /\ pc = "correlate" /\ Attempt > 0 /\ attempts \in Seq(Counters)
      /\ Count(credit)
      /\ UNCHANGED <<pending, processed>>
      /\ observed' = [groups     |-> observed.groups \union JobGroups,
                      hypotheses |-> observed.hypotheses \union seen]
  BY DEF Correlate, RunDownstream, history, CInv, Counting, Typed
<1>2. /\ IsFiniteSet(JobGroups) /\ IsFiniteSet(seen)
      /\ IsFiniteSet(observed.groups) /\ IsFiniteSet(observed.hypotheses)
  <2>1. seen \subseteq JobGroups
    BY DEF Generated
  <2> QED BY <2>1, JobGroupsFinite, FS_Subset DEF CInv, Counting
<1>3. /\ credit \in Counters
      /\ \A o \in {"flows", "detections", "alerts"} : Sum(credit, o) = 0
      /\ Sum(credit, "groups") = Cardinality(JobGroups \ observed.groups)
      /\ Sum(credit, "hypotheses") = Cardinality(seen \ observed.hypotheses)
  BY <1>2, DownstreamCredits
<1> HIDE DEF credit, seen
<1>4. /\ Attempt' = Attempt
      /\ \A o \in Output : Processed(o)' = Processed(o) + Sum(credit, o)
  BY <1>1, <1>3, CountAdds
<1>5. pc' # "idle"
  BY AfterBatchFollows, <1>1 DEF Correlate, CInv
<1>6. /\ observed'.groups = observed.groups \union JobGroups
      /\ observed'.hypotheses = observed.hypotheses \union seen
      /\ IsFiniteSet(observed'.groups) /\ IsFiniteSet(observed'.hypotheses)
  BY <1>1, <1>2, FS_Union
<1>7. Counting'
  BY <1>1, <1>4, <1>5, <1>6 DEF CInv, Counting
<1>8. /\ Cardinality(observed'.groups) =
           Cardinality(observed.groups) + Cardinality(JobGroups \ observed.groups)
      /\ Cardinality(observed'.hypotheses) =
           Cardinality(observed.hypotheses) + Cardinality(seen \ observed.hypotheses)
  BY <1>2, <1>6, Grow
<1>9. /\ Processed("flows") = Cardinality(processed)
      /\ Processed("detections") = Cardinality(processed)
      /\ Processed("alerts") = Cardinality(processed \intersect Alerts)
      /\ Processed("groups") = Cardinality(observed.groups)
      /\ Processed("hypotheses") = Cardinality(observed.hypotheses)
  BY <1>1 DEF CInv, CountersTruthful
<1>10. /\ Processed("flows")' = Cardinality(processed')
       /\ Processed("detections")' = Cardinality(processed')
       /\ Processed("alerts")' = Cardinality(processed' \intersect Alerts)
  BY <1>1, <1>3, <1>4, <1>9, CommitAdds DEF Output
<1>11. /\ Processed("groups")' = Cardinality(observed'.groups)
       /\ Processed("hypotheses")' = Cardinality(observed'.hypotheses)
  BY <1>3, <1>4, <1>8, <1>9 DEF Output
<1>12. processed' \subseteq Ledgered'
  BY <1>1, LedgerGrows DEF CInv, IInv, Covered
<1> QED BY <1>7, <1>10, <1>11, <1>12 DEF CountersTruthful

LEMMA CompleteCounts ==
  ASSUME CInv, [Next]_vars, Complete
  PROVE  Counting' /\ CountersTruthful'
<1> DEFINE credit == DownstreamCredit(JobGroups)
<1>1. /\ pc = "finish" /\ Attempt > 0 /\ attempts \in Seq(Counters)
      /\ Count(credit) /\ StopWorker /\ processed' = processed
  BY DEF Complete, RunDownstream, history, CInv, Counting, Typed
<1>2. /\ credit \in Counters
      /\ \A o \in {"flows", "detections", "alerts"} : Sum(credit, o) = 0
  BY JobGroupsFinite, DownstreamCredits
<1> HIDE DEF credit
<1>3. Counting'
  BY <1>1, FS_EmptySet DEF StopWorker, Counting
<1>4. /\ Processed("flows") = Cardinality(processed)
      /\ Processed("detections") = Cardinality(processed)
      /\ Processed("alerts") = Cardinality(processed \intersect Alerts)
  BY <1>1 DEF CInv, CountersTruthful
<1>5. \A o \in Output : Processed(o)' = Processed(o) + Sum(credit, o)
  BY <1>1, <1>2, CountAdds
<1>6. /\ Processed("flows")' = Cardinality(processed')
      /\ Processed("detections")' = Cardinality(processed')
      /\ Processed("alerts")' = Cardinality(processed' \intersect Alerts)
  BY <1>1, <1>2, <1>4, <1>5, CommitAdds DEF Output
<1>7. processed' \subseteq Ledgered'
  BY <1>1, LedgerGrows DEF CInv, IInv, Covered
<1>8. pc' = "idle"
  BY <1>1 DEF StopWorker
<1> QED BY <1>3, <1>6, <1>7, <1>8 DEF CountersTruthful

LEMMA StepCounts ==
  ASSUME CInv, [Next]_vars
  PROVE  Counting' /\ CountersTruthful'
<1>1. CASE Claim
  BY <1>1, ClaimCounts
<1>2. CASE Read
  BY <1>2, ReadCounts
<1>3. CASE PersistBatch
  BY <1>3, PersistCounts
<1>4. CASE Correlate
  BY <1>4, CorrelateCounts
<1>5. CASE Complete
  BY <1>5, CompleteCounts
<1>6. CASE RefuseBatch \/ RefuseDownstream \/ DatabaseError
  BY <1>6, FailCounts DEF RefuseBatch, RefuseDownstream, DatabaseError
<1>7. CASE Interrupt
  BY <1>7, StopCounts DEF Interrupt, history
<1>8. CASE \/ Recover
           \/ \E f \in Flows, verdict \in Verdicts : GiveVerdict(f, verdict)
           \/ \E f \in Flows : ScoreFlow(f)
           \/ CorrelateAll \/ GenerateAll \/ UNCHANGED vars
  <2>1. UNCHANGED <<attempts, worker, processed>>
    BY <1>8 DEF Recover, GiveVerdict, ScoreFlow, CorrelateAll, GenerateAll, vars, job, history
  <2>2. UNCHANGED <<pc, pending, observed, Attempt>>
    BY <2>1 DEF worker, Attempt
  <2>3. Counting'
    BY <2>1, <2>2 DEF CInv, Counting
  <2> QED BY <2>1, <2>2, <2>3, CountersKept
<1> QED
  BY <1>1, <1>2, <1>3, <1>4, <1>5, <1>6, <1>7, <1>8 DEF Next, Work

LEMMA CountersInit == Init => CInv
<1> SUFFICES ASSUME Init PROVE CInv
  OBVIOUS
<1>1. IInv
  BY InitHolds
<1>2. Typed
  BY CaptureAssumption DEF Init, Typed, Status
<1>3. Counting /\ CountersTruthful
  BY FS_EmptySet DEF Init, Counting, CountersTruthful, Attempt
<1> QED BY <1>1, <1>2, <1>3 DEF CInv

LEMMA CountersStep == CInv /\ [Next]_vars => CInv'
  BY StepHolds, StepTyped, StepCounts DEF CInv

-----------------------------------------------------------------------------
\* Every variable of the replay stays within its type.
THEOREM OutputTypesCorrect == Spec => []TypeOK
  BY CountersInit, CountersStep, TypesFollow, PTL DEF Spec

\* The durable counters of an attempt say exactly what it committed, each flow,
\* alert, group and hypothesis once, whatever the batches, and however many
\* correlations found a group again.
THEOREM CountersAreTruthful == Spec => []CountersTruthful
<1>1. CInv => CountersTruthful
  BY DEF CInv
<1> QED BY CountersInit, CountersStep, <1>1, PTL DEF Spec

-----------------------------------------------------------------------------
(* Groups.                                                                 *)

\* A set of numbers has a least one.
LEMMA Least == ASSUME NEW S \in SUBSET Nat, S # {} PROVE \E m \in S : \A k \in S : m <= k
<1> DEFINE R == OpToRel(<, Nat)
<1>1. IsWellFoundedOn(R, Nat)
  BY NatLessThanWellFounded
<1>2. \A x, y \in Nat : << x, y >> \in R <=> x < y
  BY DEF OpToRel
<1> HIDE DEF R
<1>3. PICK m \in S : \A k \in S : ~ (<< k, m >> \in R)
  BY <1>1, WFMin
<1>4. ASSUME NEW k \in S PROVE m <= k
  <2>1. m \in Nat /\ k \in Nat
    OBVIOUS
  <2>2. ~(k < m)
    BY <1>2, <1>3, <2>1
  <2> QED BY <2>1, <2>2
<1> QED BY <1>4

LEMMA AlertTimes ==
  /\ \A a \in Alerts : /\ a \in Nat /\ EventStart[a] \in Nat /\ EventEnd[a] \in Nat
                       /\ EventStart[a] <= EventEnd[a]
  /\ CorrelationWindow \in Nat
  BY AlertAssumption, PolicyAssumption

\* Alerts have a first one: by start, then by id.
LEMMA AnchorIsFirst ==
  ASSUME NEW R \in SUBSET Alerts, R # {}
  PROVE  Anchor(R) \in R /\ \A b \in R \ {Anchor(R)} : Before(Anchor(R), b)
<1>1. \A a \in R : EventStart[a] \in Nat /\ a \in Nat
  BY AlertAssumption
<1>2. PICK s \in {EventStart[a] : a \in R} : \A t \in {EventStart[a] : a \in R} : s <= t
  BY <1>1, Least
<1>3. PICK m \in {a \in R : EventStart[a] = s} : \A b \in {a \in R : EventStart[a] = s} : m <= b
  BY <1>1, <1>2, Least
<1>4. ASSUME NEW b \in R \ {m} PROVE Before(m, b)
  <2>1. s <= EventStart[b] /\ EventStart[b] \in Nat /\ s \in Nat /\ m \in Nat /\ b \in Nat
    BY <1>1, <1>2, <1>3
  <2>2. EventStart[b] = s => m <= b
    BY <1>3
  <2> QED BY <1>3, <2>1, <2>2 DEF Before
<1>5. \E a \in R : \A b \in R \ {a} : Before(a, b)
  BY <1>3, <1>4
<1> QED BY <1>5 DEF Anchor

\* What is left of X after some windows were cut off.
Closed(C) == \A Z \in C : Z # {} => Z \ Window(Z) \in C
Rests(R, X) == {Y \in SUBSET R : \A C \in SUBSET SUBSET R : X \in C /\ Closed(C) => Y \in C}

LEMMA RestsOf ==
  ASSUME NEW R, NEW X \in SUBSET R
  PROVE  /\ X = {} => Rests(R, X) = {{}}
         /\ X # {} => Rests(R, X) = {X} \union Rests(R, X \ Window(X))
<1>1. CASE X = {}
  <2>1. {{}} \in SUBSET SUBSET R /\ Closed({{}})
    BY DEF Closed
  <2>2. {} \in Rests(R, X)
    BY <1>1 DEF Rests
  <2>3. ASSUME NEW Y \in Rests(R, X) PROVE Y = {}
    BY <1>1, <2>1, <2>3 DEF Rests
  <2> QED BY <1>1, <2>2, <2>3
<1>2. CASE X # {}
  <2>0. PICK r : r = X \ Window(X)
    OBVIOUS
  <2>1. r \in SUBSET R
    BY <2>0
  <2>2. PICK T : T = {X} \union Rests(R, r)
    OBVIOUS
  <2>3. r \in Rests(R, r) /\ Rests(R, r) \subseteq SUBSET R
    BY <2>1 DEF Rests
  <2>4. ASSUME NEW Z \in Rests(R, r), Z # {} PROVE Z \ Window(Z) \in Rests(R, r)
    <3>1. Z \ Window(Z) \in SUBSET R
      BY DEF Rests
    <3>2. \A C \in SUBSET SUBSET R : r \in C /\ Closed(C) => Z \ Window(Z) \in C
      BY <2>4 DEF Rests, Closed
    <3> QED BY <3>1, <3>2 DEF Rests
  <2>5. T \in SUBSET SUBSET R /\ X \in T /\ Closed(T)
    BY <1>2, <2>0, <2>2, <2>3, <2>4 DEF Closed
  <2>6. Rests(R, X) \subseteq T
    BY <2>5 DEF Rests
  <2>7. X \in Rests(R, X)
    BY DEF Rests
  <2>8. ASSUME NEW Y \in Rests(R, r) PROVE Y \in Rests(R, X)
    <3>1. \A C \in SUBSET SUBSET R : X \in C /\ Closed(C) => Y \in C
      BY <1>2, <2>0, <2>8 DEF Rests, Closed
    <3> QED BY <3>1, <2>3 DEF Rests
  <2> QED BY <1>2, <2>0, <2>2, <2>6, <2>7, <2>8
<1> QED BY <1>1, <1>2

\* The cut of a set of rows exists, whatever the windows are.
LEMMA CutExists ==
  ASSUME NEW R
  PROVE  \E cut : /\ cut = [X \in SUBSET R |->
                        IF X = {} THEN {} ELSE {Window(X)} \union cut[X \ Window(X)]]
                  /\ Windows(R) = cut[R]
<1> DEFINE IsCut(c) == c = [X \in SUBSET R |->
                        IF X = {} THEN {} ELSE {Window(X)} \union c[X \ Window(X)]]
<1>1. \E c : IsCut(c)
  <2> DEFINE cut == [X \in SUBSET R |-> {Window(Y) : Y \in Rests(R, X) \ {{}}}]
  <2>1. ASSUME NEW X \in SUBSET R
        PROVE  cut[X] = IF X = {} THEN {} ELSE {Window(X)} \union cut[X \ Window(X)]
    <3>1. CASE X = {}
      BY <3>1, RestsOf
    <3>2. CASE X # {}
      <4>1. Rests(R, X) = {X} \union Rests(R, X \ Window(X))
        BY <3>2, RestsOf
      <4>2. X \ Window(X) \in SUBSET R
        OBVIOUS
      <4> QED BY <3>2, <4>1, <4>2
    <3> QED BY <3>1, <3>2
  <2>2. cut = [X \in SUBSET R |-> cut[X]]
    OBVIOUS
  <2> HIDE DEF cut
  <2>3. cut = [X \in SUBSET R |->
                  IF X = {} THEN {} ELSE {Window(X)} \union cut[X \ Window(X)]]
    BY <2>1, <2>2
  <2> QED BY <2>3
<1>2. Windows(R) = (CHOOSE c : IsCut(c))[R]
  BY DEF Windows
<1> QED BY <1>1, <1>2

\* Alerts that are not too long on their own are cut into windows of an anchor.
LEMMA WindowsAreAnchored ==
  ASSUME NEW R \in SUBSET Alerts,
         \A a \in R : EventEnd[a] - EventStart[a] <= CorrelationWindow,
         NEW w \in Windows(R)
  PROVE  \E X \in SUBSET R : X # {} /\ w = Window(X)
<1>1. PICK cut : /\ cut = [X \in SUBSET R |->
                        IF X = {} THEN {} ELSE {Window(X)} \union cut[X \ Window(X)]]
                 /\ Windows(R) = cut[R]
  BY CutExists
<1> DEFINE Anchored(v) == \E X \in SUBSET R : X # {} /\ v = Window(X)
           bad == {X \in SUBSET R : \E v \in cut[X] : ~Anchored(v)}
<1>2. ASSUME NEW X \in SUBSET R, X # {} PROVE X \ Window(X) # X
  <2>0. PICK f : f = Anchor(X)
    OBVIOUS
  <2>1. f \in X /\ \A b \in X \ {f} : Before(f, b)
    BY <1>2, <2>0, AnchorIsFirst
  <2>2. ASSUME NEW b \in X, b # f PROVE ~Before(b, f)
    <3>1. Before(f, b)
      BY <2>1, <2>2
    <3>2. /\ b \in Nat /\ f \in Nat /\ EventStart[b] \in Nat /\ EventStart[f] \in Nat
      BY <2>1, AlertTimes
    <3> QED BY <3>1, <3>2 DEF Before
  <2>3. EventEnd[f] <= EventStart[f] + CorrelationWindow
    <3>1. EventEnd[f] - EventStart[f] <= CorrelationWindow
      BY <2>1
    <3>2. EventEnd[f] \in Nat /\ EventStart[f] \in Nat
      BY <2>1, AlertTimes
    <3> QED BY <3>1, <3>2, AlertTimes
  <2>4. f \in Window(X)
    BY <2>0, <2>1, <2>2, <2>3 DEF Window
  <2> QED BY <2>1, <2>4
<1>3. IsFiniteSet(R)
  BY AlertAssumption, FS_Subset
<1>4. CASE bad # {}
  <2>1. \A X \in SUBSET R : Cardinality(X) \in Nat /\ IsFiniteSet(X)
    BY <1>3, FS_Subset, FS_CardinalityType
  <2>2. PICK n \in {Cardinality(X) : X \in bad} : \A m \in {Cardinality(X) : X \in bad} : n <= m
    <3>1. {Cardinality(X) : X \in bad} \in SUBSET Nat /\ {Cardinality(X) : X \in bad} # {}
      BY <1>4, <2>1
    <3> HIDE DEF bad
    <3> QED BY <3>1, Least
  <2>3. PICK X \in bad : Cardinality(X) = n
    BY <2>2
  <2>4. PICK v \in cut[X] : ~Anchored(v)
    BY <2>3
  <2>5. X \in SUBSET R /\ X # {}
    BY <1>1, <2>3, <2>4
  <2>6. cut[X] = {Window(X)} \union cut[X \ Window(X)]
    BY <1>1, <2>5
  <2>7. v \in cut[X \ Window(X)]
    BY <2>4, <2>5, <2>6
  <2>8. X \ Window(X) \in bad
    BY <2>4, <2>5, <2>7
  <2>9. Cardinality(X \ Window(X)) < Cardinality(X)
    <3>1. X \ Window(X) \subseteq X /\ X \ Window(X) # X
      BY <1>2, <2>5
    <3> QED BY <2>1, <2>5, <3>1, FS_Subset, FS_CardinalityType
  <2>10. Cardinality(X) <= Cardinality(X \ Window(X))
    BY <2>2, <2>3, <2>8
  <2> QED BY <2>1, <2>5, <2>9, <2>10
<1>5. CASE bad = {}
  BY <1>1, <1>5
<1> QED BY <1>4, <1>5

LEMMA WindowBounded ==
  ASSUME NEW X \in SUBSET Alerts, X # {}
  PROVE  /\ Window(X) \subseteq X
         /\ \A a, b \in Window(X) : EventEnd[b] - EventStart[a] <= CorrelationWindow
<1>1. Window(X) \subseteq X
  BY DEF Window
<1>2. ASSUME NEW a \in Window(X), NEW b \in Window(X)
      PROVE  EventEnd[b] - EventStart[a] <= CorrelationWindow
  <2>0. PICK f : f = Anchor(X)
    OBVIOUS
  <2>1. /\ a \in X /\ b \in X /\ f \in X
        /\ a = f \/ Before(f, a)
    BY <1>1, <2>0, AnchorIsFirst
  <2>2. EventEnd[b] <= EventStart[f] + CorrelationWindow
    BY <2>0, <2>1 DEF Window
  <2>3. /\ EventStart[f] \in Nat /\ EventStart[a] \in Nat /\ EventEnd[b] \in Nat
    BY <2>1, AlertTimes
  <2>4. EventStart[f] <= EventStart[a]
    BY <2>1, <2>3 DEF Before
  <2> QED BY <2>2, <2>3, <2>4, AlertTimes
<1> QED BY <1>1, <1>2

-----------------------------------------------------------------------------
\* What GroupsBounded says of one group.
Bounded(g) ==
    /\ Cardinality(g.alerts) >= MinimumAlerts
    /\ g.entity_keys # {}
    /\ \A a, b \in g.alerts :
         /\ g.entity_keys \subseteq EntityKeys[a]
         /\ EventEnd[b] - EventStart[a] <= CorrelationWindow

\* A cluster is a window of the rows of its entity.
LEMMA ClusterBounded ==
  ASSUME NEW S \in AcceptableRuns, NEW c \in Clusters(S)
  PROVE  /\ c.entity_key \in Entities /\ c.alerts \subseteq S
         /\ Cardinality(c.alerts) >= MinimumAlerts
         /\ \A a, b \in c.alerts :
              /\ c.entity_key \in EntityKeys[a]
              /\ EventEnd[b] - EventStart[a] <= CorrelationWindow
<1>1. PICK e \in Entities : \E w \in Windows(Rows(S, e)) :
        c = [entity_key |-> e, alerts |-> w] /\ Cardinality(w) >= MinimumAlerts
  BY DEF Clusters
<1>0. PICK w \in Windows(Rows(S, e)) :
        c = [entity_key |-> e, alerts |-> w] /\ Cardinality(w) >= MinimumAlerts
  BY <1>1
<1>2. Rows(S, e) \in SUBSET Alerts /\ Rows(S, e) \subseteq S
  BY DEF Rows, AcceptableRuns
<1>3. \A a \in Rows(S, e) : EventEnd[a] - EventStart[a] <= CorrelationWindow
  BY <1>2 DEF AcceptableRuns
<1>4. PICK X \in SUBSET Rows(S, e) : X # {} /\ w = Window(X)
  BY <1>2, <1>3, WindowsAreAnchored
<1>5. /\ w \subseteq Rows(S, e)
      /\ \A a, b \in w : EventEnd[b] - EventStart[a] <= CorrelationWindow
  BY <1>2, <1>4, WindowBounded
<1> QED BY <1>0, <1>2, <1>5 DEF Rows

LEMMA GroupBounded ==
  ASSUME NEW S \in AcceptableRuns, NEW g \in CorrelatedGroups[S]
  PROVE  Bounded(g)
<1>1. PICK members \in {m \in SUBSET S : \E c \in Clusters(S) : c.alerts = m} :
        g = [alerts      |-> members,
             entity_keys |-> {c.entity_key : c \in {d \in Clusters(S) : d.alerts = members}}]
  BY DEF CorrelatedGroups, AcceptableRuns
<1>2. PICK c \in Clusters(S) : c.alerts = members
  BY <1>1
<1>3. g.alerts = members /\ c.entity_key \in g.entity_keys
  BY <1>1, <1>2
<1>4. \A e \in g.entity_keys : \A a \in members : e \in EntityKeys[a]
  <2> SUFFICES ASSUME NEW e \in g.entity_keys, NEW a \in members PROVE e \in EntityKeys[a]
    OBVIOUS
  <2>1. PICK d \in Clusters(S) : d.alerts = members /\ d.entity_key = e
    BY <1>1
  <2> QED BY <2>1, ClusterBounded
<1> QED BY <1>2, <1>3, <1>4, ClusterBounded DEF Bounded

\* Only accepted runs store groups.
LEMMA GroupsBoundedStep == IInv /\ GroupsBounded /\ [Next]_vars => GroupsBounded'
<1> SUFFICES ASSUME IInv, GroupsBounded, [Next]_vars PROVE GroupsBounded'
  OBVIOUS
<1>1. ASSUME NEW S \in AcceptableRuns, StoreGroups(CorrelatedGroups[S]) PROVE GroupsBounded'
  <2> SUFFICES ASSUME NEW r \in groups' PROVE Bounded(r.id)
    BY DEF GroupsBounded, Bounded
  <2>1. CASE r \in groups
    BY <2>1 DEF GroupsBounded, Bounded
  <2>2. CASE r \notin groups
    BY <1>1, <2>2, NewGroups, GroupBounded
  <2> QED BY <2>1, <2>2
<1>2. CASE Correlate \/ Complete
  <2>1. Acceptable(JobAlerts) /\ StoreGroups(JobGroups)
    BY <1>2 DEF Correlate, Complete, RunDownstream
  <2> QED BY <1>1, <2>1 DEF Acceptable, JobGroups
<1>3. CASE CorrelateAll
  BY <1>1, <1>3 DEF CorrelateAll, Acceptable
<1>4. CASE UNCHANGED groups
  BY <1>4 DEF GroupsBounded
<1>5. CASE \/ Claim \/ Read \/ PersistBatch \/ RefuseBatch \/ RefuseDownstream \/ DatabaseError
           \/ Interrupt \/ Recover \/ GenerateAll \/ UNCHANGED vars
           \/ \E f \in Flows, verdict \in Verdicts : GiveVerdict(f, verdict)
           \/ \E f \in Flows : ScoreFlow(f)
  <2>1. UNCHANGED groups
    BY <1>5 DEF Claim, Read, PersistBatch, RefuseBatch, RefuseDownstream, DatabaseError, Fail,
                Interrupt, Recover, GenerateAll, GiveVerdict, ScoreFlow, evidence, vars
  <2> QED BY <1>4, <2>1
<1> QED BY <1>2, <1>3, <1>5 DEF Next, Work

\* A stored group has enough alerts, all of them with every entity of its identity, and
\* spans no more than the correlation window, for every set of alerts and policy.
THEOREM GroupsStayBounded == Spec => []GroupsBounded
<1>1. Init => GroupsBounded
  BY DEF Init, GroupsBounded
<1> QED BY <1>1, GroupsBoundedStep, InvariantHolds, PTL DEF Spec

-----------------------------------------------------------------------------
(* Totals over the attempts.                                               *)

\* g adds up what the attempts s created of o.
Adds(s, o, g, k) == g[0] = 0 /\ \A i \in 1..k : g[i] = g[i - 1] + s[i][o].created

LEMMA AddsAgree ==
  ASSUME NEW s, NEW t, NEW o, NEW g, NEW h, NEW k \in Nat, Adds(s, o, g, k), Adds(t, o, h, k),
         \A i \in 1..k : s[i][o].created = t[i][o].created
  PROVE  \A i \in 0..k : g[i] = h[i]
<1> DEFINE bad == {i \in 0..k : g[i] # h[i]}
<1>1. CASE bad = {}
  BY <1>1
<1>2. CASE bad # {}
  <2>1. bad \in SUBSET Nat
    OBVIOUS
  <2>2. PICK m \in bad : \A i \in bad : m <= i
    <3> HIDE DEF bad
    <3> QED BY <1>2, <2>1, Least
  <2>3. m \in 1..k
    BY DEF Adds
  <2>4. m - 1 \in 0..k /\ m - 1 \notin bad
    BY <2>2, <2>3
  <2>5. g[m - 1] = h[m - 1]
    BY <2>4
  <2> QED BY <2>3, <2>5 DEF Adds
<1> QED BY <1>1, <1>2

LEMMA AddsExist ==
  ASSUME NEW s \in Seq(Counters), NEW o \in Output
  PROVE  \E g \in [0..Len(s) -> Nat] : Adds(s, o, g, Len(s))
<1> DEFINE Sums(k) == \E g \in [0..k -> Nat] : Adds(s, o, g, k)
           bad == {k \in 0..Len(s) : ~Sums(k)}
<1>1. CASE bad = {}
  <2>1. Len(s) \in 0..Len(s)
    OBVIOUS
  <2> QED BY <1>1, <2>1
<1>2. CASE bad # {}
  <2>0. bad \in SUBSET Nat
    OBVIOUS
  <2>1. PICK m \in bad : \A k \in bad : m <= k
    <3> HIDE DEF bad, Sums
    <3> QED BY <1>2, <2>0, Least
  <2>2. m # 0
    <3>1. [i \in 0..0 |-> 0] \in [0..0 -> Nat] /\ Adds(s, o, [i \in 0..0 |-> 0], 0)
      BY DEF Adds
    <3> QED BY <3>1
  <2>3. m \in 1..Len(s) /\ m - 1 \in 0..Len(s) /\ m - 1 \notin bad
    <3>1. bad \subseteq 0..Len(s) /\ Len(s) \in Nat
      OBVIOUS
    <3> HIDE DEF bad, Sums
    <3>2. m \in 0..Len(s)
      BY <2>1, <3>1
    <3>3. ~(m <= m - 1)
      BY <3>1, <3>2
    <3> QED BY <2>1, <2>2, <3>1, <3>2, <3>3
  <2>4. PICK g \in [0..(m - 1) -> Nat] : Adds(s, o, g, m - 1)
    BY <2>3
  <2>5. s[m] \in Counters
    BY <2>3
  <2>6. s[m][o].created \in Nat
    BY <2>5 DEF Counters
  <2>7. PICK h : h = [i \in 0..m |-> IF i = m THEN g[m - 1] + s[m][o].created ELSE g[i]]
    OBVIOUS
  <2>8. h \in [0..m -> Nat]
    BY <2>3, <2>4, <2>6, <2>7
  <2>9. h[0] = 0
    BY <2>3, <2>4, <2>7 DEF Adds
  <2>10. ASSUME NEW i \in 1..m PROVE h[i] = h[i - 1] + s[i][o].created
    <3>1. i - 1 \in 0..m /\ i \in 0..m /\ i - 1 # m
      BY <2>3
    <3>2. h[i - 1] = g[i - 1]
      BY <2>7, <3>1
    <3>3. CASE i = m
      BY <2>7, <3>1, <3>2, <3>3
    <3>4. CASE i # m
      <4>1. i \in 1..(m - 1)
        BY <2>3, <3>4
      <4>2. g[i] = g[i - 1] + s[i][o].created
        BY <2>4, <4>1 DEF Adds
      <4> QED BY <2>7, <3>1, <3>2, <3>4, <4>2
    <3> QED BY <3>3, <3>4
  <2> QED BY <2>8, <2>9, <2>10 DEF Adds
<1> QED BY <1>1, <1>2

\* The total is what any such function ends with.
LEMMA TotalIs ==
  ASSUME NEW s \in Seq(Counters), NEW o \in Output,
         NEW g, Adds(s, o, g, Len(s))
  PROVE  Total(s, o) = g[Len(s)] /\ Total(s, o) \in Nat
<1> DEFINE N == Len(s)
           IsSum(c) == c = [n \in 0..N |-> IF n = 0 THEN 0 ELSE c[n - 1] + s[n][o].created]
<1>1. N \in Nat
  OBVIOUS
<1>2. PICK h \in [0..N -> Nat] : Adds(s, o, h, N)
  BY AddsExist
<1>3. IsSum(h)
  <2>1. h = [n \in 0..N |-> h[n]]
    OBVIOUS
  <2>2. \A n \in 0..N : h[n] = IF n = 0 THEN 0 ELSE h[n - 1] + s[n][o].created
    BY <1>1, <1>2 DEF Adds
  <2> HIDE DEF N
  <2>3. h = [n \in 0..N |-> IF n = 0 THEN 0 ELSE h[n - 1] + s[n][o].created]
    BY <2>1, <2>2
  <2> QED BY <2>3
<1>4. PICK c : IsSum(c) /\ Total(s, o) = c[N]
  <2>1. Total(s, o) = (CHOOSE c : IsSum(c))[N]
    BY DEF Total
  <2> QED BY <1>3, <2>1
<1>5. Adds(s, o, c, N)
  <2>1. c = [n \in 0..N |-> IF n = 0 THEN 0 ELSE c[n - 1] + s[n][o].created]
    BY <1>4
  <2>2. \A n \in 0..N : c[n] = IF n = 0 THEN 0 ELSE c[n - 1] + s[n][o].created
    BY <2>1
  <2> QED BY <1>1, <2>2 DEF Adds
<1>6. c[N] = g[N] /\ c[N] = h[N]
  BY <1>1, <1>2, <1>5, AddsAgree
<1> QED BY <1>1, <1>2, <1>4, <1>6

LEMMA TotalType ==
  ASSUME NEW s \in Seq(Counters), NEW o \in Output PROVE Total(s, o) \in Nat
  BY AddsExist, TotalIs

\* A new attempt has created nothing.
LEMMA TotalAppend ==
  ASSUME NEW s \in Seq(Counters), NEW o \in Output
  PROVE  Total(Append(s, NoCounters), o) = Total(s, o)
<1>1. PICK t : t = Append(s, NoCounters)
  OBVIOUS
<1>2. NoCounters \in Counters
  BY DEF NoCounters, Counters
<1>3. t \in Seq(Counters) /\ Len(t) = Len(s) + 1 /\ Len(s) \in Nat
  BY <1>1, <1>2
<1>4. /\ \A i \in 1..Len(s) : t[i] = s[i]
      /\ t[Len(t)] = NoCounters
  BY <1>1, <1>2, <1>3
<1>5. PICK g : Adds(s, o, g, Len(s))
  BY AddsExist
<1>6. PICK h : Adds(t, o, h, Len(t))
  BY <1>3, AddsExist
<1>7. Adds(t, o, h, Len(s))
  BY <1>3, <1>6 DEF Adds
<1>8. h[Len(s)] = g[Len(s)]
  BY <1>3, <1>4, <1>5, <1>7, AddsAgree
<1>9. h[Len(t)] = h[Len(s)] + t[Len(t)][o].created
  BY <1>3, <1>6 DEF Adds
<1>10. t[Len(t)][o].created = 0
  BY <1>4 DEF NoCounters
<1>11. g[Len(s)] \in Nat
  BY <1>5, TotalIs
<1>12. h[Len(t)] = g[Len(s)]
  BY <1>8, <1>9, <1>10, <1>11
<1>13. Total(t, o) = h[Len(t)] /\ Total(s, o) = g[Len(s)]
  BY <1>3, <1>5, <1>6, TotalIs
<1> QED BY <1>1, <1>12, <1>13

\* What a transaction is credited with is added to the current attempt.
LEMMA TotalCount ==
  ASSUME attempts \in Seq(Counters), Attempt > 0,
         NEW credit \in Counters, Count(credit), NEW o \in Output
  PROVE  Created(o)' = Created(o) + credit[o].created
<1> DEFINE n == Attempt
           added == [p \in Output |-> [created |-> attempts[n][p].created + credit[p].created,
                                       reused  |-> attempts[n][p].reused + credit[p].reused]]
<1>1. n \in 1..Len(attempts) /\ attempts[n] \in Counters /\ n = Len(attempts)
  BY DEF Attempt
<1>2. added \in Counters
  BY <1>1 DEF Counters
<1>3. attempts' = [attempts EXCEPT ![n] = added]
  BY DEF Count
<1>4. /\ attempts' \in Seq(Counters) /\ Len(attempts') = n /\ attempts'[n] = added
      /\ \A i \in 1..(n - 1) : attempts'[i] = attempts[i]
  BY <1>1, <1>2, <1>3
<1>5. added[o].created = attempts[n][o].created + credit[o].created
  OBVIOUS
<1>6. attempts[n][o].created \in Nat /\ credit[o].created \in Nat
  BY <1>1 DEF Counters
<1> HIDE DEF added
<1>7. PICK g : Adds(attempts, o, g, n)
  BY <1>1, AddsExist
<1>8. PICK t : t = attempts'
  OBVIOUS
<1>9. PICK h : Adds(t, o, h, n)
  BY <1>4, <1>8, AddsExist
<1>10. Adds(t, o, h, n - 1) /\ Adds(attempts, o, g, n - 1) /\ n - 1 \in Nat
  BY <1>1, <1>7, <1>9 DEF Adds
<1>11. g[n - 1] = h[n - 1]
  BY <1>4, <1>8, <1>10, AddsAgree
<1>12. /\ g[n] = g[n - 1] + attempts[n][o].created
       /\ h[n] = h[n - 1] + t[n][o].created
  BY <1>1, <1>7, <1>9 DEF Adds
<1>13. Total(attempts, o) = g[n] /\ Total(t, o) = h[n] /\ g[n] \in Nat
  BY <1>1, <1>4, <1>7, <1>8, <1>9, TotalIs
<1>14. g[n - 1] \in Nat
  <2>1. PICK k \in [0..n -> Nat] : Adds(attempts, o, k, n)
    BY <1>1, AddsExist
  <2>2. g[n - 1] = k[n - 1]
    <3>1. n \in Nat /\ n - 1 \in 0..n
      BY <1>1
    <3> QED BY <1>7, <2>1, <3>1, AddsAgree
  <2> QED BY <1>1, <2>1, <2>2
<1>15. h[n] = g[n] + credit[o].created
  BY <1>4, <1>5, <1>6, <1>8, <1>11, <1>12, <1>14
<1> QED BY <1>8, <1>13, <1>15 DEF Created

-----------------------------------------------------------------------------
(* What the replay itself has stored.                                      *)

\* Strangers' rows and what a worker has seen are stored rows, and a hypothesis
\* has its group.
Known ==
    /\ foreign.flows \subseteq flows
    /\ foreign.detections \subseteq detections
    /\ foreign.groups \subseteq Stored
    /\ foreign.hypotheses \subseteq hypotheses
    /\ observed.groups \subseteq Stored
    /\ observed.hypotheses \subseteq hypotheses
    /\ hypotheses \subseteq Stored
    /\ IsFiniteSet(Stored)

KInv == CInv /\ Known /\ CreatedOnce

\* The rows CreatedOnce counts.
OwnFlows == flows \ foreign.flows
OwnDetections == detections \ foreign.detections
OwnGroups == Stored \ foreign.groups
OwnHypotheses == hypotheses \ foreign.hypotheses

LEMMA OwnFinite ==
  ASSUME CInv, Known
  PROVE  /\ IsFiniteSet(OwnFlows) /\ IsFiniteSet(OwnDetections)
         /\ IsFiniteSet(OwnDetections \intersect Alerts)
         /\ IsFiniteSet(OwnGroups) /\ IsFiniteSet(OwnHypotheses)
<1>1. flows \subseteq Flows /\ detections \subseteq Flows
  BY DEF CInv, IInv, Evidence
<1>2. IsFiniteSet(OwnFlows) /\ IsFiniteSet(OwnDetections \intersect Alerts)
      /\ IsFiniteSet(OwnDetections)
  BY <1>1, FlowsFinite DEF OwnFlows, OwnDetections
<1>3. OwnGroups \subseteq Stored /\ OwnHypotheses \subseteq Stored
  BY DEF Known, OwnGroups, OwnHypotheses
<1> QED BY <1>2, <1>3, FS_Subset DEF Known

\* Rows that are stored and credited together stay counted once.
LEMMA OwnGrows ==
  ASSUME CInv, Attempt > 0, NEW credit \in Counters, Count(credit), NEW o \in Output,
         NEW S, IsFiniteSet(S), Created(o) = Cardinality(S),
         NEW T, IsFiniteSet(T), S \intersect T = {}, credit[o].created = Cardinality(T)
  PROVE  Created(o)' = Cardinality(S \union T)
<1>1. T \ S = T
  OBVIOUS
<1>2. Cardinality(S \union T) = Cardinality(S) + Cardinality(T \ S)
  BY Grow
<1>3. Created(o)' = Created(o) + credit[o].created
  BY TotalCount DEF CInv, Typed
<1>4. Cardinality(T \ S) = Cardinality(T)
  BY <1>1
<1> QED BY <1>2, <1>3, <1>4

\* What a step must do that creates nothing.
LEMMA OwnStays ==
  ASSUME KInv, \A o \in Output : Created(o)' = Created(o),
         OwnFlows' = OwnFlows, OwnDetections' = OwnDetections,
         OwnGroups' = OwnGroups, OwnHypotheses' = OwnHypotheses
  PROVE  CreatedOnce'
  BY DEF KInv, CreatedOnce, OwnFlows, OwnDetections, OwnGroups, OwnHypotheses, Output

LEMMA BatchOwn ==
  ASSUME KInv, PersistBatch
  PROVE  Known' /\ CreatedOnce'
<1>1. /\ Attempt > 0 /\ ~LedgerConflict /\ ~ForeignDetection
      /\ Store(Fresh) /\ Count(BatchCredit(Fresh))
      /\ UNCHANGED <<groups, hypotheses, observed, foreign>>
  BY DEF PersistBatch, KInv, CInv, Counting
<1>2. PICK credit : credit = BatchCredit(Fresh)
  OBVIOUS
<1>3. credit \in Counters /\ Count(credit)
  BY <1>1, <1>2, BatchCredits DEF KInv, CInv
<1>4. /\ credit["flows"].created = Cardinality(Fresh \ flows)
      /\ credit["detections"].created = Cardinality(Fresh)
      /\ credit["alerts"].created = Cardinality(Fresh \intersect Alerts)
      /\ credit["groups"].created = 0
      /\ credit["hypotheses"].created = 0
  BY <1>2 DEF BatchCredit, Credit, Nothing
<1>5. Fresh \subseteq Flows /\ Fresh \intersect detections = {}
  BY <1>1 DEF Fresh, ForeignDetection, KInv, CInv, IInv, Progress
<1>6. flows' = flows \union Fresh /\ detections' = detections \union Fresh
  BY <1>1 DEF Store
<1>7. Stored' = Stored
  BY <1>1 DEF Stored
<1>8. Known'
  BY <1>1, <1>6, <1>7 DEF KInv, Known
<1>9. /\ OwnFlows' = OwnFlows \union (Fresh \ flows)
      /\ OwnFlows \intersect (Fresh \ flows) = {}
      /\ OwnDetections' = OwnDetections \union Fresh
      /\ OwnDetections \intersect Fresh = {}
      /\ (OwnDetections \intersect Alerts)' =
           (OwnDetections \intersect Alerts) \union (Fresh \intersect Alerts)
      /\ (OwnDetections \intersect Alerts) \intersect (Fresh \intersect Alerts) = {}
      /\ OwnGroups' = OwnGroups /\ OwnHypotheses' = OwnHypotheses
  BY <1>1, <1>5, <1>6, <1>7 DEF KInv, Known, OwnFlows, OwnDetections, OwnGroups, OwnHypotheses
<1>10. /\ IsFiniteSet(Fresh \ flows) /\ IsFiniteSet(Fresh) /\ IsFiniteSet(Fresh \intersect Alerts)
  BY <1>5, FlowsFinite
<1>11. /\ IsFiniteSet(OwnFlows) /\ IsFiniteSet(OwnDetections)
       /\ IsFiniteSet(OwnDetections \intersect Alerts)
       /\ IsFiniteSet(OwnGroups) /\ IsFiniteSet(OwnHypotheses)
  BY OwnFinite DEF KInv
<1>12. /\ Created("flows") = Cardinality(OwnFlows)
       /\ Created("detections") = Cardinality(OwnDetections)
       /\ Created("alerts") = Cardinality(OwnDetections \intersect Alerts)
       /\ Created("groups") = Cardinality(OwnGroups)
       /\ Created("hypotheses") = Cardinality(OwnHypotheses)
  BY DEF KInv, CreatedOnce, OwnFlows, OwnDetections, OwnGroups, OwnHypotheses
<1>13. CInv
  BY DEF KInv
<1>14. Created("flows")' = Cardinality(OwnFlows \union (Fresh \ flows))
  BY <1>1, <1>3, <1>4, <1>9, <1>10, <1>11, <1>12, <1>13, OwnGrows DEF Output
<1>15. Created("detections")' = Cardinality(OwnDetections \union Fresh)
  BY <1>1, <1>3, <1>4, <1>9, <1>10, <1>11, <1>12, <1>13, OwnGrows DEF Output
<1>16. Created("alerts")' =
         Cardinality((OwnDetections \intersect Alerts) \union (Fresh \intersect Alerts))
  BY <1>1, <1>3, <1>4, <1>9, <1>10, <1>11, <1>12, <1>13, OwnGrows DEF Output
<1>17. Created("groups")' = Created("groups") /\ Created("hypotheses")' = Created("hypotheses")
  <2>1. Created("groups") \in Nat /\ Created("hypotheses") \in Nat
    BY <1>13, TotalType DEF Created, CInv, Typed, Output
  <2>2. \A o \in Output : Created(o)' = Created(o) + credit[o].created
    BY <1>1, <1>3, <1>13, TotalCount DEF CInv, Typed
  <2> QED BY <1>4, <2>1, <2>2 DEF Output
<1>18. /\ Created("flows")' = Cardinality(OwnFlows')
       /\ Created("detections")' = Cardinality(OwnDetections')
       /\ Created("alerts")' = Cardinality((OwnDetections \intersect Alerts)')
       /\ Created("groups")' = Cardinality(OwnGroups')
       /\ Created("hypotheses")' = Cardinality(OwnHypotheses')
  BY <1>9, <1>12, <1>14, <1>15, <1>16, <1>17
<1> QED BY <1>8, <1>18 DEF CreatedOnce, OwnFlows, OwnDetections, OwnGroups, OwnHypotheses

\* The groups of an accepted correlation hold alerts of the job.
LEMMA JobGroupsTouch ==
  ASSUME Acceptable(JobAlerts), NEW g \in JobGroups
  PROVE  g.alerts \intersect JobAlerts # {}
<1>1. Eligible(JobAlerts) \in AcceptableRuns /\ Eligible(JobAlerts) \in SUBSET Alerts
      /\ Eligible(JobAlerts) \subseteq JobAlerts
  BY DEF Acceptable, Eligible, JobAlerts
<1>2. g.alerts \subseteq JobAlerts
  BY <1>1, GroupAlerts DEF JobGroups
<1>3. Cardinality(g.alerts) >= MinimumAlerts
  BY <1>1, GroupBounded DEF JobGroups, Bounded
<1>4. g.alerts # {}
  <2> SUFFICES ASSUME g.alerts = {} PROVE FALSE
    OBVIOUS
  <2>1. Cardinality(g.alerts) = 0
    BY FS_EmptySet
  <2> QED BY <1>3, <2>1, PolicyAssumption
<1> QED BY <1>2, <1>4

\* What a correlation is credited with creating is what it stores.
LEMMA DownstreamCreates ==
  ASSUME Known, Acceptable(JobAlerts)
  PROVE  LET credit == DownstreamCredit(JobGroups)
         IN  /\ credit["flows"].created = 0
             /\ credit["detections"].created = 0
             /\ credit["alerts"].created = 0
             /\ credit["groups"].created = Cardinality(JobGroups \ Stored)
             /\ credit["hypotheses"].created = Cardinality(Generated(JobGroups) \ hypotheses)
<1> DEFINE before == {g \in Stored : g.alerts \intersect JobAlerts # {}}
           gs == (JobGroups \ observed.groups) \ before
           hs == (Generated(JobGroups) \ observed.hypotheses) \ (hypotheses \intersect before)
<1>1. gs = JobGroups \ Stored
  BY JobGroupsTouch DEF Known
<1>2. hs = Generated(JobGroups) \ hypotheses
  <2>1. Generated(JobGroups) \subseteq JobGroups
    BY DEF Generated
  <2> QED BY <2>1, JobGroupsTouch DEF Known
<1>3. PICK credit : credit = DownstreamCredit(JobGroups)
  OBVIOUS
<1>4. /\ \A o \in {"flows", "detections", "alerts"} : credit[o] = [created |-> 0, reused |-> 0]
      /\ credit["groups"].created = Cardinality(gs)
      /\ credit["hypotheses"].created = Cardinality(hs)
  BY <1>3 DEF DownstreamCredit, Credit, NoCounters, Output
<1> HIDE DEF gs, hs
<1> QED BY <1>1, <1>2, <1>3, <1>4

LEMMA CorrelateOwn ==
  ASSUME KInv, Correlate \/ Complete
  PROVE  Known' /\ CreatedOnce'
<1>1. /\ Attempt > 0 /\ Acceptable(JobAlerts) /\ StoreGroups(JobGroups)
      /\ hypotheses' = hypotheses \union Generated(JobGroups)
      /\ Count(DownstreamCredit(JobGroups))
      /\ UNCHANGED <<flows, detections, foreign>>
  BY DEF Correlate, Complete, RunDownstream, history, KInv, CInv, Counting
<1>2. CInv /\ Known
  BY DEF KInv
<1>3. IsFiniteSet(JobGroups) /\ Generated(JobGroups) \subseteq JobGroups
  BY JobGroupsFinite DEF Generated
<1>4. PICK credit : credit = DownstreamCredit(JobGroups)
  OBVIOUS
<1>5. credit \in Counters /\ Count(credit)
  BY <1>1, <1>3, <1>4, DownstreamCredits
<1>6. /\ credit["flows"].created = 0
      /\ credit["detections"].created = 0
      /\ credit["alerts"].created = 0
      /\ credit["groups"].created = Cardinality(JobGroups \ Stored)
      /\ credit["hypotheses"].created = Cardinality(Generated(JobGroups) \ hypotheses)
  BY <1>1, <1>2, <1>4, DownstreamCreates
<1>7. Stored' = Stored \union JobGroups
  BY <1>1, StoredGrow
<1>8. Known'
  <2>1. /\ observed'.groups \subseteq Stored'
        /\ observed'.hypotheses \subseteq hypotheses'
    <3>1. CASE Correlate
      <4>1. /\ observed'.groups = observed.groups \union JobGroups
            /\ observed'.hypotheses = observed.hypotheses \union Generated(JobGroups)
        BY <3>1 DEF Correlate
      <4> QED BY <1>1, <1>2, <1>7, <4>1 DEF Known
    <3>2. CASE Complete
      BY <3>2 DEF Complete, StopWorker
    <3> QED BY <3>1, <3>2
  <2>2. IsFiniteSet(Stored')
    BY <1>2, <1>3, <1>7, FS_Union DEF Known
  <2> QED BY <1>1, <1>2, <1>3, <1>7, <2>1, <2>2 DEF Known
<1>9. /\ OwnFlows' = OwnFlows /\ OwnDetections' = OwnDetections
      /\ OwnGroups' = OwnGroups \union (JobGroups \ Stored)
      /\ OwnGroups \intersect (JobGroups \ Stored) = {}
      /\ OwnHypotheses' = OwnHypotheses \union (Generated(JobGroups) \ hypotheses)
      /\ OwnHypotheses \intersect (Generated(JobGroups) \ hypotheses) = {}
  BY <1>1, <1>2, <1>7 DEF Known, OwnFlows, OwnDetections, OwnGroups, OwnHypotheses
<1>10. /\ IsFiniteSet(JobGroups \ Stored)
       /\ IsFiniteSet(Generated(JobGroups) \ hypotheses)
  BY <1>3, FS_Subset
<1>11. IsFiniteSet(OwnGroups) /\ IsFiniteSet(OwnHypotheses)
  BY <1>2, OwnFinite
<1>12. /\ Created("flows") = Cardinality(OwnFlows)
       /\ Created("detections") = Cardinality(OwnDetections)
       /\ Created("alerts") = Cardinality(OwnDetections \intersect Alerts)
       /\ Created("groups") = Cardinality(OwnGroups)
       /\ Created("hypotheses") = Cardinality(OwnHypotheses)
  BY DEF KInv, CreatedOnce, OwnFlows, OwnDetections, OwnGroups, OwnHypotheses
<1>13. \A o \in {"flows", "detections", "alerts"} : Created(o)' = Created(o)
  <2>1. \A o \in Output : Created(o) \in Nat /\ Created(o)' = Created(o) + credit[o].created
    BY <1>1, <1>2, <1>5, TotalCount, TotalType DEF Created, CInv, Typed
  <2> QED BY <1>6, <2>1 DEF Output
<1>14. Created("groups")' = Cardinality(OwnGroups \union (JobGroups \ Stored))
  BY <1>1, <1>2, <1>5, <1>6, <1>9, <1>10, <1>11, <1>12, OwnGrows DEF Output
<1>15. Created("hypotheses")' =
         Cardinality(OwnHypotheses \union (Generated(JobGroups) \ hypotheses))
  BY <1>1, <1>2, <1>5, <1>6, <1>9, <1>10, <1>11, <1>12, OwnGrows DEF Output
<1>16. /\ Created("flows")' = Cardinality(OwnFlows')
       /\ Created("detections")' = Cardinality(OwnDetections')
       /\ Created("alerts")' = Cardinality((OwnDetections \intersect Alerts)')
       /\ Created("groups")' = Cardinality(OwnGroups')
       /\ Created("hypotheses")' = Cardinality(OwnHypotheses')
  BY <1>9, <1>12, <1>13, <1>14, <1>15
<1> QED BY <1>8, <1>16 DEF CreatedOnce, OwnFlows, OwnDetections, OwnGroups, OwnHypotheses

\* What others store is foreign at once.
LEMMA ForeignOwn ==
  ASSUME KInv, (\E f \in Flows : ScoreFlow(f)) \/ CorrelateAll \/ GenerateAll
  PROVE  Known' /\ CreatedOnce'
<1>1. CInv /\ Known /\ UNCHANGED <<attempts, observed>>
  BY DEF KInv, ScoreFlow, CorrelateAll, GenerateAll, job, worker
<1>2. \A o \in Output : Created(o)' = Created(o)
  BY <1>1 DEF Created
<1>3. foreign \in [flows : SUBSET Flows, detections : SUBSET Flows,
                   groups : SUBSET GroupId, hypotheses : SUBSET GroupId]
  BY <1>1 DEF CInv, Typed
<1>4. CASE \E f \in Flows : ScoreFlow(f)
  <2>1. PICK f \in flows \ detections : ScoreFlow(f)
    BY <1>4 DEF ScoreFlow
  <2>2. /\ flows' = flows \union {f} /\ detections' = detections \union {f}
        /\ foreign'.flows = foreign.flows
        /\ foreign'.detections = foreign.detections \union {f}
        /\ foreign'.groups = foreign.groups /\ foreign'.hypotheses = foreign.hypotheses
        /\ Stored' = Stored /\ hypotheses' = hypotheses
    BY <1>3, <2>1 DEF ScoreFlow, Store, Stored
  <2>3. Known'
    BY <1>1, <2>2 DEF Known
  <2>4. /\ OwnFlows' = OwnFlows /\ OwnDetections' = OwnDetections
        /\ OwnGroups' = OwnGroups /\ OwnHypotheses' = OwnHypotheses
    BY <2>1, <2>2 DEF OwnFlows, OwnDetections, OwnGroups, OwnHypotheses
  <2> QED BY <1>2, <2>3, <2>4, OwnStays
<1>5. CASE CorrelateAll
  <2>1. PICK ids : /\ ids = CorrelatedGroups[Eligible({f \in Flows : alert[f] # NoAlert})]
                   /\ StoreGroups(ids)
                   /\ foreign' = [foreign EXCEPT !.groups = @ \union (ids \ Stored)]
                   /\ UNCHANGED <<flows, detections, hypotheses>>
    BY <1>5 DEF CorrelateAll
  <2>2. IsFiniteSet(ids)
    <3>1. Eligible({f \in Flows : alert[f] # NoAlert}) \in SUBSET Alerts
      BY <1>1 DEF Eligible, CInv, IInv, Evidence
    <3> QED BY <2>1, <3>1, GroupsFinite
  <2>3. /\ foreign'.flows = foreign.flows /\ foreign'.detections = foreign.detections
        /\ foreign'.groups = foreign.groups \union (ids \ Stored)
        /\ foreign'.hypotheses = foreign.hypotheses
    BY <1>3, <2>1
  <2>4. Stored' = Stored \union ids
    BY <2>1, StoredGrow
  <2>5. IsFiniteSet(Stored')
    BY <1>1, <2>2, <2>4, FS_Union DEF Known
  <2>6. Known'
    BY <1>1, <2>1, <2>3, <2>4, <2>5 DEF Known
  <2>7. /\ OwnFlows' = OwnFlows /\ OwnDetections' = OwnDetections
        /\ OwnGroups' = OwnGroups /\ OwnHypotheses' = OwnHypotheses
    BY <1>1, <2>1, <2>3, <2>4 DEF Known, OwnFlows, OwnDetections, OwnGroups, OwnHypotheses
  <2> QED BY <1>2, <2>6, <2>7, OwnStays
<1>6. CASE GenerateAll
  <2>1. /\ hypotheses' = hypotheses \union Generated(Stored)
        /\ foreign'.flows = foreign.flows /\ foreign'.detections = foreign.detections
        /\ foreign'.groups = foreign.groups
        /\ foreign'.hypotheses = foreign.hypotheses \union (Generated(Stored) \ hypotheses)
        /\ UNCHANGED <<flows, detections, groups>>
    BY <1>3, <1>6 DEF GenerateAll
  <2>2. Stored' = Stored /\ Generated(Stored) \subseteq Stored
    BY <2>1 DEF Stored, Generated
  <2>3. Known'
    BY <1>1, <2>1, <2>2 DEF Known
  <2>4. /\ OwnFlows' = OwnFlows /\ OwnDetections' = OwnDetections
        /\ OwnGroups' = OwnGroups /\ OwnHypotheses' = OwnHypotheses
    BY <1>1, <2>1, <2>2 DEF Known, OwnFlows, OwnDetections, OwnGroups, OwnHypotheses
  <2> QED BY <1>2, <2>3, <2>4, OwnStays
<1> QED BY <1>4, <1>5, <1>6

\* All other steps store no row and count none.
LEMMA OthersOwn ==
  ASSUME KInv, UNCHANGED <<flows, detections, groups, hypotheses, foreign>>,
         UNCHANGED attempts \/ attempts' = Append(attempts, NoCounters),
         \/ UNCHANGED observed
         \/ observed' = [groups |-> {}, hypotheses |-> {}]
  PROVE  Known' /\ CreatedOnce'
<1>1. Stored' = Stored
  BY DEF Stored
<1>2. \A o \in Output : Created(o)' = Created(o)
  BY TotalAppend DEF Created, KInv, CInv, Typed
<1>3. /\ OwnFlows' = OwnFlows /\ OwnDetections' = OwnDetections
      /\ OwnGroups' = OwnGroups /\ OwnHypotheses' = OwnHypotheses
  BY <1>1 DEF OwnFlows, OwnDetections, OwnGroups, OwnHypotheses
<1>4. Known'
  BY <1>1 DEF KInv, Known
<1> QED BY <1>2, <1>3, <1>4, OwnStays

LEMMA OwnStep == KInv /\ [Next]_vars => Known' /\ CreatedOnce'
<1> SUFFICES ASSUME KInv, [Next]_vars PROVE Known' /\ CreatedOnce'
  OBVIOUS
<1>1. CASE PersistBatch
  BY <1>1, BatchOwn
<1>2. CASE Correlate \/ Complete
  BY <1>2, CorrelateOwn
<1>3. CASE (\E f \in Flows : ScoreFlow(f)) \/ CorrelateAll \/ GenerateAll
  BY <1>3, ForeignOwn
<1>4. CASE Claim
  BY <1>4, OthersOwn DEF Claim, evidence
<1>5. CASE \/ Read \/ Recover \/ UNCHANGED vars
           \/ \E f \in Flows, verdict \in Verdicts : GiveVerdict(f, verdict)
  BY <1>5, OthersOwn DEF Read, Recover, GiveVerdict, vars, job, evidence, worker, history
<1>6. CASE RefuseBatch \/ RefuseDownstream \/ DatabaseError \/ Interrupt
  BY <1>6, OthersOwn DEF RefuseBatch, RefuseDownstream, DatabaseError, Interrupt, Fail,
                         StopWorker, evidence, history
<1> QED BY <1>1, <1>2, <1>3, <1>4, <1>5, <1>6 DEF Next, Work

LEMMA OwnInit == Init => KInv
<1> SUFFICES ASSUME Init PROVE KInv
  OBVIOUS
<1>1. /\ attempts = << >> /\ Stored = {} /\ detections = {} /\ hypotheses = {}
      /\ foreign.flows = flows /\ foreign.detections = {}
      /\ foreign.groups = {} /\ foreign.hypotheses = {}
      /\ observed.groups = {} /\ observed.hypotheses = {}
  BY DEF Init, Stored
<1>2. Known
  BY <1>1, FS_EmptySet DEF Known
<1>3. ASSUME NEW o \in Output PROVE Created(o) = 0
  <2>1. PICK s : s = attempts
    OBVIOUS
  <2>2. s \in Seq(Counters) /\ Len(s) = 0
    BY <1>1, <2>1
  <2>3. PICK g : Adds(s, o, g, Len(s))
    BY <2>2, AddsExist
  <2>4. Total(s, o) = g[0] /\ g[0] = 0
    BY <2>2, <2>3, TotalIs DEF Adds
  <2> QED BY <2>1, <2>4 DEF Created
<1>4. /\ flows \ foreign.flows = {} /\ detections \ foreign.detections = {}
      /\ (detections \ foreign.detections) \intersect Alerts = {}
      /\ Stored \ foreign.groups = {} /\ hypotheses \ foreign.hypotheses = {}
  BY <1>1
<1>5. CreatedOnce
  BY <1>3, <1>4, FS_EmptySet DEF CreatedOnce, Output
<1> QED BY <1>2, <1>5, CountersInit DEF KInv

\* However often a job is interrupted and recovered, its attempts together have
\* counted every row the replay stored as created exactly once, for every
\* capture, batch size and policy.
THEOREM RowsAreCreatedOnce == Spec => []CreatedOnce
<1>1. KInv /\ [Next]_vars => KInv'
  BY CountersStep, OwnStep DEF KInv
<1>2. KInv => CreatedOnce
  BY DEF KInv
<1> QED BY OwnInit, <1>1, <1>2, PTL DEF Spec
=============================================================================
