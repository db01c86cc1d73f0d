--------------------------- MODULE AnalystFeedback --------------------------
(***************************************************************************)
(* Verdicts and feedback on alerts, and the candidate data sets built from *)
(* them (feedback/service.py, feedback/candidates.py, feedback/export.py). *)
(*                                                                         *)
(* Sessions are isolated as in InvestigationCases: a call reads the alert  *)
(* and its own feedback, and commits later.  The first INSERT or UPDATE    *)
(* takes the lock; update_verdict selects the alert again after it.        *)
(* Times are the numbers of the calls (bounded by Calls).  Of a confidence *)
(* it is kept whether it reaches feedback_confidence_minimum; notes and    *)
(* reasons are left out.  How an artifact is written is ArtifactStore;     *)
(* here a version is written whole or not at all.                          *)
(***************************************************************************)
EXTENDS Naturals, FiniteSets, FiniteSetsExt

CONSTANTS
    Analysts, Alerts, Cases,
    Verdicts,           \* those analysts give, of AllVerdicts
    Sources,            \* a route or a command: the source of a record
    FlowOf,             \* the flow behind an alert
    EligibleFlows,      \* of an eligible provenance, not of an evaluation
    MinimumRecords,     \* candidate_dataset_minimum_records
    QueryBound,         \* maximum_feedback_per_query
    Versions,           \* of artifacts
    Calls               \* bound on the calls of a behaviour

None == "none"
AllVerdicts == {"true_positive", "false_positive", "benign_expected", "needs_more_information"}

\* An id is the uuid5 of object, actor and source.
Ids == (Alerts \union Cases) \X Analysts \X Sources
Feedback == [verdict : Verdicts, confident : BOOLEAN, updated_at : 0..Calls]
NoFeedback == [verdict |-> None, confident |-> FALSE, updated_at |-> 0]
NoSession == [call |-> None]
NoArtifact == [kind |-> None]

VARIABLES
    alert,      \* analyst_verdict and updated_at of each alert
    feedback,   \* the rows of analyst_feedback
    session,    \* the call each analyst has under way
    artifact,   \* candidate data sets and exports by version
    patched,    \* history: alerts whose verdict was set without feedback
    calls

vars == << alert, feedback, session, artifact, patched, calls >>

TypeOK ==
    /\ alert \in [Alerts -> [verdict : Verdicts \union {None}, updated_at : 0..Calls]]
    /\ feedback \in [Ids -> Feedback \union {NoFeedback}]
    /\ DOMAIN session = Analysts /\ DOMAIN artifact = Versions
    /\ patched \subseteq Alerts /\ calls \in 0..Calls

Init ==
    /\ alert = [x \in Alerts |-> [verdict |-> None, updated_at |-> 0]]
    /\ feedback = [i \in Ids |-> NoFeedback]
    /\ session = [a \in Analysts |-> NoSession]
    /\ artifact = [v \in Versions |-> NoArtifact]
    /\ patched = {} /\ calls = 0

Open(a, s) ==
    /\ session[a] = NoSession /\ calls < Calls /\ calls' = calls + 1
    /\ session' = [session EXCEPT ![a] = s]
    /\ UNCHANGED << alert, feedback, artifact, patched >>

Leave(a) == session' = [session EXCEPT ![a] = NoSession] /\ UNCHANGED calls

-----------------------------------------------------------------------------
\* _record: a first record is added, the same one stays, another one needs
\* allow_update and a later time.
Recordable(old, entity, allow_update) ==
    \/ old = NoFeedback
    \/ old.verdict = entity.verdict /\ old.confident = entity.confident
    \/ allow_update /\ entity.updated_at > old.updated_at

Recorded(old, entity) ==
    IF old # NoFeedback /\ old.verdict = entity.verdict /\ old.confident = entity.confident
    THEN old ELSE entity

\* record_alert up to its first write.
RecordAlert(a, x, source, v, confident, allow_update) ==
    LET entity == [verdict |-> v, confident |-> confident, updated_at |-> calls + 1]
        id == << x, a, source >>
    IN  /\ alert[x].verdict \in {None, v} \/ allow_update
        /\ Recordable(feedback[id], entity, allow_update)
        /\ Open(a, [call |-> "record", id |-> id, entity |-> Recorded(feedback[id], entity),
                    changes |-> alert[x].verdict # v, verdict |-> v, now |-> calls + 1])

KeepsVerdict_IfSet(s, x) == ~s.changes \/ alert[x].verdict # None

\* The rest of record_alert.  update_verdict refuses a time that is not later
\* than the one it finds, and the feedback is rolled back with it.
KeepsVerdict(s, x) == ~s.changes \/ alert[x].verdict = s.verdict
CommitRecord(a) ==
    /\ session[a].call = "record"
    /\ LET s == session[a]
           x == s.id[1]
       IN  \/ /\ KeepsVerdict(s, x)
              /\ feedback' = [feedback EXCEPT ![s.id] = s.entity]
              /\ UNCHANGED alert
           \/ /\ ~KeepsVerdict(s, x) /\ s.now > alert[x].updated_at
              /\ feedback' = [feedback EXCEPT ![s.id] = s.entity]
              /\ alert' = [alert EXCEPT ![x] = [verdict |-> s.verdict, updated_at |-> s.now]]
           \/ /\ ~KeepsVerdict(s, x) /\ s.now <= alert[x].updated_at
              /\ UNCHANGED << alert, feedback >>
    /\ Leave(a) /\ UNCHANGED << artifact, patched >>

\* Feedback on a case: whether it may be given is InvestigationCases.
RecordCase(a, c, source, v, confident) ==
    /\ session[a] = NoSession /\ calls < Calls /\ calls' = calls + 1
    /\ feedback[<< c, a, source >>] = NoFeedback
    /\ feedback' = [feedback EXCEPT ![<< c, a, source >>] =
                       [verdict |-> v, confident |-> confident, updated_at |-> calls + 1]]
    /\ UNCHANGED << alert, session, artifact, patched >>

\* PATCH /alerts/{alert_id}: the verdict alone, with the later of the times.
PatchAlert(a, x, v) ==
    /\ alert[x].verdict # v
    /\ Open(a, [call |-> "patch", alert |-> x, verdict |-> v, now |-> calls + 1])

CommitPatch(a) ==
    /\ session[a].call = "patch"
    /\ LET s == session[a] IN
        /\ alert' = [alert EXCEPT ![s.alert] = [verdict |-> s.verdict, updated_at |-> s.now]]
        /\ patched' = patched \union {s.alert}
    /\ Leave(a) /\ UNCHANGED << feedback, artifact >>

Abandon(a) ==
    /\ session[a] # NoSession /\ Leave(a)
    /\ UNCHANGED << alert, feedback, artifact, patched >>

-----------------------------------------------------------------------------
\* _mapped_label
LabelOf(v) ==
    CASE v = "true_positive" -> "malicious"
      [] v \in {"false_positive", "benign_expected"} -> "benign"
      [] v = "needs_more_information" -> None

Given == {i \in Ids : feedback[i] # NoFeedback}

\* _resolve: what has a label and a flow that may be used.
Resolves(i) ==
    /\ i[1] \in Alerts
    /\ LabelOf(feedback[i].verdict) # None
    /\ feedback[i].confident
    /\ FlowOf[i[1]] \in EligibleFlows

LabelsOf(I) == {LabelOf(feedback[i].verdict) : i \in I}

EligibilityStatus(candidates) ==
    CASE candidates = {} -> "empty"
      [] candidates # {} /\ Cardinality(candidates) < MinimumRecords -> "insufficient_records"
      [] OTHER -> "requires_manual_review"

Unanimous_Newest(I) == I # {}

\* The rows, conflicts and exclusions build() makes of the rows it lists: one
\* group per flow, a candidate if its labels agree.
Unanimous(I) == Cardinality(LabelsOf(I)) = 1
Candidates ==
    LET resolved == {i \in Given : Resolves(i)}
        group(f) == {i \in resolved : FlowOf[i[1]] = f}
        flows == {FlowOf[i[1]] : i \in resolved}
        agreed == {f \in flows : Unanimous(group(f))}
        rows == {[flow |-> f, label |-> CHOOSE l \in LabelsOf(group(f)) : TRUE,
                  supporting |-> group(f)] : f \in agreed}
    IN  [kind |-> "candidates",
         rows |-> rows,
         conflicts |-> {[flow |-> f, supporting |-> group(f)] : f \in flows \ agreed},
         exclusions |-> Given \ resolved,
         status |-> EligibilityStatus(rows),
         verdicts |-> [i \in Given |-> feedback[i].verdict]]

BuildCandidates(v) ==
    /\ artifact[v] = NoArtifact /\ Cardinality(Given) <= QueryBound
    /\ artifact' = [artifact EXCEPT ![v] = Candidates]
    /\ UNCHANGED << alert, feedback, session, patched, calls >>

\* export(): the rows of one kind of object, or all.
ExportFeedback(v, objects) ==
    /\ artifact[v] = NoArtifact
    /\ LET rows == {i \in Given : i[1] \in objects} IN
        /\ Cardinality(rows) <= QueryBound
        /\ artifact' = [artifact EXCEPT ![v] =
               [kind |-> "export", verdicts |-> [i \in rows |-> feedback[i].verdict]]]
    /\ UNCHANGED << alert, feedback, session, patched, calls >>

Next ==
    \/ \E a \in Analysts :
        \/ \E x \in Alerts, s \in Sources, v \in Verdicts, c, u \in BOOLEAN :
               RecordAlert(a, x, s, v, c, u)
        \/ \E c \in Cases, s \in Sources, v \in Verdicts, d \in BOOLEAN : RecordCase(a, c, s, v, d)
        \/ \E x \in Alerts, v \in Verdicts : PatchAlert(a, x, v)
        \/ CommitRecord(a) \/ CommitPatch(a) \/ Abandon(a)
    \/ \E v \in Versions :
        \/ BuildCandidates(v)
        \/ \E objects \in {Alerts, Cases, Alerts \union Cases} : ExportFeedback(v, objects)

Spec == Init /\ [][Next]_vars

-----------------------------------------------------------------------------
\* feedback/cli.py keeps the alert verdict "consistent transactionally": unless
\* it was set by PATCH /alerts, some analyst's feedback says the same, in
\* whatever order sessions overlap.
VerdictIsBacked ==
    \A x \in Alerts : x \notin patched /\ alert[x].verdict # None =>
        \E i \in Given : i[1] = x /\ feedback[i].verdict = alert[x].verdict

\* Of the feedback a candidate data set was built from each piece is accounted
\* for once, a row stands for analysts who all agree, and no flow of an
\* evaluation partition becomes a row.
CandidatesAccountForFeedback ==
    \A v \in Versions : artifact[v].kind = "candidates" =>
        LET d == artifact[v]
            used == {r.supporting : r \in d.rows \union d.conflicts}
        IN  /\ (UNION used) \union d.exclusions = DOMAIN d.verdicts
            /\ (UNION used) \intersect d.exclusions = {}
            /\ \A s, t \in used : s = t \/ s \intersect t = {}
            /\ \A r \in d.rows :
                /\ r.flow \in EligibleFlows
                /\ \A i \in r.supporting :
                    FlowOf[i[1]] = r.flow /\ LabelOf(d.verdicts[i]) = r.label
            /\ \A r \in d.rows, c \in d.conflicts : r.flow # c.flow
=============================================================================
