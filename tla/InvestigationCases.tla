------------------------- MODULE InvestigationCases -------------------------
(***************************************************************************)
(* One investigation case, its hypothesis and the feedback on its verdict, *)
(* while several analysts work on them.                                    *)
(*                                                                         *)
(* Every route and command runs one call of cases/service.py in one        *)
(* session.  As in RuntimeSessions a SELECT runs outside any transaction   *)
(* and the write lock is held from the first INSERT or UPDATE to COMMIT.   *)
(* A call therefore reads the case and checks it (the actions that open a  *)
(* session), selects the row again in the repository and writes the        *)
(* columns in which its copy differs from that row.  Calls that insert a   *)
(* note or a reference first hold the lock for the second SELECT (Commit), *)
(* the others do not (Reload, then Flush).                                 *)
(*                                                                         *)
(* A call that is refused changes nothing and is not an action.  Notes are *)
(* counted by type; confidence, reasons and times are left out.  The       *)
(* operators named Op_Variant are faulty forms of Op no action uses.       *)
(***************************************************************************)
EXTENDS Naturals, FiniteSets

CONSTANTS
    Analysts,
    SourceObjects,      \* hypothesis, group and alerts a case starts with
    OtherObjects,       \* further evidence an analyst may refer to, disjoint from these
    Assignees, Priorities,
    MaxReferences,      \* maximum_evidence_references
    MaxNotes,           \* maximum_notes_per_case
    Calls               \* bound on the calls of a behaviour

Objects == SourceObjects \union OtherObjects
None == "none"
Final == {"true_positive", "false_positive", "benign_expected"}
Verdicts == Final \union {"needs_more_information"}
Statuses == {"open", "investigating", "needs_more_information", "closed"}

\* allowed_case_status_transitions of the policy.
Transitions ==
    [s \in Statuses |->
        CASE s = "open" -> {"investigating", "needs_more_information", "closed"}
          [] s = "investigating" -> {"needs_more_information", "closed"}
          [] s = "needs_more_information" -> {"investigating", "closed"}
          [] s = "closed" -> {}]

HypothesisTransitions ==
    LET ends == {"dismissed", "closed_unresolved", "rejected"}
    IN  [proposed |-> {"under_review", "needs_more_information"} \union ends,
         under_review |-> {"needs_more_information"} \union ends,
         needs_more_information |-> {"under_review"} \union ends]

\* eligible_hypothesis_statuses of the policy.
Reviewable == DOMAIN HypothesisTransitions
HypothesisStatuses == Reviewable \union {"dismissed", "closed_unresolved", "rejected"}

-----------------------------------------------------------------------------
\* The mutable columns of a row of investigation_cases.
Case == [status : Statuses, closed_at : BOOLEAN, priority : Priorities,
         assigned_to : Assignees \union {None}, verdict : Verdicts \union {None},
         evidence_references : SUBSET Objects]
NoCase == [status |-> None]

\* What validate_time_order lets a repository read back.
Readable(c) ==
    IF c.status = "closed" THEN c.closed_at /\ c.verdict \in Final ELSE ~c.closed_at

NoSession == [call |-> None]
Sources == {"case_verdict", "phase12_api"}

VARIABLES
    hypothesis,     \* status of the hypothesis
    case,           \* the committed row
    references,     \* objects with a row in case_evidence_references
    notes,          \* rows of case_notes by type
    feedback,       \* analyst_feedback on the case by actor and source
    session,        \* the call each analyst has under way
    calls           \* calls made, bounded by Calls

vars == << hypothesis, case, references, notes, feedback, session, calls >>

TypeOK ==
    /\ hypothesis \in HypothesisStatuses
    /\ case \in Case \union {NoCase}
    /\ references \in SUBSET Objects
    /\ notes \in [investigation : Nat, closure : Nat]
    /\ feedback \in [Analysts \X Sources -> Verdicts \union {None}]
    /\ DOMAIN session = Analysts
    /\ calls \in 0..Calls

Init ==
    /\ hypothesis = "proposed"
    /\ case = NoCase /\ references = {}
    /\ notes = [investigation |-> 0, closure |-> 0]
    /\ feedback = [f \in Analysts \X Sources |-> None]
    /\ session = [a \in Analysts |-> NoSession]
    /\ calls = 0

Open(a, s) ==
    /\ session[a] = NoSession /\ calls < Calls
    /\ session' = [session EXCEPT ![a] = s] /\ calls' = calls + 1
    /\ UNCHANGED << hypothesis, case, references, notes, feedback >>

Leave(a) == session' = [session EXCEPT ![a] = NoSession] /\ UNCHANGED calls

-----------------------------------------------------------------------------
\* The first half of each call: read, check, make the copy to be written.
CreateCase(a) ==
    /\ hypothesis \in Reviewable /\ case = NoCase
    /\ \E p \in Priorities :
        Open(a, [call |-> "create",
                 entity |-> [status |-> "open", closed_at |-> FALSE, priority |-> p,
                             assigned_to |-> None, verdict |-> None,
                             evidence_references |-> SourceObjects]])

\* A read validates the row; _require_case and _require_mutable_case.
Found == case # NoCase /\ Readable(case)
Mutable == Found /\ case.status # "closed"

ChangeStatus(a, s) ==
    /\ Found /\ s # "closed" /\ s \in Transitions[case.status]
    /\ Open(a, [call |-> "update", entity |-> [case EXCEPT !.status = s]])

SetPriority(a, p) ==
    /\ Mutable /\ case.priority # p
    /\ Open(a, [call |-> "update", entity |-> [case EXCEPT !.priority = p]])

Assign(a, who) ==
    /\ Mutable /\ case.assigned_to # who
    /\ Open(a, [call |-> "update", entity |-> [case EXCEPT !.assigned_to = who]])

AddNote(a) ==
    /\ Mutable /\ notes.investigation + notes.closure < MaxNotes
    /\ Open(a, [call |-> "note", entity |-> case])

AddEvidence(a, o) ==
    /\ Mutable /\ o \notin references
    /\ Cardinality(case.evidence_references) < MaxReferences
    /\ Open(a, [call |-> "evidence", object |-> o,
                entity |-> [case EXCEPT !.evidence_references = @ \union {o}]])

\* The verdict of the case may be repeated with another confidence or reason.
SetVerdict(a, v, allow_update) ==
    /\ Mutable /\ (case.verdict = None \/ allow_update)
    /\ Open(a, [call |-> "verdict", allow_update |-> allow_update,
                entity |-> [case EXCEPT !.verdict = v]])

Close(a) ==
    /\ Mutable /\ case.verdict \in Final /\ "closed" \in Transitions[case.status]
    /\ notes.investigation + notes.closure < MaxNotes
    /\ Open(a, [call |-> "close",
                entity |-> [case EXCEPT !.status = "closed", !.closed_at = TRUE]])

\* record_case of an analyst who repeats the verdict of the case.  The route
\* has a source of its own and never updates; the command record-case has the
\* source case_verdict unless told otherwise, and may update.
AddCaseFeedback(a, source, allow_update) ==
    /\ Found /\ case.verdict # None
    /\ feedback[<< a, source >>] # case.verdict
    /\ feedback[<< a, source >>] = None \/ allow_update
    /\ Open(a, [call |-> "feedback", source |-> source, verdict |-> case.verdict])

UpdateHypothesis(a, s) ==
    /\ hypothesis \in Reviewable /\ s \in HypothesisTransitions[hypothesis]
    /\ Open(a, [call |-> "hypothesis", status |-> s])

\* Exactly one field of a PATCH; assigned_to may be null.
UpdateCase(a) ==
    \/ \E s \in Statuses : ChangeStatus(a, s)
    \/ \E p \in Priorities : SetPriority(a, p)
    \/ \E who \in Assignees \union {None} : Assign(a, who)
    \/ \E v \in Verdicts, replace \in BOOLEAN : SetVerdict(a, v, replace)

Request(a) ==
    \/ CreateCase(a)
    \/ UpdateCase(a)
    \/ AddNote(a)
    \/ \E o \in Objects : AddEvidence(a, o)
    \/ AddCaseFeedback(a, "phase12_api", FALSE)
    \/ Close(a)

\* The commands of feedback/cli.py on a case.
Command(a) ==
    \E source \in Sources, update \in BOOLEAN : AddCaseFeedback(a, source, update)

-----------------------------------------------------------------------------
Accepts_NoCheck(row, entity) == TRUE

\* InvestigationCaseRepository.update: what it accepts and what it writes over
\* the committed row when it selected row.
Accepts(row, entity) == row.evidence_references \subseteq entity.evidence_references

Written(row, entity) ==
    [f \in DOMAIN case |-> IF entity[f] = row[f] THEN case[f] ELSE entity[f]]

\* create, note, evidence and close insert first: the lock is held throughout.
CommitCreate(a) ==
    /\ session[a].call = "create"
    /\ IF case = NoCase
       THEN case' = session[a].entity /\ references' = SourceObjects
       ELSE UNCHANGED << case, references >>
    /\ Leave(a) /\ UNCHANGED << hypothesis, notes, feedback >>

InsertNote(kind) == notes' = [notes EXCEPT ![kind] = @ + 1]

CommitNote(a) ==
    /\ session[a].call \in {"note", "close"}
    /\ IF Accepts(case, session[a].entity)
       THEN /\ case' = Written(case, session[a].entity)
            /\ InsertNote(IF session[a].call = "note" THEN "investigation" ELSE "closure")
       ELSE UNCHANGED << case, notes >>
    /\ Leave(a) /\ UNCHANGED << hypothesis, references, feedback >>

CommitEvidence(a) ==
    /\ session[a].call = "evidence"
    /\ IF session[a].object \notin references /\ Accepts(case, session[a].entity)
       THEN /\ case' = Written(case, session[a].entity)
            /\ references' = references \union {session[a].object}
       ELSE UNCHANGED << case, references >>
    /\ Leave(a) /\ UNCHANGED << hypothesis, notes, feedback >>

\* update and verdict: the second SELECT without the lock, then the flush.
Reload(a) ==
    /\ session[a].call \in {"update", "verdict"} /\ "row" \notin DOMAIN session[a]
    /\ LET s == session[a] IN
       session' = [session EXCEPT ![a] =
           IF Accepts(case, s.entity)
           THEN [f \in DOMAIN s \union {"row"} |-> IF f = "row" THEN case ELSE s[f]]
           ELSE NoSession]
    /\ UNCHANGED << hypothesis, case, references, notes, feedback, calls >>

FlushUpdate(a) ==
    /\ session[a].call = "update" /\ "row" \in DOMAIN session[a]
    /\ case' = Written(session[a].row, session[a].entity)
    /\ Leave(a) /\ UNCHANGED << hypothesis, references, notes, feedback >>

Recorded_TrustsCaller(written, s, previous) ==
    /\ Readable(written)
    /\ previous \in {None, s.entity.verdict} \/ s.allow_update

\* record_case under the lock of the flush: it selects the case once more.
Recorded(written, s, previous) ==
    /\ Readable(written) /\ written.verdict = s.entity.verdict
    /\ previous \in {None, s.entity.verdict} \/ s.allow_update

FlushVerdict(a) ==
    /\ session[a].call = "verdict" /\ "row" \in DOMAIN session[a]
    /\ LET s == session[a]
           written == Written(s.row, s.entity)
       IN  IF Recorded(written, s, feedback[<< a, "case_verdict" >>])
           THEN /\ case' = written
                /\ feedback' = [feedback EXCEPT ![<< a, "case_verdict" >>] = s.entity.verdict]
           ELSE UNCHANGED << case, feedback >>
    /\ Leave(a) /\ UNCHANGED << hypothesis, references, notes >>

CommitFeedback(a) ==
    /\ session[a].call = "feedback"
    /\ feedback' = [feedback EXCEPT ![<< a, session[a].source >>] = session[a].verdict]
    /\ Leave(a) /\ UNCHANGED << hypothesis, case, references, notes >>

CommitHypothesis(a) ==
    /\ session[a].call = "hypothesis"
    /\ hypothesis' = session[a].status
    /\ Leave(a) /\ UNCHANGED << case, references, notes, feedback >>

Proceed(a) ==
    \/ CommitCreate(a) \/ CommitNote(a) \/ CommitEvidence(a)
    \/ Reload(a) \/ FlushUpdate(a) \/ FlushVerdict(a)
    \/ CommitFeedback(a) \/ CommitHypothesis(a)

\* The process of an analyst dies, or the commit fails: the call is rolled back.
Abandon(a) ==
    /\ session[a] # NoSession /\ Leave(a)
    /\ UNCHANGED << hypothesis, case, references, notes, feedback >>

Next ==
    \E a \in Analysts :
        \/ Request(a)
        \/ Command(a)
        \/ \E s \in HypothesisStatuses : UpdateHypothesis(a, s)
        \/ Proceed(a)
        \/ Abandon(a)

Spec == Init /\ [][Next]_vars

-----------------------------------------------------------------------------
(* Safety, whatever the order in which the sessions commit. *)

\* The list of references in the case is the set of its reference rows, and
\* only those a case is created with may exceed the policy's bound, which create
\* does not look at: the append-only check of update() refuses a copy read
\* before somebody else's reference.
ReferencesMirrored ==
    IF case = NoCase THEN references = {}
    ELSE /\ case.evidence_references = references
         /\ SourceObjects \subseteq references
         /\ references = SourceObjects \/ Cardinality(references) <= MaxReferences

\* The feedback set_verdict records is committed together with that verdict of
\* the case: record_case re-reads the row under the lock and refuses another
\* one.  (Feedback recorded on its own may be about a verdict already replaced.)
FeedbackMatchesCaseStep ==
    \A a \in Analysts :
        session[a].call = "verdict"
            /\ feedback'[<< a, "case_verdict" >>] # feedback[<< a, "case_verdict" >>] =>
                case'.verdict = feedback'[<< a, "case_verdict" >>]

\* docs/investigation_cases.md calls a closed case terminal.  A call that read
\* the case before it was closed writes its own status back.
ClosedIsTerminal == [][case.status = "closed" => case'.status = "closed"]_vars
=============================================================================
