---------------------------- MODULE AnalystWork -----------------------------
(***************************************************************************)
(* What analysts do: investigation cases, and feedback on alerts and cases *)
(* with the retraining candidates built from it.                           *)
(***************************************************************************)
EXTENDS Parts, Naturals, FiniteSets

CONSTANTS
    Analysts,
    SourceObjects, OtherObjects, Assignees, Priorities, MaxReferences, MaxNotes, Calls,
    ReviewedAlerts, Cases, AnalystVerdicts, FeedbackSources, FlowOf, EligibleFlows,
    MinimumRecords, QueryBound, CandidateVersions, ReviewCalls

VARIABLES
    session, calls, feedback,
    hypothesis, case, references, notes,
    alert, artifact, patched

CaseWork == INSTANCE InvestigationCases

Reviews == INSTANCE AnalystFeedback WITH
    Alerts <- ReviewedAlerts, Verdicts <- AnalystVerdicts, Sources <- FeedbackSources,
    Versions <- CandidateVersions, Calls <- ReviewCalls

\* A case starts with finitely many objects, analysts give verdicts of the
\* enumeration, and the bounds are numbers.
CasesAssumption == IsFiniteSet(SourceObjects) /\ MaxReferences \in Nat /\ Calls \in Nat
ReviewsAssumption == AnalystVerdicts \subseteq Reviews!AllVerdicts /\ ReviewCalls \in Nat

ASSUME AnalystAssumption == CasesAssumption /\ ReviewsAssumption

-----------------------------------------------------------------------------
CaseVars == << hypothesis, case, references, notes >>
ReviewVars == << alert, artifact, patched >>
AnalystVars == << part, session, calls, feedback, CaseVars, ReviewVars >>

CasesUnused == hypothesis = Unused /\ case = Unused /\ references = Unused /\ notes = Unused
ReviewsUnused == alert = Unused /\ artifact = Unused /\ patched = Unused
AnalystUnused ==
    /\ session = Unused /\ calls = Unused /\ feedback = Unused
    /\ CasesUnused /\ ReviewsUnused

AnalystInit ==
    \/ part = "cases" /\ CaseWork!Init /\ ReviewsUnused
    \/ part = "feedback" /\ Reviews!Init /\ CasesUnused

CaseWorkNext == part = "cases" /\ CaseWork!Next /\ UNCHANGED << part, ReviewVars >>
ReviewsNext == part = "feedback" /\ Reviews!Next /\ UNCHANGED << part, CaseVars >>

AnalystNext == CaseWorkNext \/ ReviewsNext

AnalystSpec == AnalystInit /\ [][AnalystNext]_AnalystVars

-----------------------------------------------------------------------------
\* The references in a case are its reference rows, within the bound of the
\* policy, whoever adds them at the same time (InvestigationCases).
ReferencesMirrored == part = "cases" => CaseWork!ReferencesMirrored

\* The feedback set_verdict records is about the verdict committed with it
\* (InvestigationCases).
FeedbackMatchesCase == [][part = "cases" => CaseWork!FeedbackMatchesCaseStep]_AnalystVars

\* An alert verdict given through feedback is one some analyst still gives
\* (AnalystFeedback).
VerdictIsBacked == part = "feedback" => Reviews!VerdictIsBacked

\* A candidate data set accounts for every piece of feedback once and holds rows
\* only where all analysts agree (AnalystFeedback).
CandidatesAccountForFeedback == part = "feedback" => Reviews!CandidatesAccountForFeedback
=============================================================================
