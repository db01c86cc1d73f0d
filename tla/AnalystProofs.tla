--------------------------- MODULE AnalystProofs ----------------------------
(***************************************************************************)
(* What analysts may rely on, for every number of analysts, objects,       *)
(* alerts and calls: the references of a case, the feedback that comes     *)
(* with its verdict, the feedback behind the verdict of an alert, and the  *)
(* record of feedback that a retraining candidate carries.                 *)
(*                                                                         *)
(* The two components run independently; each theorem is about one of      *)
(* them. Calls of different analysts interleave between their reads and    *)
(* their commits.                                                          *)
(***************************************************************************)
EXTENDS AnalystWork, FiniteSetTheorems, TLAPS

-----------------------------------------------------------------------------
(* Investigation cases.                                                    *)

LEMMA CasesCardinality == \A S : CaseWork!Cardinality(S) = Cardinality(S)
BY DEF CaseWork!Cardinality, Cardinality

\* The calls that hold a copy of the case, and what is known of the copy when R
\* are the objects with a reference row.
Copying == {"create", "note", "close", "evidence", "update", "verdict"}

CopyOf(s, R) ==
    CASE s.call = "create" -> s.entity.evidence_references = SourceObjects
      [] s.call = "evidence" ->
            \E Q \in SUBSET R : /\ s.entity.evidence_references = Q \union {s.object}
                                /\ Cardinality(Q) < MaxReferences
      [] OTHER -> s.entity.evidence_references \subseteq R

SessionOK(s, R, found) ==
    /\ s.call \in Copying =>
        /\ {"call", "entity"} \subseteq DOMAIN s
        /\ s.entity \in CaseWork!Case /\ CopyOf(s, R)
        /\ s.call # "create" => found
        /\ "row" \in DOMAIN s =>
            /\ s.call \in {"update", "verdict"} /\ s.row \in CaseWork!Case
            /\ s.row.evidence_references = s.entity.evidence_references
    /\ s.call = "evidence" => s.object \in CaseWork!Objects
    /\ s.call = "feedback" => s.source \in CaseWork!Sources /\ s.verdict \in CaseWork!Verdicts
    /\ s.call = "hypothesis" => s.status \in CaseWork!HypothesisStatuses

CasesInv ==
    /\ CaseWork!TypeOK /\ CaseWork!ReferencesMirrored
    /\ IsFiniteSet(references)
    /\ \A a \in Analysts : SessionOK(session[a], references, case # CaseWork!NoCase)

-----------------------------------------------------------------------------
\* A copy stays one while references are added.
LEMMA SessionStays ==
    ASSUME NEW s, NEW R, NEW Q, NEW f, NEW g, SessionOK(s, R, f), R \subseteq Q, f => g
    PROVE  SessionOK(s, Q, g)
BY DEF SessionOK, CopyOf, Copying

\* What a step has to keep when it puts s in the place of one session.
LEMMA SessionsStay ==
    ASSUME CasesInv, NEW a \in Analysts, NEW s,
           session' = [session EXCEPT ![a] = s],
           references \subseteq references', case # CaseWork!NoCase => case' # CaseWork!NoCase,
           SessionOK(s, references', case' # CaseWork!NoCase)
    PROVE  /\ DOMAIN session' = Analysts
           /\ \A b \in Analysts : SessionOK(session'[b], references', case' # CaseWork!NoCase)
<1>1. DOMAIN session = Analysts
  BY DEF CasesInv, CaseWork!TypeOK
<1>2. ASSUME NEW b \in Analysts PROVE SessionOK(session'[b], references', case' # CaseWork!NoCase)
  <2>1. CASE b = a
    BY <1>1, <2>1
  <2>2. CASE b # a
    <3>1. session'[b] = session[b] BY <1>1, <2>2
    <3>2. SessionOK(session[b], references, case # CaseWork!NoCase) BY DEF CasesInv
    <3> QED BY <3>1, <3>2, SessionStays
  <2> QED BY <2>1, <2>2
<1> QED BY <1>1, <1>2

\* Leaving a call keeps the rest.
LEMMA NoSessionIsOK == ASSUME NEW R, NEW f PROVE SessionOK(CaseWork!NoSession, R, f)
BY DEF SessionOK, Copying, CaseWork!NoSession, CaseWork!None

\* A case that is found can be copied.
LEMMA FoundIsTyped ==
    ASSUME CasesInv, case # CaseWork!NoCase
    PROVE  case \in CaseWork!Case /\ case.evidence_references = references
BY DEF CasesInv, CaseWork!TypeOK, CaseWork!ReferencesMirrored

LEMMA OpenKeeps ==
    ASSUME CasesAssumption, CasesInv, NEW a \in Analysts, NEW s, CaseWork!Open(a, s),
           SessionOK(s, references, case # CaseWork!NoCase)
    PROVE  CasesInv'
<1>1. UNCHANGED << hypothesis, case, references, notes, feedback >>
      /\ session' = [session EXCEPT ![a] = s] /\ calls < Calls /\ calls' = calls + 1
  BY DEF CaseWork!Open
<1>2. CaseWork!TypeOK' 
  BY <1>1 DEF CasesAssumption, CasesInv, CaseWork!TypeOK, CaseWork!Case
<1>3. \A b \in Analysts : SessionOK(session'[b], references', case' # CaseWork!NoCase)
  BY <1>1, SessionsStay
<1> QED BY <1>1, <1>2, <1>3 DEF CasesInv, CaseWork!ReferencesMirrored

\* The first half of every call.
LEMMA RequestKeeps ==
    ASSUME CasesAssumption, CasesInv, NEW a \in Analysts,
           \/ CaseWork!Request(a) \/ CaseWork!Command(a)
           \/ \E s \in CaseWork!HypothesisStatuses : CaseWork!UpdateHypothesis(a, s)
    PROVE  CasesInv'
<1>1. CASE CaseWork!CreateCase(a)
  <2> DEFINE e(p) == [status |-> "open", closed_at |-> FALSE, priority |-> p,
                      assigned_to |-> CaseWork!None, verdict |-> CaseWork!None,
                      evidence_references |-> SourceObjects]
  <2>1. PICK p \in Priorities : CaseWork!Open(a, [call |-> "create", entity |-> e(p)])
    BY <1>1 DEF CaseWork!CreateCase
  <2>2. e(p) \in CaseWork!Case /\ e(p).evidence_references = SourceObjects
    BY DEF CaseWork!Case, CaseWork!Statuses, CaseWork!Objects
  <2> HIDE DEF e
  <2>3. SessionOK([call |-> "create", entity |-> e(p)], references, case # CaseWork!NoCase)
    BY <2>2 DEF SessionOK, CopyOf, Copying
  <2> QED BY <2>1, <2>3, OpenKeeps
<1>2. CASE CaseWork!UpdateCase(a)
  <2>1. \A e \in CaseWork!Case, u \in BOOLEAN :
          case # CaseWork!NoCase /\ e.evidence_references = references
            => /\ SessionOK([call |-> "update", entity |-> e], references, case # CaseWork!NoCase)
               /\ SessionOK([call |-> "verdict", allow_update |-> u, entity |-> e], references,
                            case # CaseWork!NoCase)
    BY DEF SessionOK, CopyOf, Copying
  <2>2. ASSUME NEW s \in CaseWork!Statuses, CaseWork!ChangeStatus(a, s) PROVE CasesInv'
    <3>1. [case EXCEPT !.status = s] \in CaseWork!Case
          /\ [case EXCEPT !.status = s].evidence_references = references /\ case # CaseWork!NoCase
      BY <2>2, FoundIsTyped DEF CaseWork!ChangeStatus, CaseWork!Found, CaseWork!Case
    <3> QED BY <2>1, <2>2, <3>1, OpenKeeps DEF CaseWork!ChangeStatus
  <2>3. ASSUME NEW p \in Priorities, CaseWork!SetPriority(a, p) PROVE CasesInv'
    <3>1. [case EXCEPT !.priority = p] \in CaseWork!Case
          /\ [case EXCEPT !.priority = p].evidence_references = references /\ case # CaseWork!NoCase
      BY <2>3, FoundIsTyped DEF CaseWork!SetPriority, CaseWork!Mutable, CaseWork!Found, CaseWork!Case
    <3> QED BY <2>1, <2>3, <3>1, OpenKeeps DEF CaseWork!SetPriority
  <2>4. ASSUME NEW who \in Assignees \union {CaseWork!None}, CaseWork!Assign(a, who) PROVE CasesInv'
    <3>1. [case EXCEPT !.assigned_to = who] \in CaseWork!Case
          /\ [case EXCEPT !.assigned_to = who].evidence_references = references
          /\ case # CaseWork!NoCase
      BY <2>4, FoundIsTyped DEF CaseWork!Assign, CaseWork!Mutable, CaseWork!Found, CaseWork!Case
    <3> QED BY <2>1, <2>4, <3>1, OpenKeeps DEF CaseWork!Assign
  <2>5. ASSUME NEW v \in CaseWork!Verdicts, NEW u \in BOOLEAN, CaseWork!SetVerdict(a, v, u)
        PROVE  CasesInv'
    <3>1. [case EXCEPT !.verdict = v] \in CaseWork!Case
          /\ [case EXCEPT !.verdict = v].evidence_references = references /\ case # CaseWork!NoCase
      BY <2>5, FoundIsTyped DEF CaseWork!SetVerdict, CaseWork!Mutable, CaseWork!Found, CaseWork!Case
    <3> QED BY <2>1, <2>5, <3>1, OpenKeeps DEF CaseWork!SetVerdict
  <2> QED BY <1>2, <2>2, <2>3, <2>4, <2>5 DEF CaseWork!UpdateCase
<1>3. CASE CaseWork!AddNote(a)
  <2>1. case \in CaseWork!Case /\ case.evidence_references = references /\ case # CaseWork!NoCase
    BY <1>3, FoundIsTyped DEF CaseWork!AddNote, CaseWork!Mutable, CaseWork!Found
  <2>2. SessionOK([call |-> "note", entity |-> case], references, case # CaseWork!NoCase)
    BY <2>1 DEF SessionOK, CopyOf, Copying
  <2> QED BY <1>3, <2>2, OpenKeeps DEF CaseWork!AddNote
<1>4. ASSUME NEW o \in CaseWork!Objects, CaseWork!AddEvidence(a, o) PROVE CasesInv'
  <2> DEFINE e == [case EXCEPT !.evidence_references = @ \union {o}]
  <2>1. case \in CaseWork!Case /\ case.evidence_references = references /\ case # CaseWork!NoCase
    BY <1>4, FoundIsTyped DEF CaseWork!AddEvidence, CaseWork!Mutable, CaseWork!Found
  <2>2. e \in CaseWork!Case /\ e.evidence_references = references \union {o}
    BY <2>1 DEF CaseWork!Case
  <2>3. Cardinality(references) < MaxReferences
    BY <1>4, <2>1, CasesCardinality DEF CaseWork!AddEvidence
  <2>4. SessionOK([call |-> "evidence", object |-> o, entity |-> e], references,
                  case # CaseWork!NoCase)
    BY <2>1, <2>2, <2>3 DEF SessionOK, CopyOf, Copying
  <2> QED BY <1>4, <2>4, OpenKeeps DEF CaseWork!AddEvidence
<1>5. ASSUME NEW source \in CaseWork!Sources, NEW u \in BOOLEAN, CaseWork!AddCaseFeedback(a, source, u)
      PROVE  CasesInv'
  <2>1. case.verdict \in CaseWork!Verdicts
    BY <1>5, FoundIsTyped DEF CaseWork!AddCaseFeedback, CaseWork!Found, CaseWork!Case
  <2>2. SessionOK([call |-> "feedback", source |-> source, verdict |-> case.verdict],
                  references, case # CaseWork!NoCase)
    BY <2>1 DEF SessionOK, Copying
  <2> QED BY <1>5, <2>2, OpenKeeps DEF CaseWork!AddCaseFeedback
<1>6. CASE CaseWork!Close(a)
  <2> DEFINE e == [case EXCEPT !.status = "closed", !.closed_at = TRUE]
  <2>1. e \in CaseWork!Case /\ e.evidence_references = references /\ case # CaseWork!NoCase
    BY <1>6, FoundIsTyped DEF CaseWork!Close, CaseWork!Mutable, CaseWork!Found, CaseWork!Case, CaseWork!Statuses
  <2>2. SessionOK([call |-> "close", entity |-> e], references, case # CaseWork!NoCase)
    BY <2>1 DEF SessionOK, CopyOf, Copying
  <2> QED BY <1>6, <2>2, OpenKeeps DEF CaseWork!Close
<1>7. ASSUME NEW s \in CaseWork!HypothesisStatuses, CaseWork!UpdateHypothesis(a, s) PROVE CasesInv'
  <2>1. SessionOK([call |-> "hypothesis", status |-> s], references, case # CaseWork!NoCase)
    BY DEF SessionOK, Copying
  <2> QED BY <1>7, <2>1, OpenKeeps DEF CaseWork!UpdateHypothesis
<1> QED
  BY <1>1, <1>2, <1>3, <1>4, <1>5, <1>6, <1>7 DEF CaseWork!Request, CaseWork!Command, CaseWork!Sources

\* Written copies a row that is typed, and its references are those of the row
\* that was selected or those of the copy.
LEMMA WrittenIsTyped ==
    ASSUME case \in CaseWork!Case, NEW row \in CaseWork!Case, NEW e \in CaseWork!Case
    PROVE  /\ CaseWork!Written(row, e) \in CaseWork!Case
           /\ e.evidence_references = row.evidence_references =>
                CaseWork!Written(row, e).evidence_references = case.evidence_references
           /\ row = case =>
                CaseWork!Written(row, e).evidence_references = e.evidence_references
BY DEF CaseWork!Written, CaseWork!Case

LEMMA TypedIsFound == \A c \in CaseWork!Case : c # CaseWork!NoCase
<1>1. ASSUME NEW c \in CaseWork!Case PROVE c # CaseWork!NoCase
  <2>1. "priority" \in DOMAIN c BY DEF CaseWork!Case
  <2>2. "priority" \notin DOMAIN CaseWork!NoCase BY DEF CaseWork!NoCase
  <2> QED BY <2>1, <2>2
<1> QED BY <1>1

\* A step that ends a call and keeps the references.
LEMMA LeaveKeeps ==
    ASSUME CasesAssumption, CasesInv, NEW a \in Analysts, CaseWork!Leave(a),
           CaseWork!TypeOK', references' = references,
           case' = case \/ (/\ case # CaseWork!NoCase /\ case' \in CaseWork!Case
                            /\ case'.evidence_references = references)
    PROVE  CasesInv'
<1>1. session' = [session EXCEPT ![a] = CaseWork!NoSession]
  BY DEF CaseWork!Leave
<1>2. case # CaseWork!NoCase => case' # CaseWork!NoCase
  BY TypedIsFound
<1>3. \A b \in Analysts : SessionOK(session'[b], references', case' # CaseWork!NoCase)
  BY <1>1, <1>2, SessionsStay, NoSessionIsOK
<1>4. CaseWork!ReferencesMirrored'
  BY <1>2, CasesCardinality DEF CasesInv, CaseWork!ReferencesMirrored
<1> QED BY <1>3, <1>4 DEF CasesInv

\* The second half of every call.
LEMMA ProceedKeeps ==
    ASSUME CasesAssumption, CasesInv, NEW a \in Analysts, CaseWork!Proceed(a)
    PROVE  CasesInv'
<1> DEFINE s == session[a]
<1>s. SessionOK(s, references, case # CaseWork!NoCase) /\ DOMAIN session = Analysts
  BY DEF CasesInv, CaseWork!TypeOK
<1>t. CaseWork!TypeOK
  BY DEF CasesInv
<1>1. CASE CaseWork!CommitCreate(a)
  <2>1. CASE case = CaseWork!NoCase
    <3>1. /\ case' = s.entity /\ references' = SourceObjects
          /\ session' = [session EXCEPT ![a] = CaseWork!NoSession]
          /\ UNCHANGED << hypothesis, notes, feedback, calls >>
      BY <1>1, <2>1 DEF CaseWork!CommitCreate, CaseWork!Leave
    <3>2. s.entity \in CaseWork!Case /\ s.entity.evidence_references = SourceObjects
      BY <1>1, <1>s DEF CaseWork!CommitCreate, SessionOK, CopyOf, Copying
    <3>3. references = {}
      BY <2>1 DEF CasesInv, CaseWork!ReferencesMirrored
    <3>4. case' # CaseWork!NoCase
      BY <3>1, <3>2, TypedIsFound
    <3>5. CaseWork!TypeOK'
      BY <1>s, <1>t, <3>1, <3>2 DEF CaseWork!TypeOK, CaseWork!Objects
    <3>6. \A b \in Analysts : SessionOK(session'[b], references', case' # CaseWork!NoCase)
      BY <3>1, <3>3, <3>4, SessionsStay, NoSessionIsOK
    <3> QED BY <3>1, <3>2, <3>4, <3>5, <3>6 DEF CasesInv, CaseWork!ReferencesMirrored, CasesAssumption
  <2>2. CASE case # CaseWork!NoCase
    <3>1. UNCHANGED << hypothesis, case, references, notes, feedback, calls >> /\ CaseWork!Leave(a)
      BY <1>1, <2>2 DEF CaseWork!CommitCreate, CaseWork!Leave
    <3>2. CaseWork!TypeOK'
      BY <1>s, <1>t, <3>1 DEF CaseWork!TypeOK, CaseWork!Leave
    <3> QED BY <3>1, <3>2, LeaveKeeps
  <2> QED BY <2>1, <2>2
<1>2. CASE CaseWork!CommitNote(a)
  <2>1. /\ s.entity \in CaseWork!Case /\ s.entity.evidence_references \subseteq references
        /\ case \in CaseWork!Case /\ case.evidence_references = references
        /\ case # CaseWork!NoCase
    BY <1>2, <1>s, FoundIsTyped DEF CaseWork!CommitNote, SessionOK, CopyOf, Copying
  <2>2. CASE CaseWork!Accepts(case, s.entity)
    <3>1. /\ case' = CaseWork!Written(case, s.entity)
          /\ notes' \in [investigation : Nat, closure : Nat]
      BY <1>2, <1>t, <2>2 DEF CaseWork!CommitNote, CaseWork!InsertNote, CaseWork!TypeOK
    <3>2. case' \in CaseWork!Case /\ case'.evidence_references = references
      BY <2>1, <2>2, <3>1, WrittenIsTyped DEF CaseWork!Accepts
    <3>3. CaseWork!TypeOK'
      BY <1>2, <1>s, <1>t, <3>1, <3>2 DEF CaseWork!CommitNote, CaseWork!Leave, CaseWork!TypeOK
    <3> QED BY <1>2, <2>1, <3>2, <3>3, LeaveKeeps DEF CaseWork!CommitNote
  <2>3. CASE ~CaseWork!Accepts(case, s.entity)
    <3>1. UNCHANGED << case, notes >>
      BY <1>2, <2>3 DEF CaseWork!CommitNote
    <3>2. CaseWork!TypeOK'
      BY <1>2, <1>s, <1>t, <3>1 DEF CaseWork!CommitNote, CaseWork!Leave, CaseWork!TypeOK
    <3> QED BY <1>2, <3>1, <3>2, LeaveKeeps DEF CaseWork!CommitNote
  <2> QED BY <2>2, <2>3
<1>3. CASE CaseWork!CommitEvidence(a)
  <2>1. /\ s.entity \in CaseWork!Case /\ s.object \in CaseWork!Objects
        /\ case \in CaseWork!Case /\ case.evidence_references = references
        /\ case # CaseWork!NoCase /\ IsFiniteSet(references) /\ references \in SUBSET CaseWork!Objects
    BY <1>3, <1>s, <1>t, FoundIsTyped DEF CaseWork!CommitEvidence, SessionOK, Copying, CasesInv, CaseWork!TypeOK
  <2>2. PICK Q \in SUBSET references : /\ s.entity.evidence_references = Q \union {s.object}
                                       /\ Cardinality(Q) < MaxReferences
    BY <1>3, <1>s DEF CaseWork!CommitEvidence, SessionOK, CopyOf, Copying
  <2>3. CASE s.object \notin references /\ CaseWork!Accepts(case, s.entity)
    <3>1. Q = references
      BY <2>1, <2>2, <2>3 DEF CaseWork!Accepts
    <3>2. case' = CaseWork!Written(case, s.entity) /\ references' = references \union {s.object}
      BY <1>3, <2>3 DEF CaseWork!CommitEvidence
    <3>3. case' \in CaseWork!Case /\ case'.evidence_references = references'
      BY <2>1, <2>2, <3>1, <3>2, WrittenIsTyped
    <3>4. Cardinality(references') <= MaxReferences /\ IsFiniteSet(references')
      <4>1. /\ IsFiniteSet(references \union {s.object})
            /\ Cardinality(references \union {s.object}) = Cardinality(references) + 1
        BY <2>1, <2>3, FS_AddElement
      <4>2. Cardinality(references) \in Nat
        BY <2>1, FS_CardinalityType
      <4> QED BY <2>2, <3>1, <3>2, <4>1, <4>2 DEF CasesAssumption
    <3>5. CaseWork!TypeOK'
      BY <1>3, <1>s, <1>t, <2>1, <3>2, <3>3 DEF CaseWork!CommitEvidence, CaseWork!Leave, CaseWork!TypeOK
    <3>6. case' # CaseWork!NoCase
      BY <3>3, TypedIsFound
    <3>7. session' = [session EXCEPT ![a] = CaseWork!NoSession]
      BY <1>3 DEF CaseWork!CommitEvidence, CaseWork!Leave
    <3>8. \A b \in Analysts : SessionOK(session'[b], references', case' # CaseWork!NoCase)
      BY <3>2, <3>6, <3>7, SessionsStay, NoSessionIsOK
    <3>9. CaseWork!ReferencesMirrored'
      BY <2>1, <3>2, <3>3, <3>4, <3>6, CasesCardinality DEF CasesInv, CaseWork!ReferencesMirrored
    <3> QED BY <3>4, <3>5, <3>8, <3>9 DEF CasesInv
  <2>4. CASE ~(s.object \notin references /\ CaseWork!Accepts(case, s.entity))
    <3>1. UNCHANGED << case, references >>
      BY <1>3, <2>4 DEF CaseWork!CommitEvidence
    <3>2. CaseWork!TypeOK'
      BY <1>3, <1>s, <1>t, <3>1 DEF CaseWork!CommitEvidence, CaseWork!Leave, CaseWork!TypeOK
    <3> QED BY <1>3, <3>1, <3>2, LeaveKeeps DEF CaseWork!CommitEvidence
  <2> QED BY <2>3, <2>4
<1>4. CASE CaseWork!Reload(a)
  <2> DEFINE r == [f \in DOMAIN s \union {"row"} |-> IF f = "row" THEN case ELSE s[f]]
  <2>1. /\ UNCHANGED << hypothesis, case, references, notes, feedback, calls >>
        /\ session' = [session EXCEPT ![a] =
               IF CaseWork!Accepts(case, s.entity) THEN r ELSE CaseWork!NoSession]
        /\ s.call \in {"update", "verdict"}
    BY <1>4 DEF CaseWork!Reload
  <2>2. /\ s.entity \in CaseWork!Case /\ s.entity.evidence_references \subseteq references
        /\ {"call", "entity"} \subseteq DOMAIN s
        /\ case \in CaseWork!Case /\ case.evidence_references = references
        /\ case # CaseWork!NoCase
    BY <1>s, <2>1, FoundIsTyped DEF SessionOK, CopyOf, Copying
  <2>3. r.call = s.call /\ r.entity = s.entity /\ r.row = case
        /\ {"call", "entity"} \subseteq DOMAIN r
    BY <2>2
  <2> HIDE DEF r
  <2>4. ASSUME CaseWork!Accepts(case, s.entity)
        PROVE  SessionOK(r, references, case # CaseWork!NoCase)
    BY <2>1, <2>2, <2>3, <2>4 DEF SessionOK, CopyOf, Copying, CaseWork!Accepts
  <2>5. \A b \in Analysts : SessionOK(session'[b], references', case' # CaseWork!NoCase)
    <3>1. CASE CaseWork!Accepts(case, s.entity)
      <4>1. session' = [session EXCEPT ![a] = r] BY <2>1, <3>1
      <4> QED BY <2>1, <2>4, <3>1, <4>1, SessionsStay
    <3>2. CASE ~CaseWork!Accepts(case, s.entity)
      <4>1. session' = [session EXCEPT ![a] = CaseWork!NoSession] BY <2>1, <3>2
      <4> QED BY <2>1, <4>1, SessionsStay, NoSessionIsOK
    <3> QED BY <3>1, <3>2
  <2>6. CaseWork!TypeOK'
    BY <1>s, <1>t, <2>1 DEF CaseWork!TypeOK
  <2>7. CaseWork!ReferencesMirrored'
    BY <2>1 DEF CasesInv, CaseWork!ReferencesMirrored
  <2> QED BY <2>1, <2>5, <2>6, <2>7 DEF CasesInv
<1>5. CASE CaseWork!FlushUpdate(a) \/ CaseWork!FlushVerdict(a)
  <2>1. /\ s.row \in CaseWork!Case /\ s.entity \in CaseWork!Case
        /\ s.row.evidence_references = s.entity.evidence_references
        /\ case \in CaseWork!Case /\ case.evidence_references = references
        /\ case # CaseWork!NoCase
    BY <1>5, <1>s, FoundIsTyped
    DEF CaseWork!FlushUpdate, CaseWork!FlushVerdict, SessionOK, Copying
  <2>2. /\ CaseWork!Written(s.row, s.entity) \in CaseWork!Case
        /\ CaseWork!Written(s.row, s.entity).evidence_references = references
    BY <2>1, WrittenIsTyped
  <2>3. /\ case' = case \/ case' = CaseWork!Written(s.row, s.entity)
        /\ UNCHANGED << hypothesis, references, notes >> /\ CaseWork!Leave(a)
    BY <1>5 DEF CaseWork!FlushUpdate, CaseWork!FlushVerdict
  <2>4. feedback' \in [Analysts \X CaseWork!Sources -> CaseWork!Verdicts \union {CaseWork!None}]
    <3>1. CASE CaseWork!FlushUpdate(a) BY <1>t, <3>1 DEF CaseWork!FlushUpdate, CaseWork!TypeOK
    <3>2. CASE /\ CaseWork!FlushVerdict(a)
               /\ CaseWork!Recorded(CaseWork!Written(s.row, s.entity), s, feedback[<< a, "case_verdict" >>])
      <4>1. feedback' = [feedback EXCEPT ![<< a, "case_verdict" >>] = s.entity.verdict]
        BY <3>2 DEF CaseWork!FlushVerdict
      <4>2. s.entity.verdict \in CaseWork!Verdicts \union {CaseWork!None}
        BY <2>1 DEF CaseWork!Case
      <4> QED BY <1>t, <4>1, <4>2 DEF CaseWork!TypeOK
    <3>3. CASE /\ CaseWork!FlushVerdict(a)
               /\ ~CaseWork!Recorded(CaseWork!Written(s.row, s.entity), s, feedback[<< a, "case_verdict" >>])
      BY <1>t, <3>3 DEF CaseWork!FlushVerdict, CaseWork!TypeOK
    <3> QED BY <1>5, <3>1, <3>2, <3>3
  <2>5. CaseWork!TypeOK'
    BY <1>s, <1>t, <2>2, <2>3, <2>4 DEF CaseWork!TypeOK, CaseWork!Leave
  <2> QED BY <2>1, <2>2, <2>3, <2>5, LeaveKeeps
<1>6. CASE CaseWork!CommitFeedback(a)
  <2>1. s.source \in CaseWork!Sources /\ s.verdict \in CaseWork!Verdicts
    BY <1>6, <1>s DEF CaseWork!CommitFeedback, SessionOK
  <2>2. CaseWork!TypeOK'
    BY <1>6, <1>s, <1>t, <2>1 DEF CaseWork!CommitFeedback, CaseWork!Leave, CaseWork!TypeOK
  <2> QED BY <1>6, <2>2, LeaveKeeps DEF CaseWork!CommitFeedback
<1>7. CASE CaseWork!CommitHypothesis(a)
  <2>1. s.status \in CaseWork!HypothesisStatuses
    BY <1>7, <1>s DEF CaseWork!CommitHypothesis, SessionOK
  <2>2. CaseWork!TypeOK'
    BY <1>7, <1>s, <1>t, <2>1 DEF CaseWork!CommitHypothesis, CaseWork!Leave, CaseWork!TypeOK
  <2> QED BY <1>7, <2>2, LeaveKeeps DEF CaseWork!CommitHypothesis
<1> QED BY <1>1, <1>2, <1>3, <1>4, <1>5, <1>6, <1>7 DEF CaseWork!Proceed

LEMMA CasesInvInit == CasesAssumption /\ CaseWork!Init => CasesInv
<1> SUFFICES ASSUME CasesAssumption, CaseWork!Init PROVE CasesInv
  OBVIOUS
<1>1. CaseWork!TypeOK
  BY DEF CasesAssumption, CaseWork!Init, CaseWork!TypeOK, CaseWork!HypothesisStatuses, CaseWork!Reviewable,
         CaseWork!HypothesisTransitions
<1>2. \A a \in Analysts : SessionOK(session[a], references, case # CaseWork!NoCase)
  BY NoSessionIsOK DEF CaseWork!Init
<1> QED BY <1>1, <1>2, FS_EmptySet DEF CasesInv, CaseWork!Init, CaseWork!ReferencesMirrored

LEMMA CasesInvStep == CasesAssumption /\ CasesInv /\ [CaseWork!Next]_(CaseWork!vars) => CasesInv'
<1> SUFFICES ASSUME CasesAssumption, CasesInv, [CaseWork!Next]_(CaseWork!vars) PROVE CasesInv'
  OBVIOUS
<1>1. ASSUME NEW a \in Analysts, CaseWork!Abandon(a) PROVE CasesInv'
  <2>1. CaseWork!TypeOK'
    BY <1>1 DEF CasesInv, CaseWork!Abandon, CaseWork!Leave, CaseWork!TypeOK
  <2> QED BY <1>1, <2>1, LeaveKeeps DEF CaseWork!Abandon
<1>2. CASE UNCHANGED CaseWork!vars
  BY <1>2 DEF CaseWork!vars, CasesInv, CaseWork!TypeOK, CaseWork!ReferencesMirrored
<1> QED BY <1>1, <1>2, RequestKeeps, ProceedKeeps DEF CaseWork!Next

\* The invariant of the part, in the composition.
LEMMA CasesHold == AnalystSpec => [](part = "cases" => CasesInv)
<1>1. AnalystInit => (part = "cases" => CasesInv)
  BY AnalystAssumption, CasesInvInit DEF AnalystInit
<1>2. (part = "cases" => CasesInv) /\ [AnalystNext]_AnalystVars => (part = "cases" => CasesInv)'
  <2> SUFFICES ASSUME part = "cases" => CasesInv, [AnalystNext]_AnalystVars, part' = "cases"
               PROVE  CasesInv'
    OBVIOUS
  <2>1. part = "cases" /\ [CaseWork!Next]_(CaseWork!vars)
    BY DEF AnalystNext, CaseWorkNext, ReviewsNext, AnalystVars, CaseVars, ReviewVars, CaseWork!vars
  <2> QED BY <2>1, AnalystAssumption, CasesInvStep
<1> QED BY <1>1, <1>2, PTL DEF AnalystSpec

\* The hypothesis, the case, its notes and its feedback have the statuses,
\* verdicts and objects of the enumerations.
THEOREM CasesTypesCorrect == ASSUME CasesAssumption PROVE CaseWork!Spec => []CaseWork!TypeOK
<1>1. CasesInv => CaseWork!TypeOK BY DEF CasesInv
<1> QED BY <1>1, CasesInvInit, CasesInvStep, PTL DEF CaseWork!Spec

\* The evidence_references of a case row are the objects of its reference rows,
\* although create_from_hypothesis and add_evidence read the case in one
\* transaction and write the rows in another.
THEOREM ReferencesAreMirrored == AnalystSpec => []ReferencesMirrored
<1>1. CasesInv => CaseWork!ReferencesMirrored BY DEF CasesInv
<1>2. (part = "cases" => CasesInv) => ReferencesMirrored
  BY <1>1 DEF ReferencesMirrored
<1> QED BY <1>2, CasesHold, PTL

\* Feedback that set_verdict records on a case is committed in one step with that
\* verdict of the case, whatever other analysts write in between.
THEOREM VerdictsComeWithFeedback == AnalystSpec => FeedbackMatchesCase
<1>1. CasesInv /\ [CaseWork!Next]_(CaseWork!vars) => [CaseWork!FeedbackMatchesCaseStep]_(CaseWork!vars)
  <2> SUFFICES ASSUME CasesInv, CaseWork!Next, NEW a \in Analysts, session[a].call = "verdict",
                      feedback'[<< a, "case_verdict" >>] # feedback[<< a, "case_verdict" >>]
               PROVE  case'.verdict = feedback'[<< a, "case_verdict" >>]
    BY DEF CaseWork!FeedbackMatchesCaseStep
  <2>1. PICK b \in Analysts : CaseWork!FlushVerdict(b) \/ CaseWork!CommitFeedback(b)
    BY DEF CaseWork!Next, CaseWork!Request, CaseWork!Command, CaseWork!UpdateHypothesis, CaseWork!Abandon,
           CaseWork!CreateCase, CaseWork!UpdateCase, CaseWork!AddNote, CaseWork!AddEvidence,
           CaseWork!AddCaseFeedback, CaseWork!Close, CaseWork!ChangeStatus, CaseWork!SetPriority,
           CaseWork!Assign, CaseWork!SetVerdict, CaseWork!Open, CaseWork!Proceed, CaseWork!CommitCreate,
           CaseWork!CommitNote, CaseWork!CommitEvidence, CaseWork!Reload, CaseWork!FlushUpdate,
           CaseWork!CommitHypothesis
  <2>2. << a, "case_verdict" >> \in DOMAIN feedback
    BY DEF CasesInv, CaseWork!TypeOK, CaseWork!Sources
  <2>3. CASE CaseWork!FlushVerdict(b)
    BY <2>2, <2>3 DEF CaseWork!FlushVerdict, CaseWork!Recorded
  <2>4. CASE CaseWork!CommitFeedback(b)
    BY <2>2, <2>4 DEF CaseWork!CommitFeedback
  <2> QED BY <2>1, <2>3, <2>4
<1>2. (part = "cases" => CasesInv) /\ [AnalystNext]_AnalystVars
        => [part = "cases" => CaseWork!FeedbackMatchesCaseStep]_AnalystVars
  <2> SUFFICES ASSUME part = "cases", CasesInv, [AnalystNext]_AnalystVars, AnalystVars' # AnalystVars
               PROVE  CaseWork!FeedbackMatchesCaseStep
    OBVIOUS
  <2>1. CaseWork!Next /\ UNCHANGED << part, ReviewVars >>
    BY DEF AnalystNext, CaseWorkNext, ReviewsNext
  <2>2. CaseWork!vars' # CaseWork!vars
    BY <2>1 DEF AnalystVars, CaseVars, CaseWork!vars
  <2> QED BY <1>1, <2>1, <2>2
<1> QED BY <1>2, CasesHold, PTL DEF AnalystSpec, FeedbackMatchesCase

-----------------------------------------------------------------------------
(* Feedback and retraining candidates.                                     *)

\* What is known of the call an analyst has under way.
ReviewOK(a, s) ==
    /\ s.call = "record" =>
        /\ s.id \in Reviews!Ids /\ s.id[1] \in ReviewedAlerts /\ s.id[2] = a
        /\ s.entity \in Reviews!Feedback /\ s.entity.verdict = s.verdict
        /\ s.verdict \in AnalystVerdicts /\ s.now \in 0..ReviewCalls
    /\ s.call = "patch" =>
        s.alert \in ReviewedAlerts /\ s.verdict \in AnalystVerdicts /\ s.now \in 0..ReviewCalls

\* Record i backs verdict v, and a call under way that will replace the record
\* with another verdict knows that it changes the alert's.
Backs(i, v) ==
    /\ feedback[i].verdict = v
    /\ LET s == session[i[2]]
       IN  s.call = "record" /\ s.id = i => s.changes \/ s.verdict = v

ReviewsInv ==
    /\ Reviews!TypeOK
    /\ \A a \in Analysts : ReviewOK(a, session[a])
    /\ \A x \in ReviewedAlerts : x \notin patched /\ alert[x].verdict # Reviews!None =>
        \E i \in Reviews!Given : i[1] = x /\ Backs(i, alert[x].verdict)

LEMMA IdsAreTriples == \A i \in Reviews!Ids : i[2] \in Analysts
BY DEF Reviews!Ids

LEMMA GivenVerdict ==
    ASSUME ReviewsAssumption, NEW i \in Reviews!Ids, feedback[i].verdict \in AnalystVerdicts
    PROVE  i \in Reviews!Given
BY DEF Reviews!Given, Reviews!NoFeedback, Reviews!None, ReviewsAssumption, Reviews!AllVerdicts

\* A step that opens a call or adds feedback on a case.
LEMMA ReviewOpens ==
    ASSUME ReviewsAssumption, ReviewsInv, NEW a \in Analysts,
           \/ \E x \in ReviewedAlerts, s \in FeedbackSources, v \in AnalystVerdicts, c, u \in BOOLEAN :
                Reviews!RecordAlert(a, x, s, v, c, u)
           \/ \E x \in ReviewedAlerts, v \in AnalystVerdicts : Reviews!PatchAlert(a, x, v)
    PROVE  ReviewsInv'
<1>1. PICK s : /\ Reviews!Open(a, s) /\ ReviewOK(a, s)
               /\ s.call = "record" => s.changes = (alert[s.id[1]].verdict # s.verdict)
  <2>1. ASSUME NEW x \in ReviewedAlerts, NEW z \in FeedbackSources, NEW v \in AnalystVerdicts, NEW c \in BOOLEAN,
               NEW u \in BOOLEAN, Reviews!RecordAlert(a, x, z, v, c, u)
        PROVE  \E s : /\ Reviews!Open(a, s) /\ ReviewOK(a, s)
                      /\ s.call = "record" => s.changes = (alert[s.id[1]].verdict # s.verdict)
    <3> DEFINE id == << x, a, z >>
               entity == [verdict |-> v, confident |-> c, updated_at |-> calls + 1]
               s == [call |-> "record", id |-> id, entity |-> Reviews!Recorded(feedback[id], entity),
                     changes |-> alert[x].verdict # v, verdict |-> v, now |-> calls + 1]
    <3>1. Reviews!Open(a, s)
      BY <2>1 DEF Reviews!RecordAlert
    <3>2. calls + 1 \in 0..ReviewCalls
      BY <3>1 DEF ReviewsAssumption, ReviewsInv, Reviews!TypeOK, Reviews!Open
    <3>3. id \in Reviews!Ids /\ id[1] = x /\ id[2] = a
      BY DEF Reviews!Ids
    <3>4. entity \in Reviews!Feedback
      BY <3>2 DEF Reviews!Feedback
    <3>5. feedback[id] \in Reviews!Feedback \union {Reviews!NoFeedback}
      BY <3>3 DEF ReviewsInv, Reviews!TypeOK
    <3>6. /\ Reviews!Recorded(feedback[id], entity) \in Reviews!Feedback
          /\ Reviews!Recorded(feedback[id], entity).verdict = v
      BY <3>4, <3>5 DEF Reviews!Recorded
    <3>7. ReviewOK(a, s)
      BY <3>2, <3>3, <3>6 DEF ReviewOK
    <3> QED BY <3>1, <3>3, <3>7
  <2>2. ASSUME NEW x \in ReviewedAlerts, NEW v \in AnalystVerdicts, Reviews!PatchAlert(a, x, v)
        PROVE  \E s : /\ Reviews!Open(a, s) /\ ReviewOK(a, s)
                      /\ s.call = "record" => s.changes = (alert[s.id[1]].verdict # s.verdict)
    <3> DEFINE s == [call |-> "patch", alert |-> x, verdict |-> v, now |-> calls + 1]
    <3>1. Reviews!Open(a, s)
      BY <2>2 DEF Reviews!PatchAlert
    <3>2. calls + 1 \in 0..ReviewCalls
      BY <3>1 DEF ReviewsAssumption, ReviewsInv, Reviews!TypeOK, Reviews!Open
    <3>3. ReviewOK(a, s) /\ s.call # "record"
      BY <3>2 DEF ReviewOK
    <3> QED BY <3>1, <3>3
  <2> QED BY <2>1, <2>2
<1>2. /\ UNCHANGED << alert, feedback, artifact, patched >>
      /\ session' = [session EXCEPT ![a] = s] /\ calls' = calls + 1 /\ calls < ReviewCalls
      /\ DOMAIN session = Analysts
  BY <1>1 DEF Reviews!Open, ReviewsInv, Reviews!TypeOK
<1>3. Reviews!TypeOK'
  BY <1>2 DEF ReviewsAssumption, ReviewsInv, Reviews!TypeOK
<1>4. \A b \in Analysts : ReviewOK(b, session[b])'
  BY <1>1, <1>2 DEF ReviewsInv, ReviewOK
<1>5. ASSUME NEW x \in ReviewedAlerts, x \notin patched, alert[x].verdict # Reviews!None
      PROVE  \E i \in Reviews!Given' : i[1] = x /\ Backs(i, alert[x].verdict)'
  <2>1. PICK i \in Reviews!Given : i[1] = x /\ Backs(i, alert[x].verdict)
    BY <1>5 DEF ReviewsInv
  <2>2. i \in Reviews!Given' /\ i[2] \in Analysts
    BY <1>2, IdsAreTriples DEF Reviews!Given
  <2>3. Backs(i, alert[x].verdict)'
    BY <1>1, <1>2, <2>1, <2>2 DEF Backs
  <2> QED BY <2>1, <2>2, <2>3
<1> QED BY <1>2, <1>3, <1>4, <1>5 DEF ReviewsInv

\* Whoever leaves a call takes nothing away from what backs a verdict, if the
\* records others give stay and so do the verdicts.
LEMMA LeaveBacks ==
    ASSUME ReviewsInv, NEW a \in Analysts, Reviews!Leave(a),
           NEW x \in ReviewedAlerts, x \notin patched, alert'[x] = alert[x],
           alert[x].verdict # Reviews!None,
           \A i \in Reviews!Given : i \in Reviews!Given' /\ (Backs(i, alert[x].verdict) /\ i[1] = x =>
                feedback'[i].verdict = alert[x].verdict)
    PROVE  \E i \in Reviews!Given' : i[1] = x /\ Backs(i, alert[x].verdict)'
<1>1. PICK i \in Reviews!Given : i[1] = x /\ Backs(i, alert[x].verdict)
  BY DEF ReviewsInv
<1>2. i[2] \in Analysts
  BY IdsAreTriples DEF Reviews!Given
<1>3. DOMAIN session = Analysts
  BY DEF ReviewsInv, Reviews!TypeOK
<1>4. Backs(i, alert[x].verdict)'
  BY <1>1, <1>2, <1>3 DEF Reviews!Leave, Backs, Reviews!NoSession, Reviews!None
<1> QED BY <1>1, <1>4

LEMMA LeaveKeepsSessions ==
    ASSUME ReviewsInv, NEW a \in Analysts, Reviews!Leave(a)
    PROVE  DOMAIN session' = Analysts /\ \A b \in Analysts : ReviewOK(b, session[b])'
BY DEF ReviewsInv, Reviews!TypeOK, Reviews!Leave, ReviewOK, Reviews!NoSession, Reviews!None

\* The three outcomes of a record that is committed.
LEMMA RecordKeeps ==
    ASSUME ReviewsAssumption, ReviewsInv, NEW a \in Analysts, Reviews!CommitRecord(a)
    PROVE  ReviewsInv'
<1> DEFINE s == session[a]
           x == s.id[1]
<1>1. /\ s.id \in Reviews!Ids /\ x \in ReviewedAlerts /\ s.id[2] = a
      /\ s.entity \in Reviews!Feedback /\ s.entity.verdict = s.verdict
      /\ s.verdict \in AnalystVerdicts /\ s.now \in 0..ReviewCalls
  BY DEF ReviewsInv, Reviews!CommitRecord, ReviewOK
<1>2. Reviews!Leave(a) /\ UNCHANGED << artifact, patched >>
  BY DEF Reviews!CommitRecord
<1>3. DOMAIN session' = Analysts /\ \A b \in Analysts : ReviewOK(b, session[b])'
  BY <1>2, LeaveKeepsSessions
<1>4. DOMAIN feedback = Reviews!Ids /\ DOMAIN alert = ReviewedAlerts
  BY DEF ReviewsInv, Reviews!TypeOK
<1>5. CASE /\ feedback' = [feedback EXCEPT ![s.id] = s.entity]
           /\ \/ Reviews!KeepsVerdict(s, x) /\ UNCHANGED alert
              \/ alert' = [alert EXCEPT ![x] = [verdict |-> s.verdict, updated_at |-> s.now]]
  <2>1. feedback' \in [Reviews!Ids -> Reviews!Feedback \union {Reviews!NoFeedback}]
    BY <1>1, <1>5 DEF ReviewsInv, Reviews!TypeOK
  <2>2. s.id \in Reviews!Given' /\ feedback'[s.id].verdict = s.verdict
    <3>1. feedback'[s.id] = s.entity BY <1>1, <1>4, <1>5
    <3>2. s.entity # Reviews!NoFeedback
      BY <1>1 DEF Reviews!NoFeedback, Reviews!None, ReviewsAssumption, Reviews!AllVerdicts
    <3> QED BY <1>1, <3>1, <3>2 DEF Reviews!Given
  <2>3. \A i \in Reviews!Given : i \in Reviews!Given' /\ (i # s.id => feedback'[i] = feedback[i])
    BY <1>4, <1>5, <2>2 DEF Reviews!Given
  <2>4. PICK id, v : id = s.id /\ v = s.verdict
    OBVIOUS
  <2>i. Backs(id, v)'
    BY <1>1, <1>2, <2>2, <2>4 DEF Backs, Reviews!Leave, ReviewsInv, Reviews!TypeOK,
                                  Reviews!NoSession, Reviews!None
  <2>5. CASE Reviews!KeepsVerdict(s, x) /\ UNCHANGED alert
    <3>1. ASSUME NEW y \in ReviewedAlerts, y \notin patched, alert[y].verdict # Reviews!None
          PROVE  \E i \in Reviews!Given' : i[1] = y /\ Backs(i, alert[y].verdict)'
      <4>1. ASSUME NEW i \in Reviews!Given, Backs(i, alert[y].verdict), i[1] = y
            PROVE  feedback'[i].verdict = alert[y].verdict
        <5>1. CASE i # s.id BY <2>3, <4>1, <5>1 DEF Backs
        <5>2. CASE i = s.id
          <6>1. s.call = "record" BY DEF Reviews!CommitRecord
          <6>2. s.changes \/ s.verdict = alert[y].verdict
            BY <1>1, <4>1, <5>2, <6>1 DEF Backs
          <6>3. s.verdict = alert[y].verdict
            BY <2>5, <4>1, <5>2, <6>2 DEF Reviews!KeepsVerdict
          <6> QED BY <2>2, <5>2, <6>3
        <5> QED BY <5>1, <5>2
      <4> QED BY <1>2, <2>3, <2>5, <3>1, <4>1, LeaveBacks
    <3>2. Reviews!TypeOK'
      BY <1>2, <1>3, <2>1, <2>5 DEF ReviewsInv, Reviews!TypeOK, Reviews!Leave
    <3> QED BY <1>2, <1>3, <2>5, <3>1, <3>2 DEF ReviewsInv
  <2>6. CASE alert' = [alert EXCEPT ![x] = [verdict |-> s.verdict, updated_at |-> s.now]]
    <3>1. ASSUME NEW y \in ReviewedAlerts, y \notin patched, alert'[y].verdict # Reviews!None
          PROVE  \E i \in Reviews!Given' : i[1] = y /\ Backs(i, alert[y].verdict)'
      <4>1. CASE y = x
        <5>1. alert'[y].verdict = s.verdict BY <1>1, <1>4, <2>6, <4>1
        <5> QED BY <2>2, <2>4, <2>i, <4>1, <5>1
      <4>2. CASE y # x
        <5>1. alert'[y] = alert[y] BY <1>4, <2>6, <4>2
        <5>2. ASSUME NEW i \in Reviews!Given, Backs(i, alert[y].verdict), i[1] = y
              PROVE  feedback'[i].verdict = alert[y].verdict
          BY <2>3, <4>2, <5>2 DEF Backs
        <5> QED BY <1>2, <2>3, <3>1, <5>1, <5>2, LeaveBacks
      <4> QED BY <4>1, <4>2
    <3>2. Reviews!TypeOK'
      BY <1>1, <1>2, <1>3, <2>1, <2>6 DEF ReviewsInv, Reviews!TypeOK, Reviews!Leave
    <3> QED BY <1>2, <1>3, <3>1, <3>2 DEF ReviewsInv
  <2> QED BY <1>5, <2>5, <2>6
<1>6. CASE UNCHANGED << alert, feedback >>
  <2>1. Reviews!TypeOK'
    BY <1>2, <1>3, <1>6 DEF ReviewsInv, Reviews!TypeOK, Reviews!Leave
  <2>2. \A i \in Reviews!Given : i \in Reviews!Given'
    BY <1>6 DEF Reviews!Given
  <2>3. ASSUME NEW y \in ReviewedAlerts, y \notin patched, alert[y].verdict # Reviews!None
        PROVE  \E i \in Reviews!Given' : i[1] = y /\ Backs(i, alert[y].verdict)'
    BY <1>2, <1>6, <2>2, <2>3, LeaveBacks DEF Backs
  <2> QED BY <1>2, <1>3, <1>6, <2>1, <2>3 DEF ReviewsInv
<1> QED BY <1>5, <1>6 DEF Reviews!CommitRecord

\* Feedback on a case, a verdict set without feedback, and a call given up.
LEMMA OthersKeep ==
    ASSUME ReviewsAssumption, ReviewsInv, NEW a \in Analysts,
           \/ \E c \in Cases, s \in FeedbackSources, v \in AnalystVerdicts, d \in BOOLEAN :
                Reviews!RecordCase(a, c, s, v, d)
           \/ Reviews!CommitPatch(a) \/ Reviews!Abandon(a)
    PROVE  ReviewsInv'
<1>t. /\ DOMAIN feedback = Reviews!Ids /\ DOMAIN alert = ReviewedAlerts /\ DOMAIN session = Analysts
  BY DEF ReviewsInv, Reviews!TypeOK
<1>1. ASSUME NEW c \in Cases, NEW z \in FeedbackSources, NEW v \in AnalystVerdicts, NEW d \in BOOLEAN,
             Reviews!RecordCase(a, c, z, v, d)
      PROVE  ReviewsInv'
  <2> DEFINE id == << c, a, z >>
             entity == [verdict |-> v, confident |-> d, updated_at |-> calls + 1]
  <2>1. /\ session[a] = Reviews!NoSession /\ calls < ReviewCalls /\ calls' = calls + 1
        /\ feedback[id] = Reviews!NoFeedback /\ feedback' = [feedback EXCEPT ![id] = entity]
        /\ UNCHANGED << alert, session, artifact, patched >>
    BY <1>1 DEF Reviews!RecordCase
  <2>2. id \in Reviews!Ids /\ id \notin Reviews!Given
    BY <2>1 DEF Reviews!Ids, Reviews!Given
  <2>3. entity \in Reviews!Feedback
    BY <2>1 DEF Reviews!Feedback, ReviewsInv, Reviews!TypeOK, ReviewsAssumption
  <2> HIDE DEF id, entity
  <2>4. Reviews!TypeOK'
    BY <2>1, <2>2, <2>3 DEF ReviewsInv, Reviews!TypeOK, ReviewsAssumption
  <2>5. \A b \in Analysts : ReviewOK(b, session[b])'
    BY <2>1 DEF ReviewsInv, ReviewOK
  <2>6. \A i \in Reviews!Given : i \in Reviews!Given' /\ feedback'[i] = feedback[i]
    BY <1>t, <2>1, <2>2 DEF Reviews!Given
  <2>7. ASSUME NEW y \in ReviewedAlerts, y \notin patched, alert[y].verdict # Reviews!None
        PROVE  \E i \in Reviews!Given' : i[1] = y /\ Backs(i, alert[y].verdict)'
    <3>1. PICK i \in Reviews!Given : i[1] = y /\ Backs(i, alert[y].verdict)
      BY <2>7 DEF ReviewsInv
    <3> QED BY <2>1, <2>6, <3>1 DEF Backs
  <2> QED BY <2>1, <2>4, <2>5, <2>7 DEF ReviewsInv
<1>2. CASE Reviews!CommitPatch(a)
  <2> DEFINE s == session[a]
  <2>1. s.alert \in ReviewedAlerts /\ s.verdict \in AnalystVerdicts /\ s.now \in 0..ReviewCalls
    BY <1>2 DEF Reviews!CommitPatch, ReviewsInv, ReviewOK
  <2>2. /\ alert' = [alert EXCEPT ![s.alert] = [verdict |-> s.verdict, updated_at |-> s.now]]
        /\ patched' = patched \union {s.alert}
        /\ Reviews!Leave(a) /\ UNCHANGED << feedback, artifact >>
    BY <1>2 DEF Reviews!CommitPatch
  <2>3. DOMAIN session' = Analysts /\ \A b \in Analysts : ReviewOK(b, session[b])'
    BY <2>2, LeaveKeepsSessions
  <2>4. Reviews!TypeOK'
    BY <2>1, <2>2, <2>3 DEF ReviewsInv, Reviews!TypeOK, Reviews!Leave
  <2>5. ASSUME NEW y \in ReviewedAlerts, y \notin patched', alert'[y].verdict # Reviews!None
        PROVE  \E i \in Reviews!Given' : i[1] = y /\ Backs(i, alert[y].verdict)'
    <3>1. y \notin patched /\ alert'[y] = alert[y]
      BY <1>t, <2>2, <2>5
    <3>2. \A i \in Reviews!Given : i \in Reviews!Given' /\ feedback'[i] = feedback[i]
      BY <2>2 DEF Reviews!Given
    <3> QED BY <2>2, <2>5, <3>1, <3>2, LeaveBacks DEF Backs
  <2> QED BY <2>3, <2>4, <2>5 DEF ReviewsInv
<1>3. CASE Reviews!Abandon(a)
  <2>1. Reviews!Leave(a) /\ UNCHANGED << alert, feedback, artifact, patched >>
    BY <1>3 DEF Reviews!Abandon
  <2>2. DOMAIN session' = Analysts /\ \A b \in Analysts : ReviewOK(b, session[b])'
    BY <2>1, LeaveKeepsSessions
  <2>3. Reviews!TypeOK'
    BY <2>1, <2>2 DEF ReviewsInv, Reviews!TypeOK, Reviews!Leave
  <2>4. ASSUME NEW y \in ReviewedAlerts, y \notin patched, alert[y].verdict # Reviews!None
        PROVE  \E i \in Reviews!Given' : i[1] = y /\ Backs(i, alert[y].verdict)'
    <3>1. \A i \in Reviews!Given : i \in Reviews!Given' /\ feedback'[i] = feedback[i]
      BY <2>1 DEF Reviews!Given
    <3> QED BY <2>1, <2>4, <3>1, LeaveBacks DEF Backs
  <2> QED BY <2>1, <2>2, <2>3, <2>4 DEF ReviewsInv
<1> QED BY <1>1, <1>2, <1>3

-----------------------------------------------------------------------------
\* What CandidatesAccountForFeedback says of one data set.
Accounts(d) ==
    LET used == {r.supporting : r \in d.rows \union d.conflicts}
    IN  /\ (UNION used) \union d.exclusions = DOMAIN d.verdicts
        /\ (UNION used) \intersect d.exclusions = {}
        /\ \A s, t \in used : s = t \/ s \intersect t = {}
        /\ \A r \in d.rows :
            /\ r.flow \in EligibleFlows
            /\ \A i \in r.supporting :
                FlowOf[i[1]] = r.flow /\ Reviews!LabelOf(d.verdicts[i]) = r.label
        /\ \A r \in d.rows, c \in d.conflicts : r.flow # c.flow

LEMMA ReviewsCardinality == \A S : Reviews!Cardinality(S) = Cardinality(S)
BY DEF Reviews!Cardinality, Cardinality

\* A group whose labels are one has no other label than the one it is given.
LEMMA OneLabel ==
    ASSUME NEW I, \A i \in I : Reviews!Resolves(i) /\ feedback[i].verdict \in Reviews!AllVerdicts,
           Reviews!Unanimous(I), NEW i \in I
    PROVE  Reviews!LabelOf(feedback[i].verdict) = CHOOSE l \in Reviews!LabelsOf(I) : TRUE
<1> DEFINE L == Reviews!LabelsOf(I)
<1>1. Reviews!LabelOf(feedback[i].verdict) \in L
  BY DEF Reviews!LabelsOf
<1>2. L \subseteq {"malicious", "benign"}
  <2> SUFFICES ASSUME NEW j \in I
               PROVE  Reviews!LabelOf(feedback[j].verdict) \in {"malicious", "benign"}
    BY DEF Reviews!LabelsOf
  <2>1. Reviews!LabelOf(feedback[j].verdict) # Reviews!None
    BY DEF Reviews!Resolves
  <2> QED BY <2>1 DEF Reviews!LabelOf, Reviews!AllVerdicts
<1>3. IsFiniteSet(L)
  <2>1. IsFiniteSet({"malicious", "benign"})
    <3>1. IsFiniteSet({"malicious"}) BY FS_Singleton
    <3>2. IsFiniteSet({"malicious"} \union {"benign"}) BY <3>1, FS_AddElement
    <3>3. {"malicious"} \union {"benign"} = {"malicious", "benign"} OBVIOUS
    <3> QED BY <3>2, <3>3
  <2> QED BY <1>2, <2>1, FS_Subset
<1>4. Cardinality(L) = 1
  BY ReviewsCardinality DEF Reviews!Unanimous
<1>5. PICK l : L = {l}
  BY <1>3, <1>4, FS_Singleton
<1> QED BY <1>1, <1>5

LEMMA CandidatesAccount ==
    ASSUME ReviewsAssumption, Reviews!TypeOK PROVE Accounts(Reviews!Candidates)
<1> DEFINE resolved == {i \in Reviews!Given : Reviews!Resolves(i)}
           group(f) == {i \in resolved : FlowOf[i[1]] = f}
           flows == {FlowOf[i[1]] : i \in resolved}
           agreed == {f \in flows : Reviews!Unanimous(group(f))}
           label(f) == CHOOSE l \in Reviews!LabelsOf(group(f)) : TRUE
           row(f) == [flow |-> f, label |-> label(f), supporting |-> group(f)]
           conflict(f) == [flow |-> f, supporting |-> group(f)]
           rows == {row(f) : f \in agreed}
           conflicts == {conflict(f) : f \in flows \ agreed}
           d == Reviews!Candidates
           used == {r.supporting : r \in rows \union conflicts}
<1>1. /\ d.rows = rows /\ d.conflicts = conflicts /\ d.exclusions = Reviews!Given \ resolved
      /\ d.verdicts = [i \in Reviews!Given |-> feedback[i].verdict]
  BY DEF Reviews!Candidates
<1>2. \A f : /\ row(f).flow = f /\ row(f).label = label(f) /\ row(f).supporting = group(f)
             /\ conflict(f).flow = f /\ conflict(f).supporting = group(f)
  OBVIOUS
<1>3. \A i \in resolved : i \in group(FlowOf[i[1]]) /\ FlowOf[i[1]] \in flows
  OBVIOUS
<1>4. \A f, g : f = g \/ group(f) \intersect group(g) = {}
  OBVIOUS
<1>5. ASSUME NEW f \in agreed, NEW i \in group(f)
      PROVE  FlowOf[i[1]] = f /\ Reviews!LabelOf(feedback[i].verdict) = label(f)
  <2>1. FlowOf[i[1]] = f /\ Reviews!Unanimous(group(f)) /\ \A j \in group(f) : Reviews!Resolves(j)
    OBVIOUS
  <2>2. \A j \in group(f) : feedback[j].verdict \in Reviews!AllVerdicts
    BY DEF Reviews!Given, Reviews!TypeOK, Reviews!Feedback, ReviewsAssumption
  <2> HIDE DEF group
  <2> QED BY <2>1, <2>2, <1>5, OneLabel
<1>6. \A f \in flows : f \in EligibleFlows /\ group(f) \subseteq resolved
  BY DEF Reviews!Resolves
<1>7. resolved \subseteq Reviews!Given /\ agreed \subseteq flows
  OBVIOUS
<1> HIDE DEF resolved, group, flows, agreed, label, row, conflict, d
<1>8. \A s : s \in used <=> \E f \in flows : s = group(f)
  BY <1>2, <1>7
<1> HIDE DEF used
<1>9. UNION used = resolved
  BY <1>3, <1>6, <1>8
<1>10. \A s, t \in used : s = t \/ s \intersect t = {}
  BY <1>4, <1>8
<1>11. \A r \in rows : /\ r.flow \in EligibleFlows
                       /\ \A i \in r.supporting :
                            FlowOf[i[1]] = r.flow /\ Reviews!LabelOf(d.verdicts[i]) = r.label
  <2> SUFFICES ASSUME NEW f \in agreed
               PROVE  /\ f \in EligibleFlows
                      /\ \A i \in group(f) :
                            FlowOf[i[1]] = f /\ Reviews!LabelOf(d.verdicts[i]) = label(f)
    BY <1>2
  <2> QED BY <1>1, <1>5, <1>6, <1>7
<1>12. \A r \in rows, c \in conflicts : r.flow # c.flow
  BY <1>2
<1> HIDE DEF rows, conflicts
<1>13. (UNION used) \union d.exclusions = DOMAIN d.verdicts
  BY <1>1, <1>7, <1>9
<1>14. (UNION used) \intersect d.exclusions = {}
  BY <1>1, <1>9
<1>15. used = {r.supporting : r \in d.rows \union d.conflicts}
  BY <1>1 DEF used
<1> QED BY <1>1, <1>10, <1>11, <1>12, <1>13, <1>14, <1>15 DEF Accounts, d

\* A step builds at most one data set, out of the feedback it finds.
LEMMA ReviewsStep ==
    ASSUME ReviewsAssumption, ReviewsInv, [Reviews!Next]_(Reviews!vars) PROVE ReviewsInv'
<1>1. ASSUME UNCHANGED << alert, feedback, session, patched, calls >>, DOMAIN artifact' = CandidateVersions
      PROVE  ReviewsInv'
  BY <1>1 DEF ReviewsInv, Reviews!TypeOK, ReviewOK, Backs, Reviews!Given
<1>2. ASSUME NEW v \in CandidateVersions, Reviews!BuildCandidates(v) PROVE ReviewsInv'
  BY <1>1, <1>2 DEF Reviews!BuildCandidates, ReviewsInv, Reviews!TypeOK
<1>3. ASSUME NEW v \in CandidateVersions, NEW objects, Reviews!ExportFeedback(v, objects) PROVE ReviewsInv'
  BY <1>1, <1>3 DEF Reviews!ExportFeedback, ReviewsInv, Reviews!TypeOK
<1>4. CASE UNCHANGED Reviews!vars
  BY <1>1, <1>4 DEF Reviews!vars, ReviewsInv, Reviews!TypeOK
<1> QED BY <1>2, <1>3, <1>4, ReviewOpens, RecordKeeps, OthersKeep DEF Reviews!Next

LEMMA ReviewsInit == ReviewsAssumption /\ Reviews!Init => ReviewsInv
<1> SUFFICES ASSUME ReviewsAssumption, Reviews!Init PROVE ReviewsInv
  OBVIOUS
<1>1. Reviews!TypeOK
  BY DEF ReviewsAssumption, Reviews!Init, Reviews!TypeOK
<1>2. \A a \in Analysts : ReviewOK(a, session[a])
  BY DEF Reviews!Init, ReviewOK, Reviews!NoSession, Reviews!None
<1> QED BY <1>1, <1>2 DEF ReviewsInv, Reviews!Init

\* Every data set built so far accounts for its feedback.
LEMMA DataSetsStay ==
    ASSUME ReviewsAssumption, ReviewsInv, Reviews!CandidatesAccountForFeedback,
           [Reviews!Next]_(Reviews!vars)
    PROVE  Reviews!CandidatesAccountForFeedback'
<1>1. ASSUME NEW v \in CandidateVersions, artifact'[v] = artifact[v] \/ artifact'[v] = Reviews!Candidates
                                   \/ artifact'[v].kind # "candidates",
             artifact'[v].kind = "candidates"
      PROVE  Accounts(artifact'[v])
  <2>1. CASE artifact'[v] = artifact[v]
    BY <1>1, <2>1 DEF Reviews!CandidatesAccountForFeedback, Accounts
  <2>2. CASE artifact'[v] = Reviews!Candidates
    BY <2>2, CandidatesAccount DEF ReviewsInv
  <2> QED BY <1>1, <2>1, <2>2
<1>2. DOMAIN artifact = CandidateVersions
  BY DEF ReviewsInv, Reviews!TypeOK
<1>3. \A v \in CandidateVersions : \/ artifact'[v] = artifact[v] \/ artifact'[v] = Reviews!Candidates
                          \/ artifact'[v].kind # "candidates"
  <2>1. CASE UNCHANGED artifact
    BY <2>1
  <2>2. ASSUME NEW w \in CandidateVersions, Reviews!BuildCandidates(w)
        PROVE  \A v \in CandidateVersions : artifact'[v] = artifact[v] \/ artifact'[v] = Reviews!Candidates
    BY <1>2, <2>2 DEF Reviews!BuildCandidates
  <2>3. ASSUME NEW w \in CandidateVersions, NEW objects, Reviews!ExportFeedback(w, objects)
        PROVE  \A v \in CandidateVersions : artifact'[v] = artifact[v] \/ artifact'[v].kind # "candidates"
    BY <1>2, <2>3 DEF Reviews!ExportFeedback
  <2>4. ASSUME NEW a \in Analysts, ~UNCHANGED artifact,
               \/ \E x \in ReviewedAlerts, s \in FeedbackSources, v \in AnalystVerdicts, c, u \in BOOLEAN :
                    Reviews!RecordAlert(a, x, s, v, c, u)
               \/ \E c \in Cases, s \in FeedbackSources, v \in AnalystVerdicts, d \in BOOLEAN :
                    Reviews!RecordCase(a, c, s, v, d)
               \/ \E x \in ReviewedAlerts, v \in AnalystVerdicts : Reviews!PatchAlert(a, x, v)
               \/ Reviews!CommitRecord(a) \/ Reviews!CommitPatch(a) \/ Reviews!Abandon(a)
        PROVE  FALSE
    BY <2>4 DEF Reviews!RecordAlert, Reviews!RecordCase, Reviews!PatchAlert, Reviews!Open,
                Reviews!CommitRecord, Reviews!CommitPatch, Reviews!Abandon
  <2> QED BY <2>1, <2>2, <2>3, <2>4 DEF Reviews!Next, Reviews!vars
<1>4. \A v \in CandidateVersions : artifact'[v].kind = "candidates" => Accounts(artifact'[v])
  BY <1>1, <1>3
<1> QED BY <1>4 DEF Reviews!CandidatesAccountForFeedback, Accounts

\* The invariant of the part, in the composition.
LEMMA ReviewsHold == AnalystSpec => [](part = "feedback" => ReviewsInv)
<1>1. AnalystInit => (part = "feedback" => ReviewsInv)
  BY AnalystAssumption, ReviewsInit DEF AnalystInit
<1>2. (part = "feedback" => ReviewsInv) /\ [AnalystNext]_AnalystVars => (part = "feedback" => ReviewsInv)'
  <2> SUFFICES ASSUME part = "feedback" => ReviewsInv, [AnalystNext]_AnalystVars, part' = "feedback"
               PROVE  ReviewsInv'
    OBVIOUS
  <2>1. part = "feedback" /\ [Reviews!Next]_(Reviews!vars)
    BY DEF AnalystNext, CaseWorkNext, ReviewsNext, AnalystVars, CaseVars, ReviewVars, Reviews!vars
  <2> QED BY <2>1, AnalystAssumption, ReviewsStep
<1> QED BY <1>1, <1>2, PTL DEF AnalystSpec

\* Alerts and feedback have the verdicts of the enumeration, at times no later
\* than the number of calls.
THEOREM ReviewsTypesCorrect == ASSUME ReviewsAssumption PROVE Reviews!Spec => []Reviews!TypeOK
<1>1. ReviewsInv => Reviews!TypeOK BY DEF ReviewsInv
<1> QED BY <1>1, ReviewsInit, ReviewsStep, PTL DEF Reviews!Spec

\* An alert that only record_feedback gave a verdict has that verdict from some
\* analyst's current feedback, however the calls of the analysts interleave.
THEOREM VerdictsAreBacked == AnalystSpec => []VerdictIsBacked
<1>1. ReviewsInv => Reviews!VerdictIsBacked BY DEF ReviewsInv, Reviews!VerdictIsBacked, Backs
<1>2. (part = "feedback" => ReviewsInv) => VerdictIsBacked
  BY <1>1 DEF VerdictIsBacked
<1> QED BY <1>2, ReviewsHold, PTL

\* A candidate data set accounts for each piece of the feedback it was built from
\* once, as a row of analysts who all agree, a conflict or an exclusion, and has
\* rows of eligible flows only.
THEOREM CandidatesAreAccountedFor == AnalystSpec => []CandidatesAccountForFeedback
<1>1. AnalystInit => CandidatesAccountForFeedback
  BY DEF AnalystInit, CandidatesAccountForFeedback, Reviews!Init,
         Reviews!CandidatesAccountForFeedback, Reviews!NoArtifact, Reviews!None
<1>2. /\ (part = "feedback" => ReviewsInv) /\ CandidatesAccountForFeedback
      /\ [AnalystNext]_AnalystVars
      => CandidatesAccountForFeedback'
  <2> SUFFICES ASSUME part = "feedback" => ReviewsInv, CandidatesAccountForFeedback,
                      [AnalystNext]_AnalystVars, part' = "feedback"
               PROVE  Reviews!CandidatesAccountForFeedback'
    BY DEF CandidatesAccountForFeedback
  <2>1. part = "feedback" /\ [Reviews!Next]_(Reviews!vars)
    BY DEF AnalystNext, CaseWorkNext, ReviewsNext, AnalystVars, CaseVars, ReviewVars, Reviews!vars
  <2> QED BY <2>1, AnalystAssumption, DataSetsStay DEF CandidatesAccountForFeedback
<1> QED BY <1>1, <1>2, ReviewsHold, PTL DEF AnalystSpec

=============================================================================
