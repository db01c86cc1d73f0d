---------------------------- MODULE ModelRegistry ---------------------------
(***************************************************************************)
(* The global model pointers: rows of model_versions, and their activation *)
(* by overlapping calls of POST /models/{model_id}/activate.               *)
(*                                                                         *)
(* A call first verifies every bundle under the artifact roots, then opens *)
(* a session.  An unknown version is inserted, so the write lock is held   *)
(* before the active row is selected.  A known version is selected, then   *)
(* the active row, both outside a transaction; the flush writes the status *)
(* of the rows whose copy changed, by primary key, whatever was committed  *)
(* in between.  Nothing in the table makes the active row of a type unique.*)
(***************************************************************************)
EXTENDS Naturals, Sequences

CONSTANTS
    Callers,
    Engines,            \* of {"supervised", "anomaly"}
    BundleVersions,     \* versions with a bundle under the root of each engine
    Qualified,          \* << engine, version >> that are validation_qualified
    Activations         \* bound on the calls of a behaviour

None == "none"
Idle == [pc |-> "idle"]

VARIABLES
    rows,       \* model_versions of each engine in order of insertion
    damaged,    \* bundles that no longer verify
    caller,     \* the call each caller has under way
    overtaken,  \* engines for which a call flushed what it had read before another
                \* call changed the rows (history)
    activations

vars == << rows, damaged, caller, overtaken, activations >>

Row == [version : BundleVersions, status : {"active", "retired"}]

TypeOK ==
    /\ DOMAIN rows = Engines /\ DOMAIN caller = Callers
    /\ \A e \in Engines : \A i \in DOMAIN rows[e] : rows[e][i] \in Row
    /\ \A e \in Engines : \A i, j \in DOMAIN rows[e] :
        i # j => rows[e][i].version # rows[e][j].version
    /\ damaged \subseteq Engines \X BundleVersions /\ overtaken \subseteq Engines
    /\ activations \in 0..Activations

Init ==
    /\ rows = [e \in Engines |-> << >>]
    /\ damaged = {}
    /\ caller = [c \in Callers |-> Idle]
    /\ overtaken = {} /\ activations = 0

-----------------------------------------------------------------------------
ActiveRows(e) == {i \in DOMAIN rows[e] : rows[e][i].status = "active"}
IndexOf(e, v) == {i \in DOMAIN rows[e] : rows[e][i].version = v}

\* session.scalar on the active rows: the first in the order of the table.
CurrentVersion(e) ==
    IF ActiveRows(e) = {} THEN None
    ELSE rows[e][CHOOSE i \in ActiveRows(e) : \A j \in ActiveRows(e) : i <= j].version

\* list_models: one bundle that does not verify fails the whole listing.
Listed == IF damaged = {} THEN Engines \X BundleVersions ELSE {}
Eligible(e, v) == << e, v >> \in Listed \ Qualified

Begin(c, e, v, expected) ==
    /\ caller[c] = Idle /\ activations < Activations
    /\ Eligible(e, v)
    /\ caller' = [caller EXCEPT ![c] =
           [pc |-> "verified", engine |-> e, version |-> v, expected |-> expected,
            target |-> None, found |-> None, stale |-> FALSE]]
    /\ activations' = activations + 1
    /\ UNCHANGED << rows, damaged, overtaken >>

\* get_by_type_version.  A copy of the row that is found stays in the session.
SelectTarget(c) ==
    /\ caller[c].pc = "verified"
    /\ LET k == caller[c]
           found == IndexOf(k.engine, k.version)
       IN  caller' = [caller EXCEPT ![c] =
               IF found = {} THEN [k EXCEPT !.pc = "insert"]
               ELSE [k EXCEPT !.pc = "select",
                              !.target = rows[k.engine][CHOOSE i \in found : TRUE].status]]
    /\ UNCHANGED << rows, damaged, overtaken, activations >>

Leave(c) ==
    /\ caller' = [caller EXCEPT ![c] = Idle]
    /\ UNCHANGED << rows, damaged, overtaken, activations >>

\* The call of c leaves the rows of its engine as R.  Other calls may have read what
\* this changes.
Commit(c, R) ==
    LET e == caller[c].engine
        Misses(d) == R # rows[e] /\ caller[d].pc \in {"select", "flush"} /\ caller[d].engine = e
    IN  /\ rows' = [rows EXCEPT ![e] = R]
        /\ caller' = [d \in Callers |->
               IF d = c THEN Idle
               ELSE IF Misses(d) THEN [caller[d] EXCEPT !.stale = TRUE] ELSE caller[d]]
        /\ overtaken' = IF caller[c].stale THEN overtaken \union {e} ELSE overtaken
        /\ UNCHANGED << damaged, activations >>

WithStatus(R, version, status) ==
    [i \in DOMAIN R |-> IF R[i].version = version THEN [R[i] EXCEPT !.status = status] ELSE R[i]]

MayReplace_Unchecked(k) == TRUE

\* add and activate under the lock of the INSERT.  A row inserted meanwhile
\* breaks uniqueness of type and version; another active version than expected
\* rolls everything back.
MayReplace(k) == CurrentVersion(k.engine) = k.expected
InsertAndActivate(c) ==
    /\ caller[c].pc = "insert"
    /\ LET k == caller[c]
           R == rows[k.engine]
       IN  IF IndexOf(k.engine, k.version) = {} /\ MayReplace(k)
           THEN Commit(c, Append(WithStatus(R, CurrentVersion(k.engine), "retired"),
                                 [version |-> k.version, status |-> "active"]))
           ELSE Leave(c)

\* ModelVersionRepository.activate of a row that exists, up to the flush.
SelectActive(c) ==
    /\ caller[c].pc = "select"
    /\ LET k == caller[c] IN
        IF MayReplace(k)
        THEN /\ caller' = [caller EXCEPT ![c] =
                    [k EXCEPT !.pc = "flush", !.found = CurrentVersion(k.engine)]]
             /\ UNCHANGED << rows, damaged, overtaken, activations >>
        ELSE Leave(c)

\* The row that was found active is retired, unless it is the target; the status of the
\* target is written if it was not active when selected.
Retires_Never(k) == FALSE
Retires(k) == k.found \notin {None, k.version}
FlushActivation(c) ==
    /\ caller[c].pc = "flush"
    /\ LET k == caller[c]
           R == rows[k.engine]
           retired == IF Retires(k) THEN WithStatus(R, k.found, "retired") ELSE R
       IN  Commit(c, IF k.target = "active" THEN retired
                     ELSE WithStatus(retired, k.version, "active"))

\* The caller's process dies or the commit fails.
Abandon(c) == caller[c] # Idle /\ Leave(c)

\* A bundle on disk is damaged: nothing is listed or activated from then on.
Damage(e, v) ==
    /\ damaged = {} /\ damaged' = {<< e, v >>}
    /\ UNCHANGED << rows, caller, overtaken, activations >>

Next ==
    \/ \E c \in Callers :
        \/ \E e \in Engines, v \in BundleVersions, x \in BundleVersions \union {None} :
               Begin(c, e, v, x)
        \/ SelectTarget(c) \/ InsertAndActivate(c)
        \/ SelectActive(c) \/ FlushActivation(c) \/ Abandon(c)
    \/ \E e \in Engines, v \in BundleVersions : Damage(e, v)

Spec == Init /\ [][Next]_vars

-----------------------------------------------------------------------------
OneActiveRow(e) == rows[e] # << >> => \E i \in ActiveRows(e) : ActiveRows(e) = {i}

\* docs/use_cases.md: exactly one intended version is active for each engine, and a
\* concurrent activation leaves it so.
OneActive == \A e \in Engines : OneActiveRow(e)

\* What the check of the expected version achieves, however calls overlap.  A version
\* stops being active only by a call whose caller knew that it was: nobody's activation
\* is undone unseen.  And an engine has one active version as long as no call flushed
\* what another call had changed since; registering a version can only overtake, it is
\* never overtaken, since the INSERT takes the lock before the active row is read.
Replaced(e) == {i \in DOMAIN rows[e] : rows[e][i].status = "active" /\ rows'[e][i].status # "active"}
ActivationStep ==
    \A e \in Engines :
        /\ \A i \in Replaced(e) : \E c \in Callers :
            /\ caller[c] # Idle /\ caller'[c] = Idle
            /\ caller[c].engine = e /\ caller[c].expected = rows[e][i].version
        /\ e \notin overtaken' => OneActiveRow(e)'
=============================================================================
