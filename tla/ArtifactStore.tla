---------------------------- MODULE ArtifactStore ---------------------------
(***************************************************************************)
(* Versioned artifact directories: reports, exports and candidate data     *)
(* sets (artifact_io.py), model bundles (ml/supervised/bundle.py,          *)
(* ml/anomaly/bundle.py), fusion policies (ml/fusion/artifacts.py) and     *)
(* explanations (explainability/artifacts.py).                             *)
(*                                                                         *)
(* All are written the same way: the destination must not exist, the files *)
(* go to a staging directory named after version and process id, and a     *)
(* rename publishes it.  A writer is a thread; threads of one process (the *)
(* API serves routes from a pool) share the process id and thereby the     *)
(* staging path.  A process may die at any point and start again under the *)
(* same id, as it does in a container.                                     *)
(***************************************************************************)
EXTENDS Naturals, FiniteSets, Sequences, SequencesExt

CONSTANTS
    Writers, ProcessOf, Kinds,
    Crashes             \* bound on the processes that die

AllKinds == {"data", "supervised", "anomaly", "policy", "explanation"}

Processes == {ProcessOf[w] : w \in Writers}

\* The files of each kind in the order they are written, checksums last.  Of a
\* data artifact and an explanation the payloads are reduced to two.
SupervisedFiles == << "model", "manifest", "model_card", "checksums" >>
AnomalyFiles == << "model", "manifest", "model_card", "checksums" >>
PolicyFiles == << "manifest", "model_card", "checksums" >>
ExplanationFiles == << "payload", "manifest", "checksums" >>
DataFiles == << "payload", "manifest", "checksums" >>

Files(k) ==
    CASE k = "supervised" -> SupervisedFiles
      [] k = "anomaly" -> AnomalyFiles
      [] k = "policy" -> PolicyFiles
      [] k = "explanation" -> ExplanationFiles
      [] k = "data" -> DataFiles

\* Whether the handler that removes the staging directory covers its mkdir.
CleansAfterMkdir == {"data", "policy", "explanation"}

VARIABLES
    destination,    \* by kind: who wrote each file of the published version
    staging,        \* by process and kind: the same for its staging directory
    writer,         \* where each writer is, and the kind it writes
    audited,        \* data artifacts whose audit record was committed
    crashes

vars == << destination, staging, writer, audited, crashes >>

\* A directory: the names of its files, each with the writer it is of.
Absent == [present |-> FALSE, files |-> {}]
Empty == [present |-> TRUE, files |-> {}]
Idle == [pc |-> "idle"]

\* One version of each kind, identified by the kind.
TypeOK ==
    /\ DOMAIN destination = Kinds /\ DOMAIN staging = Processes \X Kinds
    /\ \A w \in Writers : writer[w] # Idle =>
        /\ writer[w].kind \in Kinds
        /\ writer[w].pc \in {"checked", "writing", "cleaning", "emptied", "published"}
        /\ writer[w].written \in 0..Len(Files(writer[w].kind))
    /\ audited \subseteq Kinds /\ crashes \in 0..Crashes

Init ==
    /\ destination = [k \in Kinds |-> Absent]
    /\ staging = [s \in Processes \X Kinds |-> Absent]
    /\ writer = [w \in Writers |-> Idle]
    /\ audited = {} /\ crashes = 0

Place(w) == << ProcessOf[w], writer[w].kind >>
Step(w, pc) == writer' = [writer EXCEPT ![w].pc = pc]
Stop(w) == writer' = [writer EXCEPT ![w] = Idle]

-----------------------------------------------------------------------------
\* The two checks; what follows is no longer one step with them.
Begin(w, k) ==
    /\ writer[w] = Idle
    /\ destination[k] = Absent /\ staging[<< ProcessOf[w], k >>] = Absent
    /\ writer' = [writer EXCEPT ![w] = [pc |-> "checked", kind |-> k, written |-> 0]]
    /\ UNCHANGED << destination, staging, audited, crashes >>

MakeStaging(w) ==
    /\ writer[w].pc = "checked"
    /\ IF staging[Place(w)] = Absent
       THEN staging' = [staging EXCEPT ![Place(w)] = Empty] /\ Step(w, "writing")
       ELSE /\ UNCHANGED staging
            /\ IF writer[w].kind \in CleansAfterMkdir THEN Step(w, "cleaning") ELSE Stop(w)
    /\ UNCHANGED << destination, audited, crashes >>

Put(directory, f, w) ==
    [directory EXCEPT !.files = {e \in @ : e[1] # f} \union {<< f, w >>}]

\* write_bytes fails if somebody removed the directory.
WriteFile(w) ==
    LET k == writer[w].kind
        next == writer[w].written + 1
    IN  /\ writer[w].pc = "writing" /\ next <= Len(Files(k))
        /\ IF staging[Place(w)] = Absent
           THEN Step(w, "cleaning") /\ UNCHANGED staging
           ELSE /\ staging' = [staging EXCEPT ![Place(w)] = Put(@, Files(k)[next], w)]
                /\ writer' = [writer EXCEPT ![w].written = next]
        /\ UNCHANGED << destination, audited, crashes >>

Complete_Early(w) == writer[w].written + 1 >= Len(Files(writer[w].kind))

\* rename: fails on a missing source and on a destination that has files.
Complete(w) == writer[w].written = Len(Files(writer[w].kind))
Publish(w) ==
    /\ writer[w].pc = "writing" /\ Complete(w)
    /\ IF staging[Place(w)] # Absent /\ destination[writer[w].kind].files = {}
       THEN /\ destination' = [destination EXCEPT ![writer[w].kind] = staging[Place(w)]]
            /\ staging' = [staging EXCEPT ![Place(w)] = Absent]
            /\ IF writer[w].kind = "data" THEN Step(w, "published") ELSE Stop(w)
       ELSE Step(w, "cleaning") /\ UNCHANGED << destination, staging >>
    /\ UNCHANGED << audited, crashes >>

\* A write that fails for lack of space and the like.
FailWrite(w) ==
    /\ writer[w].pc = "writing" /\ Step(w, "cleaning")
    /\ UNCHANGED << destination, staging, audited, crashes >>

\* _remove_staging: the files, then the directory if it is still empty.
RemoveFiles(w) ==
    /\ writer[w].pc = "cleaning"
    /\ IF staging[Place(w)] = Absent
       THEN UNCHANGED staging /\ Stop(w)
       ELSE staging' = [staging EXCEPT ![Place(w)] = Empty] /\ Step(w, "emptied")
    /\ UNCHANGED << destination, audited, crashes >>

RemoveDirectory(w) ==
    /\ writer[w].pc = "emptied" /\ Stop(w)
    /\ staging' = IF staging[Place(w)] = Empty
                  THEN [staging EXCEPT ![Place(w)] = Absent] ELSE staging
    /\ UNCHANGED << destination, audited, crashes >>

\* The audit record is committed after the artifact is published; if the commit
\* fails the artifact stays.
Audit(w) ==
    /\ writer[w].pc = "published" /\ Stop(w)
    /\ audited' \in {audited, audited \union {writer[w].kind}}
    /\ UNCHANGED << destination, staging, crashes >>

Crash(p) ==
    /\ crashes < Crashes /\ crashes' = crashes + 1
    /\ \E w \in Writers : ProcessOf[w] = p /\ writer[w] # Idle
    /\ writer' = [w \in Writers |-> IF ProcessOf[w] = p THEN Idle ELSE writer[w]]
    /\ UNCHANGED << destination, staging, audited >>

Next ==
    \/ \E w \in Writers :
        \/ \E k \in Kinds : Begin(w, k)
        \/ MakeStaging(w) \/ WriteFile(w) \/ Publish(w) \/ FailWrite(w)
        \/ RemoveFiles(w) \/ RemoveDirectory(w) \/ Audit(w)
    \/ \E p \in Processes : Crash(p)

Spec == Init /\ [][Next]_vars

-----------------------------------------------------------------------------
\* What the loaders accept: the exact inventory, every file the one the
\* checksums were computed for.
Verifies(k, directory) ==
    /\ {e[1] : e \in directory.files} = ToSet(Files(k))
    /\ Cardinality({e[2] : e \in directory.files}) = 1

\* A published version passes verification, whatever crashed or failed while it
\* was written, and an audit record stands for a published one.
PublishedVerifies ==
    /\ \A k \in Kinds : destination[k] # Absent => Verifies(k, destination[k])
    /\ \A k \in audited : destination[k] # Absent
=============================================================================
