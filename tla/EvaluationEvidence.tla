------------------------- MODULE EvaluationEvidence -------------------------
(***************************************************************************)
(* The evidence of one fusion experiment: written file by file, then named *)
(* by a policy with the checksums of most of its files                     *)
(* (FusionEvaluationService.evaluate), and read step by step by the pages  *)
(* (FusionEvaluationArtifactReader, DemoEvaluationSummaryService), which   *)
(* show it as verified or say that it is unavailable or invalid.  Meanwhile*)
(* the writer may die, and operators change what lies on disk.             *)
(*                                                                         *)
(* Abstractions.  "dataset" stands for the protocol and both manifests,    *)
(* "known" for all tables the policy has a checksum of, "comparison" for   *)
(* those it has none of.  A changed file keeps its layout and identities   *)
(* and is never changed back.                                              *)
(* The environment of a demo is intact but for the policy; PinnedArtifacts *)
(* has the rest of it and which job is the latest.                         *)
(***************************************************************************)
EXTENDS Naturals, Sequences, FiniteSets

CONSTANTS
    Edits       \* bound on what operators change

VARIABLES
    disk,       \* content of each file of the experiment directory
    extra,      \* another file in it
    policy,     \* state, checksums, damage
    copies,     \* other policies that name the experiment
    writer,     \* steps done by evaluate
    pinned,     \* the latest completed demo job has the policy
    reader,     \* the page being read, what it shows, and the files touched since it
                \* last took their checksums (history)
    edits

vars == << disk, extra, policy, copies, writer, pinned, reader, edits >>

Evidence == << "dataset", "selection", "known", "loao", "comparison", "confidence" >>
FileNames == {Evidence[i] : i \in 1..Len(Evidence)} \cup {"summary"}
Checked == {"dataset", "selection", "known", "confidence"}
Present(f) == disk[f] # "absent"
Parses(f) == disk[f] \in {"written", "edited"}

-----------------------------------------------------------------------------
(* FusionEvaluationService.evaluate.                                       *)

\* FusionExperimentStore.write_bytes: the file is created, then filled.
WriteFile(f) ==
    /\ disk' = [disk EXCEPT ![f] = IF @ = "absent" THEN "partial" ELSE "written"]
    /\ writer' = IF disk[f] = "absent" THEN writer ELSE writer + 1
    /\ UNCHANGED << extra, policy, copies, pinned, reader, edits >>

\* write_experiment_evidence.
WriteEvidence == writer < Len(Evidence) /\ WriteFile(Evidence[writer + 1])

\* save_policy: staged, with the checksums of what was written, then renamed.
SavePolicy ==
    /\ writer \in {Len(Evidence), Len(Evidence) + 1}
    /\ policy.state = "absent" => \A f \in Checked : Present(f)
    /\ policy' = IF policy.state = "absent"
                 THEN [policy EXCEPT !.state = "staged", !.sums = [f \in Checked |-> disk[f]]]
                 ELSE [policy EXCEPT !.state = "saved"]
    /\ writer' = writer + 1
    /\ UNCHANGED << disk, extra, copies, pinned, reader, edits >>

\* write_final_experiment_evidence.
WriteSummary == writer = Len(Evidence) + 2 /\ WriteFile("summary")

Dead == Len(Evidence) + 4

Crash ==
    /\ writer < Len(Evidence) + 3
    /\ writer' = Dead
    /\ UNCHANGED << disk, extra, policy, copies, pinned, reader, edits >>

\* A demo job completes with the policy.
CompleteJob ==
    /\ writer = Len(Evidence) + 3 /\ policy.damage = "none" /\ ~pinned
    /\ pinned' = TRUE
    /\ UNCHANGED << disk, extra, policy, copies, writer, reader, edits >>

-----------------------------------------------------------------------------
(* What operators do to the directories.                                   *)

Answered == reader.pc \in {"unavailable", "invalid", "available"}
Reading == reader.pc # "idle" /\ ~Answered

Edit ==
    /\ edits < Edits /\ edits' = edits + 1
    /\ \/ /\ \E f \in FileNames, content \in {"edited", "absent"} :
                /\ Parses(f) /\ disk' = [disk EXCEPT ![f] = content]
                /\ reader' = [reader EXCEPT !.touched = IF Reading THEN @ \cup {f} ELSE @]
          /\ UNCHANGED << extra, policy, copies >>
       \/ extra' = TRUE /\ UNCHANGED << disk, policy, copies, reader >>
       \/ /\ policy.state = "saved"
          /\ \/ \E damage \in {"manifest", "card"} :
                    policy' = [policy EXCEPT !.damage = damage] /\ UNCHANGED copies
             \/ copies' = 1 /\ policy.damage = "none" /\ UNCHANGED policy
          /\ UNCHANGED << disk, extra, reader >>
    /\ UNCHANGED << writer, pinned >>

-----------------------------------------------------------------------------
(* The pages.                                                              *)

Idle == [pc |-> "idle", summary |-> FALSE, missing |-> {}, version |-> "", shown |-> << >>,
         touched |-> {}]

Reads == UNCHANGED << disk, extra, policy, copies, writer, pinned, edits >>

\* Content of files as they are now, over what was read before.
Shown(files) ==
    [f \in files \cup DOMAIN reader.shown |-> IF f \in files THEN disk[f] ELSE reader.shown[f]]

\* DemoEvaluationSummaryService.read: of the environment with the policy of the latest
\* demo job; list and fusion_discovery: of the configured one.
Request ==
    /\ reader.pc = "idle"
    /\ \E summary \in BOOLEAN :
        reader' = [Idle EXCEPT !.summary = summary,
                    !.pc = IF summary /\ (~pinned \/ policy.damage = "manifest") THEN "unavailable"
                           ELSE IF summary /\ policy.damage = "card" THEN "invalid" ELSE "files"]
    /\ Reads

\* _missing_experiment_files.
FindFiles ==
    /\ reader.pc = "files"
    /\ reader' = [reader EXCEPT !.pc = IF extra THEN "invalid" ELSE "policies",
                                !.missing = {f \in FileNames : ~Present(f)}]
    /\ Reads

\* _matching_policy.
FindPolicy ==
    /\ reader.pc = "policies"
    /\ LET own == policy.state = "saved" /\ policy.damage = "none"
       IN  reader' = [reader EXCEPT
            !.pc = IF own /\ copies > 0 THEN "invalid"
                   ELSE IF (~own /\ copies = 0) \/ reader.missing # {} THEN "unavailable" ELSE "parse",
            !.version = IF own THEN "own" ELSE "copy"]
    /\ Reads

\* _verified_descriptor: what is parsed, then hashed, then read for its tables.
Parse ==
    /\ reader.pc = "parse"
    /\ reader' = [reader EXCEPT
            !.pc = IF extra \/ (\E f \in FileNames : ~Present(f)) \/ ~Parses("selection") \/ ~Parses("dataset")
                   THEN "invalid" ELSE "hash",
            !.shown = Shown({"selection", "dataset"})]
    /\ Reads

VerifyChecksums_Selection ==      \* of the selection alone
    /\ reader.pc = "hash"
    /\ reader' = [reader EXCEPT
            !.pc = IF disk["selection"] # policy.sums["selection"] THEN "invalid" ELSE "tables",
            !.touched = @ \ Checked]
    /\ Reads

VerifyChecksums ==
    /\ reader.pc = "hash"
    /\ reader' = [reader EXCEPT
            !.pc = IF \E f \in Checked : ~Present(f) \/ disk[f] # policy.sums[f]
                   THEN "invalid" ELSE "tables",
            !.touched = @ \ Checked]
    /\ Reads

ReadTables ==
    /\ reader.pc = "tables"
    /\ reader' = [reader EXCEPT
            !.pc = IF \E f \in {"known", "comparison", "confidence"} : ~Parses(f) THEN "invalid"
                   ELSE IF reader.summary THEN "identities" ELSE "available",
            !.shown = Shown({"known", "comparison", "confidence"})]
    /\ Reads

\* _verified_summary: the policy is the one the job was pinned to.
CompareIdentities ==
    /\ reader.pc = "identities"
    /\ reader' = [reader EXCEPT
            !.pc = IF \/ policy.damage # "none" \/ reader.version # "own"
                      \/ ~Parses("selection") \/ ~Parses("dataset")
                   THEN "invalid" ELSE "loao",
            !.shown = Shown({"selection", "dataset"})]
    /\ Reads

\* _verify_loao_checksum: the checksum is a file of the repository.
VerifyLoao ==
    /\ reader.pc = "loao"
    /\ reader' = [reader EXCEPT !.pc = IF disk["loao"] # "written" THEN "invalid" ELSE "rows",
                                !.touched = @ \ {"loao"}]
    /\ Reads

\* _known_rows, _loao_rows and _confidence_summary.
ReadRows ==
    /\ reader.pc = "rows"
    /\ reader' = [reader EXCEPT
            !.pc = IF \E f \in {"known", "loao", "confidence"} : ~Parses(f) THEN "invalid" ELSE "available",
            !.shown = Shown({"known", "loao", "confidence"})]
    /\ Reads

NextRequest == Answered /\ reader' = Idle /\ Reads

-----------------------------------------------------------------------------
Init ==
    /\ disk = [f \in FileNames |-> "absent"] /\ extra = FALSE
    /\ policy = [state |-> "absent", sums |-> [f \in Checked |-> "absent"], damage |-> "none"]
    /\ copies = 0 /\ writer = 0 /\ pinned = FALSE
    /\ reader = Idle /\ edits = 0

Read ==
    \/ Request
    \/ FindFiles
    \/ FindPolicy
    \/ Parse
    \/ VerifyChecksums
    \/ ReadTables
    \/ CompareIdentities
    \/ VerifyLoao
    \/ ReadRows
    \/ NextRequest

Next ==
    \/ WriteEvidence
    \/ SavePolicy
    \/ WriteSummary
    \/ Crash
    \/ CompleteJob
    \/ Edit
    \/ Read

Spec == Init /\ [][Next]_vars

-----------------------------------------------------------------------------
TypeOK ==
    /\ disk \in [FileNames -> {"absent", "partial", "written", "edited"}]
    /\ policy.state \in {"absent", "staged", "saved"} /\ policy.damage \in {"none", "manifest", "card"}
    /\ extra \in BOOLEAN /\ pinned \in BOOLEAN /\ copies \in 0..1
    /\ writer \in 0..Dead /\ edits \in 0..Edits
    /\ DOMAIN reader.shown \subseteq FileNames

\* What a page shows as verified is what the policy was made from, but for files touched
\* after it took their checksums and before it read them (again); the summary is under the
\* policy the job was pinned to; and evidence nobody touched is never called invalid,
\* however far the writer got.  (Tables without a checksum are shown as they are.)
EvidenceIsVerified ==
    /\ reader.pc = "available" =>
        /\ \A f \in (DOMAIN reader.shown \cap Checked) \ reader.touched :
            reader.shown[f] = policy.sums[f]
        /\ "loao" \in DOMAIN reader.shown \ reader.touched => reader.shown["loao"] = "written"
        /\ reader.summary => pinned /\ reader.version = "own"
    /\ edits = 0 => reader.pc # "invalid"
=============================================================================
