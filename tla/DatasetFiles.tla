----------------------------- MODULE DatasetFiles ---------------------------
(***************************************************************************)
(* How data set files come to be: a temporary file next to the name, hard  *)
(* linked to it when whole (datasets/io.py, datasets/download.py), and the *)
(* order in which a workflow writes its partitions and reports             *)
(* (datasets/service.py, datasets/artifacts.py).                           *)
(*                                                                         *)
(* A call is a command of its own process.  A name, temporary or not,      *)
(* stands for the file a call created, which keeps its content whatever    *)
(* happens to the name.  Of the four partitions and the six reports two    *)
(* each are kept.                                                          *)
(***************************************************************************)
EXTENDS Naturals, FiniteSets, Sequences, SequencesExt

CONSTANTS
    Calls,      \* numbered from 1 on
    Faults      \* bound on crashes and failed writes

None == 0
Idle == [pc |-> "idle"]
Over == [pc |-> "over"]

Kinds == {"workflow", "download"}
Partitions == << "canonical", "train" >>
Reports == << "manifest", "statistics" >>
Raw == << "raw" >>
Names(kind) == IF kind = "download" THEN Raw ELSE Partitions \o Reports
AllNames == ToSet(Names("workflow")) \union ToSet(Names("download"))
Linked == ToSet(Partitions) \union ToSet(Raw)

VARIABLES
    file,       \* by name: the call whose file it is, or None
    temporary,  \* the same for the temporary name
    content,    \* by call and name: none, partial or whole
    robbed,     \* names whose temporary file another call removed while it was being
                \* written or linked (history)
    call,       \* where each call is
    faults

vars == << file, temporary, content, robbed, call, faults >>

TypeOK ==
    /\ file \in [AllNames -> Calls \union {None}]
    /\ temporary \in [Linked -> Calls \union {None}]
    /\ content \in [Calls \X AllNames -> {"none", "partial", "whole"}]
    /\ robbed \subseteq Linked /\ DOMAIN call = Calls /\ faults \in 0..Faults

Init ==
    /\ file = [n \in AllNames |-> None] /\ temporary = [n \in Linked |-> None]
    /\ content = [x \in Calls \X AllNames |-> "none"] /\ robbed = {}
    /\ call = [c \in Calls |-> Idle] /\ faults = 0

Name(c) == Names(call[c].kind)[call[c].at]
Goto(c, pc) == call' = [call EXCEPT ![c].pc = pc]
Raise(c) == call' = [call EXCEPT ![c] = Over]
Advance(c) ==
    call' = [call EXCEPT ![c] =
        IF call[c].at = Len(Names(call[c].kind)) THEN Over
        ELSE [call[c] EXCEPT !.pc = "check", !.at = @ + 1]]
Fault == faults < Faults /\ faults' = faults + 1

Present(n) == file[n] # None \/ (n \in Linked /\ temporary[n] # None)

-----------------------------------------------------------------------------
\* A workflow refuses any of its outputs, a download its temporary file; an
\* existing download is verified and returned.
Begin(c, kind) ==
    /\ call[c] = Idle
    /\ \A i \in DOMAIN Names(kind) : ~Present(Names(kind)[i])
    /\ call' = [call EXCEPT ![c] = [pc |-> "check", kind |-> kind, at |-> 1, linked |-> FALSE]]
    /\ UNCHANGED << file, temporary, content, robbed, faults >>

CheckName(c) ==
    /\ call[c].pc = "check"
    /\ IF Present(Name(c)) THEN Raise(c) ELSE Goto(c, "open")
    /\ UNCHANGED << file, temporary, content, robbed, faults >>

\* Exclusive creation.  The handler that removes the temporary file also runs
\* when somebody else's is found here.
OpenTemporary(c) ==
    /\ call[c].pc = "open" /\ Name(c) \in Linked
    /\ IF temporary[Name(c)] # None
       THEN Goto(c, "unlink") /\ UNCHANGED << temporary, content >>
       ELSE /\ temporary' = [temporary EXCEPT ![Name(c)] = c]
            /\ content' = [content EXCEPT ![<< c, Name(c) >>] = "partial"]
            /\ Goto(c, "write")
    /\ UNCHANGED << file, robbed, faults >>

\* Reports are created under their own name.
OpenReport(c) ==
    /\ call[c].pc = "open" /\ Name(c) \notin Linked
    /\ IF file[Name(c)] # None
       THEN Raise(c) /\ UNCHANGED << file, content >>
       ELSE /\ file' = [file EXCEPT ![Name(c)] = c]
            /\ content' = [content EXCEPT ![<< c, Name(c) >>] = "partial"]
            /\ Goto(c, "write")
    /\ UNCHANGED << temporary, robbed, faults >>

Write(c) ==
    /\ call[c].pc = "write"
    /\ content' = [content EXCEPT ![<< c, Name(c) >>] = "whole"]
    /\ IF Name(c) \in Linked THEN Goto(c, "link") ELSE Advance(c)
    /\ UNCHANGED << file, temporary, robbed, faults >>

FailWrite(c) ==
    /\ call[c].pc = "write" /\ Fault
    /\ IF Name(c) \in Linked THEN Goto(c, "unlink") ELSE Raise(c)
    /\ UNCHANGED << file, temporary, content, robbed >>

Linkable_Early(c) == call[c].pc \in {"link", "write"}

\* os.link takes whatever file the temporary name now stands for, and fails if
\* there is none or the name is taken.
Linkable(c) == call[c].pc = "link"
Link(c) ==
    /\ Linkable(c) /\ Name(c) \in Linked
    /\ IF temporary[Name(c)] = None \/ file[Name(c)] # None
       THEN Goto(c, "unlink") /\ UNCHANGED file
       ELSE /\ file' = [file EXCEPT ![Name(c)] = temporary[Name(c)]]
            /\ call' = [call EXCEPT ![c].pc = "unlink", ![c].linked = TRUE]
    /\ UNCHANGED << temporary, content, robbed, faults >>

\* Whoever comes to this point removes the temporary name, whosever file it is.
Robs(c) ==
    \E d \in Calls \ {c} :
        call[d].pc \in {"write", "link"} /\ Name(d) = Name(c) /\ temporary[Name(c)] = d
Unlink(c) ==
    /\ call[c].pc = "unlink"
    /\ temporary' = [temporary EXCEPT ![Name(c)] = None]
    /\ robbed' = IF Robs(c) THEN robbed \union {Name(c)} ELSE robbed
    /\ IF call[c].linked
       THEN call' = [call EXCEPT ![c] =
                IF call[c].at = Len(Names(call[c].kind)) THEN Over
                ELSE [call[c] EXCEPT !.pc = "check", !.at = @ + 1, !.linked = FALSE]]
       ELSE Raise(c)
    /\ UNCHANGED << file, content, faults >>

Crash(c) ==
    /\ call[c] \notin {Idle, Over} /\ Fault /\ Raise(c)
    /\ UNCHANGED << file, temporary, content, robbed >>

Next ==
    \E c \in Calls :
        \/ \E kind \in Kinds : Begin(c, kind)
        \/ CheckName(c) \/ OpenTemporary(c) \/ OpenReport(c) \/ Write(c) \/ FailWrite(c)
        \/ Link(c) \/ Unlink(c) \/ Crash(c)

Spec == Init /\ [][Next]_vars

-----------------------------------------------------------------------------
\* A partition or download under its name is whole; a manifest stands next to all
\* partitions, of the same workflow; a report that follows it never stands without it.
\* Of commands that overlap one may remove the temporary file of another, which then links
\* nothing, or the half written file of a third: what is under such a name may be partial
\* or of another workflow, but it is there, and the reports are of one workflow even then.
PublishedIsWhole ==
    /\ \A n \in Linked \ robbed : file[n] # None => content[<< file[n], n >>] = "whole"
    /\ file["manifest"] # None => \A i \in DOMAIN Partitions :
        /\ file[Partitions[i]] # None
        /\ Partitions[i] \notin robbed => file[Partitions[i]] = file["manifest"]
    /\ file["statistics"] # None =>
        file["manifest"] = file["statistics"] /\ content[<< file["manifest"], "manifest" >>] = "whole"
=============================================================================
