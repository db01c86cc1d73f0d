---------------------------- MODULE AtomicVersions --------------------------
(***************************************************************************)
(* What the writers of versioned directories promise (artifact_io.py:      *)
(* "atomically create one non-overwriting ... artifact directory"),        *)
(* without staging directories, checksums, failures or crashes.  A version *)
(* is absent, then whole and of one writer, and so it stays; only a whole  *)
(* one is recorded.  ArtifactStore implements it (StorageWork has the      *)
(* refinement mapping).                                                    *)
(***************************************************************************)
CONSTANTS Writers, Kinds

VARIABLES
    version,    \* of each kind
    recorded    \* kinds with an audit record

Absent == [state |-> "absent"]
Whole(w) == [state |-> "whole", by |-> w]

Init == version = [k \in Kinds |-> Absent] /\ recorded = {}

Create(k, w) ==
    /\ version[k] = Absent
    /\ version' = [version EXCEPT ![k] = Whole(w)]
    /\ UNCHANGED recorded

Record(k) ==
    /\ version[k] # Absent
    /\ recorded' = recorded \union {k}
    /\ UNCHANGED version

Next == \E k \in Kinds : Record(k) \/ \E w \in Writers : Create(k, w)

Spec == Init /\ [][Next]_<< version, recorded >>
=============================================================================
