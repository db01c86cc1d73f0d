-------------------------- MODULE MCRuntimeOutput --------------------------
(***************************************************************************)
(* TLC instances of RuntimeOutput: six flows, five of them alerts, in the  *)
(* batches {1, 2}, {3, 5, 6}, {4}; groups of at most two alerts.           *)
(* Alerts 1 and 2 have both entities in common, until alert 4 comes        *)
(* between them in y, starting in the window of 1 and ending after it.     *)
(* In x, alerts 5 and 3 follow in a window of their own; without alert 1   *)
(* they fall into that of 2, and the group is too large.                   *)
(***************************************************************************)
EXTENDS RuntimeOutput, TLC

MCFlows == 1..6
MCAlerts == 1..5
MCClosedBy == <<1, 1, 2, 3, 2, 2>>
MCEventStart == <<0, 2, 4, 1, 4>>
MCEventEnd == <<1, 2, 5, 4, 4>>
MCEntityKeys == <<{"x", "y"}, {"x", "y"}, {"x"}, {"y"}, {"x"}>>
MCMatched == [alerts : SUBSET MCAlerts, entity_keys : SUBSET {"x", "y"}]
MCGated == {g \in MCMatched : Cardinality(g.alerts) >= 2 /\ g.alerts # {3, 5}}

=============================================================================
