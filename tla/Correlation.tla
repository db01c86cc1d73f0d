---------------------------- MODULE Correlation ----------------------------
(***************************************************************************)
(* Grouping of alerts: correlate_alerts as a function of the set of alerts *)
(* it is given.                                                            *)
(*                                                                         *)
(* Alerts share entities (an address, a host, a user, a pair).  For each   *)
(* entity the alerts are cut, in the order of their start, into windows    *)
(* anchored at the earliest alert not yet taken; a window of enough alerts *)
(* that matches a rule becomes a group.  The same alerts found through     *)
(* several entities are one group, and the identity of the group names     *)
(* those entities.                                                         *)
(*                                                                         *)
(* Alerts are numbers in the order of their ids.  Which groups match a     *)
(* rule and score enough is a constant: both depend on the members and on  *)
(* the entities they were found through, and on nothing that changes       *)
(* later.  Triage computes the rules and the score.                        *)
(***************************************************************************)
EXTENDS Integers, FiniteSets

CONSTANTS
    Alerts,                  \* ids, in their order
    Entities,                \* keys of the types that make candidates
    EventStart, EventEnd,    \* observed first_seen and last_seen of an alert
    EntityKeys,              \* entities of an alert
    CorrelationWindow,       \* correlation_window_seconds
    MinimumAlerts,           \* minimum_alerts
    MaximumAlertsPerGroup,   \* maximum_alerts_per_group
    MaximumAlertsPerRun,     \* maximum_alerts_per_run
    Matched                  \* groups with a rule match and score

GroupId == [alerts : SUBSET Alerts, entity_keys : SUBSET Entities]

ASSUME AlertAssumption ==
    /\ Alerts \subseteq Nat
    /\ IsFiniteSet(Alerts)
    /\ EventStart \in [Alerts -> Nat]
    /\ EventEnd \in [Alerts -> Nat]
    /\ \A a \in Alerts : EventStart[a] <= EventEnd[a]
    /\ EntityKeys \in [Alerts -> SUBSET Entities]
    /\ Matched \subseteq GroupId
ASSUME PolicyAssumption ==
    /\ CorrelationWindow \in Nat
    /\ MinimumAlerts \in Nat \ {0}
    /\ MaximumAlertsPerGroup \in Nat
    /\ MaximumAlertsPerRun \in Nat

Rows(S, e) == {a \in S : e \in EntityKeys[a]}

Before(a, b) ==
    \/ EventStart[a] < EventStart[b]
    \/ EventStart[a] = EventStart[b] /\ a < b

Anchor(R) == CHOOSE a \in R : \A b \in R \ {a} : Before(a, b)

Window_ByStart(R) ==               \* an alert need only start within the window
    LET boundary == EventStart[Anchor(R)] + CorrelationWindow
    IN  {a \in R : EventStart[a] <= boundary}

\* The rows from the first on, as long as they end in the anchor's window.
Window(R) ==
    LET boundary == EventStart[Anchor(R)] + CorrelationWindow
    IN  {a \in R : \A b \in R : b = a \/ Before(b, a) => EventEnd[b] <= boundary}

Windows(R) ==
    LET cut[X \in SUBSET R] ==
            IF X = {} THEN {} ELSE {Window(X)} \union cut[X \ Window(X)]
    IN  cut[R]

Clusters(S) ==
    UNION {{[entity_key |-> e, alerts |-> w] :
               w \in {v \in Windows(Rows(S, e)) : Cardinality(v) >= MinimumAlerts}} :
           e \in Entities}

\* EntityIndex raises CorrelationInputError on other eligible alerts.
AcceptableRuns ==
    {S \in SUBSET Alerts :
        /\ \A a \in S : EventEnd[a] - EventStart[a] <= CorrelationWindow
        /\ \A c \in Clusters(S) : Cardinality(c.alerts) <= MaximumAlertsPerGroup}

CorrelatedGroups ==
    [S \in SUBSET Alerts |->
        Matched \cap
        {[alerts      |-> members,
          entity_keys |-> {c.entity_key : c \in {d \in Clusters(S) : d.alerts = members}}] :
             members \in {m \in SUBSET S : \E c \in Clusters(S) : c.alerts = m}}]

=============================================================================
