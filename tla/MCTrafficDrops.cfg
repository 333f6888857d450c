\* Equal records, records without a user id, a plan that loses inbounds.
CONSTANTS
    n1 = n1
    n2 = n2
    r1 = r1
    r2 = r2
    r3 = r3
    Nodes = {n1, n2}
    Records = {r1, r2, r3}
    NodeOf <- TwoAndOne
    ValueOf <- TwoEqual
    HasUserId = {r1, r3}
    Small = {r3}
    Plans <- AnyPlan
    LegacyPanel = {n2}
    Faults = {"refused", "unanswered", "spool", "trim", "control", "core", "agent"}
    MaxFaults = 2
    MaxPlanChanges = 2
SPECIFICATION Spec
PROPERTY DroppedForAReason
\* Without an inbound there is nothing to report.
CHECK_DEADLOCK FALSE
