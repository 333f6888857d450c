\* Every fault, one old panel, a plan that keeps its inbounds.
CONSTANTS
    n1 = n1
    n2 = n2
    r1 = r1
    r2 = r2
    r3 = r3
    Nodes = {n1, n2}
    Records = {r1, r2, r3}
    NodeOf <- TwoAndOne
    ValueOf <- AllDiffer
    HasUserId = {r1, r2, r3}
    Small = {}
    Plans <- FullPlan
    LegacyPanel = {n2}
    Faults = {"refused", "unanswered", "spool", "trim", "control", "core", "agent"}
    MaxFaults = 2
    MaxPlanChanges = 1
SPECIFICATION FairSpec
INVARIANTS NothingLost RecountedOnlyAfterFault
PROPERTY EventuallyBilled
