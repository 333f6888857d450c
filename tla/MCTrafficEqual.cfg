\* Two equal records: one pending, one fresh.
CONSTANTS
    n1 = n1
    n2 = n2
    r1 = r1
    r2 = r2
    r3 = r3
    Nodes = {n1, n2}
    Records = {r1, r2, r3}
    NodeOf <- TwoAndOne
    ValueOf <- TwoEqual
    HasUserId = {r1, r2, r3}
    Small = {}
    Plans <- FullPlan
    LegacyPanel = {}
    Faults = {"refused"}
    MaxFaults = 1
    MaxPlanChanges = 0
SPECIFICATION Spec
INVARIANT NothingLost
