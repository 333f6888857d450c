\* Two nodes, liveness: one panel has no user_delta; an error of either ends the
\* agent.
CONSTANTS
    Nodes = {n1, n2}
    Uuid = {u1}
    Attr = {a1, a2}
    Absent = Absent
    Keep = Keep
    PanelUsers <- SomeUsers
    LegacyPanel = {n1}
    UsersRequired = {n1, n2}
    Unbindable = {}
    ContinueOnError = FALSE
    ReportToPanel = TRUE
    Faults = {"panel", "disk", "agent", "reload"}
    MaxRev = 2
    MaxVer = 2
    MaxFaults = 1
SPECIFICATION FairSpec
PROPERTY EventuallyInSync
PROPERTY ServedUsersKept
