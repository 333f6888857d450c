\* Two nodes that continue on errors, every fault: one needs users, one may
\* find its port taken.  New configurations are left to MCUserSyncLive.
CONSTANTS
    Nodes = {n1, n2}
    Uuid = {u1, u2}
    Attr = {a1}
    Absent = Absent
    Keep = Keep
    PanelUsers <- NestedUsers
    LegacyPanel = {}
    UsersRequired = {n1}
    Unbindable = {n2}
    ContinueOnError = TRUE
    ReportToPanel = TRUE
    Faults = {"panel", "disk", "control", "core", "agent", "reload"}
    MaxRev = 2
    MaxVer = 1
    MaxFaults = 2
SPECIFICATION Spec
INVARIANT RevisionNamesUsers
INVARIANT PendingChangeIsExact
PROPERTY CoreRevisionAdvances
PROPERTY ImplementsFeed
