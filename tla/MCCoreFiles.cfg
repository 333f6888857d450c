\* Every fault; certificates are delivered before the agent starts.
CONSTANTS
    Routes = {"r1", "r2"}
    Users = {"u1", "u2"}
    Faults = {"crash", "disk", "key", "cert", "token", "call", "delivery"}
    Entrypoint = TRUE
    MaxChanges = 2
    MaxFaults = 2
SPECIFICATION FairSpec
INVARIANT UsablePairFits
PROPERTY ImplementsService
PROPERTY EventuallyServes
