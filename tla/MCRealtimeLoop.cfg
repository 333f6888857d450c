\* Two workers, every fault.
CONSTANTS
    Nodes = {n1, n2}
    None = None
    Faults = {"net", "panel", "tick", "status", "stop"}
    MaxRev = 1
    MaxCfg = 1
    MaxFaults = 1
SPECIFICATION FairSpec
INVARIANTS OneEventPerWorker
PROPERTIES AppliedMeansTicked ReceivedTakesEffect
