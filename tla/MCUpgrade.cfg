\* Two releases, every fault, scripts that meet.
CONSTANTS
    Versions = {v1, v2}
    First = v1
    None = None
    Faults = {"launch", "fetch", "wrong", "tools", "copy", "reboot"}
    MaxWants = 2
    MaxFaults = 2
SPECIFICATION FairSpec
INVARIANTS SucceededIsRunning AllOrNothing
PROPERTIES EventuallyUpgraded
CHECK_DEADLOCK FALSE
