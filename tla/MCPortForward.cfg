\* Two tools, three node lists, two faults of any kind, one stop.
CONSTANTS
    MaxPort = 8
    MaxMultiport = 2
    Tools <- MCTools
    NodeLists <- MCNodeLists
    Faults = {"read", "command", "other", "core", "crash"}
    MaxFaults = 2
    MaxPlans = 1
    MaxStops = 1
SPECIFICATION FairSpec
INVARIANTS RepairedIsPlan NoCopies
PROPERTIES OthersUntouched EventuallyPlanned
CHECK_DEADLOCK FALSE
