\* Two orders, two faults of every kind.
CONSTANTS
    Configs <- MCConfigs
    Faults = {"write", "openssl", "bind", "loss", "restart", "accept"}
    MaxFaults = 2
    MaxOrders = 2
    MaxChanges = 1
SPECIFICATION FairSpec
INVARIANTS StatusIsServer NoDowngrade
PROPERTIES CertificateArrives
CHECK_DEADLOCK FALSE
