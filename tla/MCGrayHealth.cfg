\* Either of the loop and the core starts again, and every call fails once.
CONSTANTS
    Signals = {"vless_upstream"}
    Quic <- QuicLoads
    Faults = {"core", "revision", "inbound", "call", "metrics"}
    MaxFaults = 1
    MaxStarts = 1
    Limit = 4
SPECIFICATION FairSpec
INVARIANT WidenOnlyClean
INVARIANT HeldGateExplained
PROPERTY RollbackWithdrawn
