--------------------------- MODULE MCGrayHealth ---------------------------
EXTENDS GrayHealth

\* Idle, and ninety percent of a small limit in use.
QuicLoads == {[limit |-> 0, active |-> 0], [limit |-> 10, active |-> 9]}
===========================================================================
