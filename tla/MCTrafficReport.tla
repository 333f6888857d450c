--------------------------- MODULE MCTrafficReport ---------------------------
(* Small instances of TrafficReport for TLC.                               *)
EXTENDS TrafficReport, TLC

CONSTANTS n1, n2, r1, r2, r3

\* Two records of one node, one of another.
TwoAndOne == (r1 :> n1) @@ (r2 :> n1) @@ (r3 :> n2)

\* All records differ, or the two of n1 are equal.
AllDiffer == (r1 :> 1) @@ (r2 :> 2) @@ (r3 :> 1)
TwoEqual == (r1 :> 1) @@ (r2 :> 1) @@ (r3 :> 1)

\* The plan always has every inbound, or may lose n1's, or all.
FullPlan == {Nodes}
AnyPlan == {Nodes, {n2}, {}}

==============================================================================
