------------------------------ MODULE UserFeed ------------------------------
(***************************************************************************)
(* What the agent promises about the users of a node, whatever fails: the  *)
(* core serves a set of users that the panel published for that node, as a *)
(* whole, or nobody.  It never serves a mixture of two sets, nor the users *)
(* of another node, and a core that does not run serves nobody.            *)
(***************************************************************************)
CONSTANTS
    Nodes,    \* nodes the panel has
    Users,    \* sets of users
    Nobody    \* the empty set of users

VARIABLES
    published,   \* published[n]: the sets of users the panel has published for n
    running,     \* the core runs
    served       \* served[n]: the users the core serves on the inbound of n

vars == <<published, running, served>>

Init ==
    /\ published \in [Nodes -> {{us} : us \in Users}]
    /\ running = FALSE
    /\ served = [n \in Nodes |-> Nobody]

\* The panel publishes a set of users, a new one or one of before.
Publish(n) ==
    /\ \E us \in Users : published' = [published EXCEPT ![n] = @ \cup {us}]
    /\ UNCHANGED <<running, served>>

\* The core is started, is given another config, or takes users on an inbound.
Serve ==
    /\ running' = TRUE
    /\ served' \in [Nodes -> Users]
    /\ \A n \in Nodes : served'[n] \in published[n] \cup {Nobody}
    /\ UNCHANGED published

\* The core is stopped, or dies.
Stop ==
    /\ running' = FALSE
    /\ served' = [n \in Nodes |-> Nobody]
    /\ UNCHANGED published

Next == Serve \/ Stop \/ \E n \in Nodes : Publish(n)

Spec == Init /\ [][Next]_vars

=============================================================================
