----------------------------- MODULE PortPlanning ---------------------------
(***************************************************************************)
(* The planner of the port forwards, asked with any lists of nodes.        *)
(***************************************************************************)
EXTENDS Planner, PortForwardPlan

CONSTANT PortInputs   \* lists of nodes

ASSUME PortInputsAssumption == PortInputs \subseteq Seq(Nodes)

AskPorts == Ask("ports", PortInputs)

\* Other steps ask other planners, or forget.
PortSpec == NothingAsked /\ [][AskPorts \/ topic' # "ports"]_planner

---------------------------------------------------------------------------
(* Properties *)

\* A port that no node listens on goes to the first node that asks for it
\* (build_hysteria_port_forward_rules, build_mieru_port_forward_rules).
PortGoesToFirstAsker == topic = "ports" => FirstAskerGetsPort(question)

===========================================================================
