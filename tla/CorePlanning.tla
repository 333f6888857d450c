----------------------------- MODULE CorePlanning ---------------------------
(***************************************************************************)
(* The planners of what the core runs: inbounds, routes, listeners, the    *)
(* nodes of the machine and their reconciliation, asked with any inputs.   *)
(***************************************************************************)
EXTENDS Planner, CoreInbound, CoreRoutes, Bootstrap

CONSTANTS
  NodeInputs,       \* nodes of a panel
  Places,           \* where a node listens, and its routes
  Companions,       \* nodes that are in the plan beside them
  Switches,         \* sets of canary rows that are allowed
  RouteInputs,      \* lists of routes
  ListenerInputs,   \* lists of inbounds
  Hosts,            \* the addresses of the host
  MachineInputs,    \* a config file, the answers of its panels, nodes they cannot describe
  ReconcileInputs   \* a node manager, what it should run, and what is loaded

\* The fields of a configuration file and of a node manager.
ConfigFields ==
  {"panel", "nodes", "profiles", "proxy", "machineEnabled", "continueOnError", "dir"}
ManagerFields == {"runtimes", "failures", "realtime", "continueOnError"}

\* A file, and an answer for each of its profiles; an answer may be a failure.
MachineInput(config, answers) ==
  /\ DOMAIN config = ConfigFields
  /\ config.nodes \in Seq(ToSet(config.nodes))
  /\ config.profiles \in Seq(ToSet(config.profiles))
  /\ answers \in Seq(ToSet(answers)) /\ DOMAIN answers = DOMAIN config.profiles
  /\ \A i \in DOMAIN answers : answers[i].ok => answers[i].nodes \in Seq(Nat)

\* Inbounds listen on an address of the host or on all of them.
ASSUME CoreInputsAssumption ==
  /\ NodeInputs \subseteq PanelNodes
  /\ \A x \in Companions : x.node \in PanelNodes
  /\ \A list \in RouteInputs : list \in Seq(ToSet(list))
  /\ \A list \in ListenerInputs :
       /\ list \in Seq(ToSet(list))
       /\ \A i \in DOMAIN list : list[i].listen \in Hosts \/ Wildcard(list[i].listen)
  /\ \A x \in MachineInputs : MachineInput(x.config, x.answers)
  /\ \A x \in ReconcileInputs :
       DOMAIN x.manager = ManagerFields /\ x.desired \in Seq(ToSet(x.desired))

AskInbound == Ask("inbound", NodeInputs)
AskRoutes == Ask("routes", RouteInputs)
AskListeners == Ask("listeners", ListenerInputs)
AskMachine == Ask("machine", MachineInputs)
AskReconcile == Ask("reconcile", ReconcileInputs)

CoreAsk == AskInbound \/ AskRoutes \/ AskListeners \/ AskMachine \/ AskReconcile

\* Other steps ask other planners, or forget.
CoreSpec ==
  /\ NothingAsked
  /\ [][CoreAsk \/ topic' \notin {"inbound", "routes", "listeners", "machine", "reconcile"}]_planner

---------------------------------------------------------------------------
(* Properties *)

\* A node the panel wants encrypted is not opened in plain.
EncryptedStaysEncrypted ==
  topic = "inbound" => \A allow \in Switches : NoPlaintext(question, allow)

\* What the preflight passes starts, but for what it does not look at; what
\* starts, it passes.
PreflightKeepsWord ==
  topic = "inbound" =>
    \A allow \in Switches, place \in Places, companion \in Companions :
      PreflightHonest(<<[tag |-> "asked", node |-> question, listen |-> place.listen,
                         routes |-> place.routes], companion>>, allow)

\* The ordinary nodes: a certificate, a user, the keys of Reality, and no setting
\* that the protocol does not need.
OrdinaryNode(protocol, network, tls, flow, cipher) ==
  [protocol |-> protocol, network |-> network, tls |-> tls, certMode |-> "file", flow |-> flow,
   users |-> {"uuid"}, port |-> 443, transport |-> "", encryption |-> "", cipher |-> cipher,
   padding |-> FALSE, bandwidth |-> FALSE, obfs |-> "", obfsPassword |-> 0, congestion |-> "",
   zeroRtt |-> FALSE, ports |-> FALSE, sni |-> TRUE, rejectSni |-> FALSE,
   settings |-> NoSettings, reality |-> {"dest", "private_key", "short_id"}]

OrdinaryNetworks == {"tcp", "ws", "httpupgrade", "grpc", "quic", "tuic", "hysteria2"}

OrdinaryNodesIn(nodes) ==
  \A p \in Protocols, n \in OrdinaryNetworks, t \in 0..2, f \in {"", "xtls-rprx-vision"},
     c \in {"", "aes-128-gcm"} : OrdinaryNode(p, n, t, f, c) \in nodes

\* No row of the capability table is dead.
NoDeadRow == topic = "start" => EveryRowReached(NodeInputs)

\* Rendered routes name outbounds that are rendered.
RouteOutboundExists == topic = "routes" => ReferencesResolve(question)

\* Inbounds that are opened together do not want the same socket.
NoSocketTwice == topic = "listeners" => NoDoubleBind(question, Hosts)

\* A profile without an answer takes nothing from the others, and every node is
\* served with the configuration of its own panel.
ProfileFailureIsolated ==
  topic = "machine" => FailureIsolated(question.config, question.answers, question.broken)

\* Reconciling leaves alone what it should, and settles.
ReconcileSettles ==
  topic = "reconcile" => ReconcileSafe(question.manager, question.desired, question.go, question.load)

===========================================================================
