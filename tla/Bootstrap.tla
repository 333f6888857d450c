----------------------------- MODULE Bootstrap ----------------------------
(***************************************************************************)
(* From the configuration file to the nodes the agent runs: the nodes of   *)
(* the file and of its machine profiles (src/src/config.rs, machine.rs),   *)
(* the node manager (node.rs), and the choice between nodes that want the  *)
(* same listener (runtime.rs).                                             *)
(*                                                                         *)
(* Text is kept trimmed, "" is an empty setting.  A node's tag is the pair *)
(* of its panel and its id: its protocol is the panel's answer and the     *)
(* same for all who ask.                                                   *)
(***************************************************************************)
EXTENDS Naturals, Sequences, FiniteSets, SequencesExt, OrderedFilter, CoreInbound,
        CoreRoutes

Failed(error) == [ok |-> FALSE, error |-> error]

FirstNonEmpty(value, fallback) == IF value = "" THEN fallback ELSE value
FirstPositive(value, fallback) == IF value = 0 THEN fallback ELSE value

---------------------------------------------------------------------------
(* The configuration file *)

\* Nodes of a file with several get a directory each.
NodeDir(base, override, node, several) ==
  IF override # "" THEN <<override>>
  ELSE IF several THEN <<base, node>>
  ELSE <<base>>

NodeConfig(url, token, node, machine, dir) ==
  [url |-> url, token |-> token, node |-> node, machine |-> machine, dir |-> dir]

\* resolve_runtime, the profiles: each inherits the panel's url and token and
\* is named after its machine when it has no name.
ResolvedProfile(config, row) ==
  [row EXCEPT !.name = FirstNonEmpty(row.name, ToString(row.machine)),
              !.url = FirstNonEmpty(row.url, config.panel.url),
              !.token = FirstNonEmpty(row.token, config.panel.token)]

ProfileComplete(profile) == profile.url # "" /\ profile.token # "" /\ profile.machine # 0

\* The nodes of the file inherit the same way.
ResolvedNode(config, row) ==
  NodeConfig(FirstNonEmpty(row.url, config.panel.url),
             FirstNonEmpty(row.token, config.panel.token), row.node,
             FirstPositive(row.machine, config.panel.machine),
             NodeDir(config.dir, row.dir, row.node, Len(config.nodes) > 1))

NodeComplete(node) == node.url # "" /\ node.token # "" /\ node.node # 0

\* Without nodes and profiles the panel section names the one node.
FileNodes(config) ==
  LET panel == config.panel
      single == NodeConfig(panel.url, panel.token, panel.node, panel.machine, <<config.dir>>)
  IN  IF config.nodes # <<>> THEN [i \in DOMAIN config.nodes |-> ResolvedNode(config, config.nodes[i])]
      ELSE IF config.profiles # <<>> THEN <<>>
      ELSE <<single>>

MachineMode(config) == config.machineEnabled \/ config.profiles # <<>>

ResolveRuntime(config) ==
  LET profiles == [i \in DOMAIN config.profiles |-> ResolvedProfile(config, config.profiles[i])]
      nodes == FileNodes(config)
  IN  IF /\ \A i \in DOMAIN profiles : ProfileComplete(profiles[i])
         /\ \A i \in DOMAIN nodes : NodeComplete(nodes[i])
        THEN [ok |-> TRUE, nodes |-> nodes, profiles |-> profiles, proxy |-> config.proxy,
              continueOnError |-> IF config.continueOnError = "unset" THEN MachineMode(config)
                                  ELSE config.continueOnError = "yes"]
        ELSE Failed("incomplete")

---------------------------------------------------------------------------
(* The machine's subscription proxy, put together from several profiles *)

\* The settings of which the first non-empty value counts.
Settings == {"listen", "cert", "domain", "zerossl"}

NoProxy == [enabled |-> FALSE, settings |-> [s \in Settings |-> ""], fallback |-> FALSE,
            sites |-> <<>>, websites |-> <<>>]
NoRow == [key |-> "", up |-> ""]

FillIfEmpty(target, source) ==
  [s \in Settings |-> FirstNonEmpty(target[s], source[s])]

\* Rows of a key that is there already are left out.
AddRows(rows, more) ==
  LET AddRow(done, row) == IF \E i \in DOMAIN done : done[i].key = row.key THEN done
                           ELSE Append(done, row)
  IN  FoldLeft(AddRow, rows, more)

\* A profile's own answer: a row without a site takes the profile's name, one
\* without an upstream its panel.  The single fields of an old answer are a row
\* when there are no rows, beside websites only when they say something.  An
\* answer with no usable row changes nothing.
ProfileProxy(profile, answer) ==
  LET Named(row) == [key |-> FirstNonEmpty(row.key, profile.name),
                     up |-> FirstNonEmpty(row.up, profile.url)]
      Valid(row) == row.up # "bad"
      rows == IF answer.sites = <<>> /\ (answer.websites = <<>> \/ answer.single # NoRow)
                THEN <<answer.single>> ELSE answer.sites
      sites == SelectSeq([i \in DOMAIN rows |-> Named(rows[i])], Valid)
      webs == SelectSeq([i \in DOMAIN answer.websites |-> Named(answer.websites[i])], Valid)
  IN  IF \/ ~answer.enabled /\ answer.sites = <<>> /\ answer.websites = <<>>
         \/ sites = <<>> /\ webs = <<>>
        THEN NoProxy
        ELSE [enabled |-> TRUE, settings |-> answer.settings, fallback |-> answer.fallback,
              sites |-> AddRows(<<>>, sites), websites |-> AddRows(<<>>, webs)]

\* merge_runtime_agent: profile after profile into the machine's own.  Only the
\* first of them says whether plain HTTP is allowed.
MergeAgent(target, source) ==
  IF ~source.enabled THEN target
  ELSE IF ~target.enabled THEN source
  ELSE [target EXCEPT !.settings = FillIfEmpty(@, source.settings),
                      !.sites = AddRows(@, source.sites),
                      !.websites = AddRows(@, source.websites)]

\* merge_subscription_proxy of the runtime: the machine's into the file's.  The
\* websites of the machine are lost on the way when the file has a proxy.
MergeIntoFile(target, source) ==
  IF ~source.enabled THEN target
  ELSE IF ~target.enabled THEN source
  ELSE [target EXCEPT !.settings = FillIfEmpty(@, source.settings),
                      !.fallback = @ \/ source.fallback,
                      !.sites = AddRows(@, source.sites)]

---------------------------------------------------------------------------
(* Machine profiles *)

\* machine_profile_node_config_dir.
MachineNodeDir(profile, node) ==
  <<FirstNonEmpty(profile.dir, profile.name), node>>

\* An answer's nodes; a node without an id is none.
ProfileNodes(profile, answer) ==
  LET ids == Among(answer.nodes, {node \in ToSet(answer.nodes) : node > 0})
  IN  [i \in DOMAIN ids |-> NodeConfig(profile.url, profile.token, ids[i], profile.machine,
                                       MachineNodeDir(profile, ids[i]))]

MachineNodeKey(node) == <<node.url, node.machine, node.node>>

\* A mutant: the first profile without an answer ends the round.
AddProfileStops(sum, input) ==
  IF sum.failures > 0 THEN sum
  ELSE IF ~input.answer.ok THEN [sum EXCEPT !.failures = @ + 1]
  ELSE [sum EXCEPT !.successes = @ + 1,
                   !.nodes = @ \o ProfileNodes(input.profile, input.answer)]

\* A node of a key that is there already is left out.
AddNodeOnce(list, node) ==
  IF \E i \in DOMAIN list : MachineNodeKey(list[i]) = MachineNodeKey(node) THEN list
  ELSE Append(list, node)

AddNodes(list, nodes) ==
  LET upTo[i \in 0..Len(nodes)] ==
        IF i = 0 THEN list ELSE AddNodeOnce(upTo[i - 1], nodes[i])
  IN  upTo[Len(nodes)]

\* One profile after the other: `sum' is what came before, `input' a profile
\* with the panel's answer.
AddProfile(sum, input) ==
  LET nodes == ProfileNodes(input.profile, input.answer)
      added == AddNodes(sum.nodes, nodes)
      repeated == Len(added) < Len(sum.nodes) + Len(nodes)
  IN  IF ~sum.ok THEN sum
      ELSE IF ~input.answer.ok /\ sum.continueOnError THEN [sum EXCEPT !.failures = @ + 1]
      ELSE IF ~input.answer.ok THEN [sum EXCEPT !.ok = FALSE]
      ELSE IF repeated /\ ~sum.continueOnError THEN [sum EXCEPT !.ok = FALSE]
      ELSE [sum EXCEPT !.successes = @ + 1, !.nodes = added,
                       !.failures = @ + Len(sum.nodes) + Len(nodes) - Len(added),
                       !.proxy = MergeAgent(@, ProfileProxy(input.profile, input.answer.proxy))]

NoProfiles(continueOnError) ==
  [ok |-> TRUE, continueOnError |-> continueOnError, nodes |-> <<>>, proxy |-> NoProxy,
   failures |-> 0, successes |-> 0]

ProfileSum(inputs, continueOnError) ==
  LET upTo[i \in 0..Len(inputs)] ==
        IF i = 0 THEN NoProfiles(continueOnError) ELSE AddProfile(upTo[i - 1], inputs[i])
  IN  upTo[Len(inputs)]

\* Only a machine of which no profile answered has no plan.
ResolveProfiles(inputs, continueOnError) ==
  LET sum == ProfileSum(inputs, continueOnError)
  IN  IF sum.nodes = <<>> /\ sum.successes = 0 THEN [sum EXCEPT !.ok = FALSE] ELSE sum

\* resolve_runtime_with_machine_profiles and apply_machine_summary.
ResolveMachine(config, answers) ==
  LET resolved == ResolveRuntime(config)
      inputs == [i \in DOMAIN resolved.profiles |->
                   [profile |-> resolved.profiles[i], answer |-> answers[i]]]
      summary == ResolveProfiles(inputs, resolved.continueOnError)
  IN  IF ~resolved.ok THEN resolved
      ELSE IF resolved.profiles = <<>> THEN resolved
      ELSE IF ~summary.ok THEN Failed("profiles")
      ELSE [resolved EXCEPT !.nodes = @ \o summary.nodes,
                            !.proxy = MergeIntoFile(@, summary.proxy)]

---------------------------------------------------------------------------
(* The node manager *)

\* build_from_panel: `load' gives each config its node, or an error.
Build(configs, load, continueOnError) ==
  LET Loads(config) == load[config].ok
  IN  IF ~continueOnError /\ \E i \in DOMAIN configs : ~Loads(configs[i]) THEN Failed("node")
      ELSE [ok |-> TRUE,
            runtimes |-> LET loaded == SelectSeq(configs, Loads)
                         IN  [i \in DOMAIN loaded |-> [config |-> loaded[i],
                                                       info |-> load[loaded[i]].info]],
            failures |-> SelectSeq(configs, LAMBDA config : ~Loads(config))]

\* What the panel says of the nodes, some of which it cannot describe.
Load(configs, broken) ==
  [config \in ToSet(configs) |-> [ok |-> config.node \notin broken, info |-> config.node]]

(* NodeManager::reconcile_with_loader, which the library offers and the agent *)
(* does not call yet: it reloads instead.  A runtime is a config with the     *)
(* panel's description; `load' gives each config an answer.                   *)

NoKey == <<>>

\* node.rs machine_node_key: the machine does not count.
NodeKey(config) == IF config.url = "" \/ config.node = 0 THEN NoKey ELSE <<config.url, config.node>>

Keys(runtimes) == {NodeKey(runtimes[i].config) : i \in DOMAIN runtimes}

\* current_slots refuses a manager with a node that has no key or is there twice.
SlotsOk(runtimes) ==
  /\ NoKey \notin Keys(runtimes)
  /\ \A i, k \in DOMAIN runtimes :
       NodeKey(runtimes[i].config) = NodeKey(runtimes[k].config) => i = k

Slot(runtimes, key) == CHOOSE r \in ToSet(runtimes) : NodeKey(r.config) = key

HasRoutes(runtime) == runtime.info.routes

\* A mutant: nodes that go are no reason.
NeedsFullReloadComing(current, keys, candidates) ==
  \E c \in candidates :
    LET key == NodeKey(c.config)
    IN  IF key \in Keys(current)
          THEN c # Slot(current, key) /\ (HasRoutes(c) \/ HasRoutes(Slot(current, key)))
          ELSE HasRoutes(c)

\* machine_reconcile_needs_full_reload: a node with routes of its own comes,
\* goes or changes.
NeedsFullReload(current, keys, candidates) ==
  \/ \E r \in ToSet(current) : NodeKey(r.config) \notin keys /\ HasRoutes(r)
  \/ \E c \in candidates :
       LET key == NodeKey(c.config)
       IN  IF key \in Keys(current)
             THEN c # Slot(current, key) /\ (HasRoutes(c) \/ HasRoutes(Slot(current, key)))
             ELSE HasRoutes(c)

\* Of several configs with one key the first counts, one without a key never.
Firsts(desired) ==
  {i \in DOMAIN desired :
     /\ NodeKey(desired[i]) # NoKey
     /\ \A k \in 1..(i - 1) : NodeKey(desired[k]) # NodeKey(desired[i])}

DesiredKeys(desired) == {NodeKey(desired[i]) : i \in Firsts(desired)}

Running(current, desired) == {i \in DOMAIN desired : NodeKey(desired[i]) \in Keys(current)}

\* The configs that the panel describes, and what would run of them.
Found(desired, load) == {i \in Firsts(desired) : load[desired[i]].kind = "info"}
Candidate(desired, load, i) == [config |-> desired[i], info |-> load[desired[i]].info]
Candidates(desired, load) == {Candidate(desired, load, i) : i \in Found(desired, load)}

\* A panel that describes nothing is a failure for a node that does not run.
Failing(current, desired, load) ==
  {i \in DOMAIN desired :
     \/ i \notin Firsts(desired)
     \/ load[desired[i]].kind = "error"
     \/ load[desired[i]].kind = "empty" /\ i \notin Running(current, desired)}

Staying(current, desired, load) ==
  Found(desired, load) \cup (Firsts(desired) \cap Running(current, desired))

NextRuntime(current, desired, load, i) ==
  IF i \in Found(desired, load) THEN Candidate(desired, load, i)
  ELSE Slot(current, NodeKey(desired[i]))

\* Some positions of a list, in their order, and what a list has there.
Positions(list, S) == Among([i \in DOMAIN list |-> i], S)
At(list, positions) == [i \in DOMAIN positions |-> list[positions[i]]]

\* What runs then, and what of it ran before and is started again.
NextRuntimes(current, desired, load) ==
  LET order == Positions(desired, Staying(current, desired, load))
  IN  [i \in DOMAIN order |-> NextRuntime(current, desired, load, order[i])]

Changed(current, desired, load) ==
  {i \in Staying(current, desired, load) \cap Running(current, desired) :
     NextRuntime(current, desired, load, i) # Slot(current, NodeKey(desired[i]))}

Reconciled(ok, manager, reload, added, removed, restarted) ==
  [ok |-> ok, manager |-> manager, reload |-> reload, added |-> added, removed |-> removed,
   restarted |-> restarted]

Reconcile(manager, desired, realtime, continueOnError, load) ==
  LET current == manager.runtimes
      running == Running(current, desired)
      staying == Staying(current, desired, load)
      failing == Failing(current, desired, load)
      failures == At(desired, Positions(desired, failing))
      keys == DesiredKeys(desired)
      candidates == Candidates(desired, load)
  IN  IF ~SlotsOk(current) \/ (failing # {} /\ ~continueOnError)
        THEN Reconciled(FALSE, manager, FALSE, 0, 0, 0)
      ELSE IF candidates = {} /\ failing # {}
        THEN Reconciled(TRUE, [manager EXCEPT !.failures = failures], FALSE, 0, 0, 0)
      ELSE IF NeedsFullReload(current, keys, candidates)
        THEN Reconciled(TRUE, manager, TRUE, 0, 0, 0)
      ELSE Reconciled(TRUE,
             [runtimes |-> NextRuntimes(current, desired, load), failures |-> failures,
              realtime |-> realtime, continueOnError |-> continueOnError],
             FALSE, Cardinality(staying \ running), Cardinality(Keys(current) \ keys),
             Cardinality(Changed(current, desired, load)))

\* node_config_for_info: the config of the node's panel; else the only one of
\* that id.
NoConfig == [url |-> "", node |-> 0]

ConfigOf(configs, tag) ==
  LET exact == Among(configs, {c \in ToSet(configs) : c.node = tag.node /\ c.url = tag.url})
      named == Among(configs, {c \in ToSet(configs) : c.node = tag.node})
  IN  IF exact # <<>> THEN exact[1]
      ELSE IF Len(named) = 1 THEN named[1]
      ELSE NoConfig

---------------------------------------------------------------------------
(* Listeners.  An inbound has a tag, a protocol, a listen address, a port  *)
(* and a network.                                                          *)

BindsTcp(in) ==
  in.protocol \in {"socks", "http", "vless", "vmess", "trojan", "shadowsocks", "anytls",
                   "mieru", "naive"}

BindsUdp(in) ==
  \/ in.protocol \in {"hysteria", "hysteria2", "tuic"}
  \/ in.protocol = "shadowsocks" /\ in.network \in {"udp", "tcp,udp"}

\* The TCP listener comes first.
Specs(in) ==
  LET spec(network) == [tag |-> in.tag, network |-> network, listen |-> in.listen,
                        port |-> in.port]
  IN  (IF BindsTcp(in) THEN <<spec("tcp")>> ELSE <<>>)
      \o (IF BindsUdp(in) THEN <<spec("udp")>> ELSE <<>>)

Wildcard(listen) == listen \in {"", "0.0.0.0", "::"}

\* A mutant: the wildcard is an address like any other.
SameListen(a, b) == a.network = b.network /\ a.port = b.port /\ a.listen = b.listen

SpecsConflict(a, b) ==
  /\ a.network = b.network
  /\ a.port = b.port
  /\ a.listen = b.listen \/ Wildcard(a.listen) \/ Wildcard(b.listen)

\* The listeners of an inbound are looked at one by one; those before the first
\* that is taken count as taken from then on, though the inbound is skipped.
AddListeners(done, in) ==
  LET specs == Specs(in)
      taken == {k \in DOMAIN specs :
                  \E i \in DOMAIN done.seen : SpecsConflict(done.seen[i], specs[k])}
  IN  IF taken = {} THEN [done EXCEPT !.seen = @ \o specs]
      ELSE [seen |-> done.seen \o SubSeq(specs, 1, Min(taken) - 1),
            skipped |-> done.skipped \cup {in.tag}]

\* What was seen and skipped after all inbounds.
ListenersSeen(inbounds) ==
  LET upTo[n \in 0..Len(inbounds)] ==
        IF n = 0 THEN [seen |-> <<>>, skipped |-> {}]
        ELSE AddListeners(upTo[n - 1], inbounds[n])
  IN  upTo[Len(inbounds)]

\* filter_conflicting_runtime_listeners: a tag that lost once is gone; `kept' are
\* the positions of the inbounds that stay.
FilterListeners(inbounds, continueOnError) ==
  LET skipped == ListenersSeen(inbounds).skipped
  IN  IF skipped # {} /\ ~continueOnError THEN Failed("listener")
      ELSE [ok |-> TRUE, skipped |-> skipped,
            kept |-> {i \in DOMAIN inbounds : inbounds[i].tag \notin skipped}]

---------------------------------------------------------------------------
(* The plan of the core, before and after its nodes have users.  A node of *)
(* it has a tag, what the panel says of it, a listen address and routes.   *)

InboundOf(x) ==
  [tag |-> x.tag, protocol |-> PlanProtocol(x.node.protocol), listen |-> x.listen,
   port |-> x.node.port, network |-> NetworkOf(x.node)]

Conflict(x, y) ==
  \E a \in ToSet(Specs(InboundOf(x))), b \in ToSet(Specs(InboundOf(y))) : SpecsConflict(a, b)

\* The nodes that have an inbound in the plan.
InPlan(nodes, allow) == {i \in DOMAIN nodes : Outcome(nodes[i].node, allow).kind = "rendered"}

\* build_runtime_bootstrap_plan_with_users, without continue_on_error: one node
\* that is refused, or two listeners in conflict, and there is no plan.
PlanOk(nodes, allow) ==
  /\ \A i \in DOMAIN nodes : Outcome(nodes[i].node, allow).kind # "refused"
  /\ \A i, k \in InPlan(nodes, allow) : i # k => ~Conflict(nodes[i], nodes[k])

\* The core is started from the file, where the routes are rendered.
StartOk(nodes, allow) ==
  /\ PlanOk(nodes, allow)
  /\ \A i \in InPlan(nodes, allow) : RenderConfig(nodes[i].routes).ok

\* The plan of the preflight, which asks for no users.
Bare(nodes) ==
  [i \in DOMAIN nodes |-> [tag |-> nodes[i].tag, node |-> WithoutUsers(nodes[i].node),
                          listen |-> nodes[i].listen, routes |-> nodes[i].routes]]

\* native_gray_preflight_report: no error.  A plan that cannot be built or has no
\* inbound is one, and so is a node left out of it with continue_on_error.
PreflightOk(nodes, allow) ==
  /\ PlanOk(Bare(nodes), allow)
  /\ InPlan(Bare(nodes), allow) # {}
  /\ \A i \in DOMAIN nodes : ~PreflightBlocked(nodes[i].node, allow)

---------------------------------------------------------------------------
(* Properties *)

\* The networks of an inbound as it is rendered (core.rs:2688); what the renderer
\* refuses opens nothing.
RenderedNetworks(in) ==
  LET network == TransportNetwork(in)
  IN  CASE in.protocol \in {"hysteria", "hysteria2", "tuic"} -> {"udp"}
        [] in.protocol = "naive" -> IF network = "quic" THEN {"udp"} ELSE {"tcp"}
        [] in.protocol = "shadowsocks" ->
             IF network = "tcp,udp" THEN {"tcp", "udp"}
             ELSE IF network = "udp" THEN {"udp"} ELSE {"tcp"}
        [] in.protocol \in {"socks", "http", "vless", "vmess", "trojan", "anytls", "mieru"} ->
             {"tcp"}
        [] OTHER -> {}

\* The sockets an inbound opens, one for each address it stands for: an empty
\* address and 0.0.0.0 are every address of the host.
Opens(in, hosts) ==
  LET addresses == IF in.listen \in hosts THEN {in.listen} ELSE hosts
  IN  RenderedNetworks(in) \X addresses \X {in.port}

\* The UDP sockets the filter does not know of: shadowsocks without a network is
\* rendered for both networks, and naive over QUIC is counted as TCP.
HidesUdp(in) ==
  \/ in.protocol = "shadowsocks" /\ in.network = ""
  \/ in.protocol = "naive" /\ in.network = "quic"

\* No two inbounds the core is told to open want one socket, whatever the order
\* of the nodes and whichever were skipped, but for one case: an inbound of
\* those that hide a UDP socket beside one of hysteria or TUIC, which has no TCP
\* socket to give the clash away (runtime.rs:225, 355).
NoDoubleBind(inbounds, hosts) ==
  LET Missed(a, b) == HidesUdp(a) /\ b.protocol \in {"hysteria", "hysteria2", "tuic"}
  IN  \A i, k \in FilterListeners(inbounds, TRUE).kept :
        i # k /\ Opens(inbounds[i], hosts) \cap Opens(inbounds[k], hosts) # {} =>
          Missed(inbounds[i], inbounds[k]) \/ Missed(inbounds[k], inbounds[i])

\* Refused for what the preflight does not see: the fields of a node that waits
\* for its users, and the users themselves.
LateField(node, allow) ==
  /\ Outcome(WithoutUsers(node), allow).kind = "waits"
  /\ BuildInbound(node).ok /\ ~FieldsOk(BuildInbound(node))

ForeignUser(node) == node.protocol = "tuic" /\ ~(node.users \ {""} \subseteq {"uuid"})

\* A start that fails after a preflight that passed fails for one of the things
\* the preflight does not look at: fields of nodes that wait for their users, the
\* users, routes that cannot be rendered (core.rs:600, 724), and a conflict with
\* the listener of a node that waited (runtime.rs:263).  And there is no false
\* alarm: where some node needs no users and the start opens all of them, the
\* preflight passes (main.rs:309).
PreflightHonest(nodes, allow) ==
  /\ PreflightOk(nodes, allow) /\ ~StartOk(nodes, allow) =>
       \E i \in DOMAIN nodes :
         \/ LateField(nodes[i].node, allow)
         \/ ForeignUser(nodes[i].node)
         \/ ~RenderConfig(nodes[i].routes).ok
         \/ /\ Outcome(WithoutUsers(nodes[i].node), allow).kind = "waits"
            /\ \E k \in DOMAIN nodes \ {i} : Conflict(nodes[i], nodes[k])
  /\ StartOk(nodes, allow) /\ InPlan(nodes, allow) = DOMAIN nodes
       /\ InPlan(Bare(nodes), allow) # {} => PreflightOk(nodes, allow)

\* A node's users are asked for with the config of its own panel, also when two
\* panels use the same node id (runtime.rs:200).
OwnConfig(configs) ==
  \A i \in DOMAIN configs :
    LET found == ConfigOf(configs, [url |-> configs[i].url, node |-> configs[i].node])
    IN  found.url = configs[i].url /\ found.node = configs[i].node

\* The positions of the panels that answered.
Answered(answers) == Positions(answers, {i \in DOMAIN answers : answers[i].ok})

\* With continue_on_error, a profile whose panel does not answer takes nothing
\* from the others: while one panel answers the machine has a plan, the nodes
\* that start and the proxy are those of a file without the silent profiles, and
\* each node is served with the config of its own panel (machine.rs:248,
\* node.rs:54).
FailureIsolated(config, answers, broken) ==
  LET resolved == ResolveRuntime(config)
      answered == Answered(answers)
      all == ResolveMachine(config, answers)
      rest == ResolveMachine([config EXCEPT !.profiles = At(@, answered)], At(answers, answered))
      Runs(plan) == Build(plan.nodes, Load(plan.nodes, broken), TRUE).runtimes
  IN  resolved.ok /\ resolved.continueOnError /\ answered # <<>> =>
        /\ all.ok /\ rest.ok
        /\ Runs(all) = Runs(rest) /\ all.proxy = rest.proxy
        /\ OwnConfig(all.nodes)

\* Reconciling a running machine with what the panels describe now touches no
\* node that has routes of its own unless it asks for a full reload, ends no
\* node that is still wanted and whose panel does not answer, and is done after
\* one round: the same answers again change nothing (node.rs:91).
ReconcileSafe(manager, desired, continueOnError, load) ==
  LET once == Reconcile(manager, desired, manager.realtime, continueOnError, load)
      twice == Reconcile(once.manager, desired, manager.realtime, continueOnError, load)
      Routed(m) == {r \in ToSet(m.runtimes) : HasRoutes(r)}
      Silent(r) == \E i \in Firsts(desired) \ Found(desired, load) :
                     NodeKey(desired[i]) = NodeKey(r.config)
  IN  /\ ~once.reload => Routed(once.manager) = Routed(manager)
      /\ \A r \in ToSet(manager.runtimes) : Silent(r) => r \in ToSet(once.manager.runtimes)
      /\ once.ok =>
           /\ twice.ok /\ twice.manager = once.manager /\ twice.reload = once.reload
           /\ twice.added = 0 /\ twice.removed = 0 /\ twice.restarted = 0

===========================================================================
