# A TLA+ model of kelinode-rs

kelinode-rs is the agent that runs on a proxy node. It asks one or more panels
for the configuration and the users of its nodes, keeps the native core
(keli-core-rs, embedded in the agent or run as a child process) serving them,
reports the traffic the core counts, forwards port ranges, serves subscriptions
over TLS and upgrades itself. This directory holds the specification of the parts
of it where the order of steps, failures or many cases matter, the TLC runs that
check them on small instances, and TLAPS proofs for every instance.

## 1. Inventory

| Component | State it keeps | Operations | What makes it correct |
|---|---|---|---|
| User synchronisation (`runner.rs`, `user.rs`) | `user_sync` entries (revision, users, `last_change`, `delta_supported`), one state file per node, users of the plan | refresh by `user_delta` or user list, native delta, rebuild, restart check, revision baseline | a revision always names the users beside it; a delta is exact for its base; the core never goes back; the core comes to serve the panel's users |
| Plan application (`control.rs`, `process.rs`) | the process table, the config file and its route fingerprint | write, keep, hot apply (routes, config), start, reload, stop, leave out taken ports | the core runs what was rendered; a serving core does not lose its users |
| Core files (`core.rs`, `process.rs`) | config file, fingerprint, certificate pair, control token | write through a temporary file, make a self-signed pair, start the core | the files are whole and fit each other after a crash at any write |
| Core plan and configuration (`core.rs`) | none | plan an inbound, validate, render inbounds, routes, outbounds | what is rendered is what the panel means, or is refused |
| Capability table, preflight (`native_capability.rs`, `main.rs`) | none | look up, gate by the canary list, judge a machine before it is switched | no row is dead; the preflight's word holds |
| Traffic report (`report.rs`) | the spool file `*.traffic.pending.json` | load, drain, save or requeue, report per node, trim | no record is lost, none is counted twice without a cause, all are counted in the end |
| Runtime loop and realtime events (`runner.rs` 1520-1880, `realtime.rs`) | event queue, one worker per node, pending replies | tick, user refresh, reload, stop | every event is answered; a reload drops nothing that matters |
| Gray gate (`health.rs`, `runner.rs` 367-406) | the loop's counters, the core's counters | count, judge, report | the gate opens on a clean record only, says why it is held, and a call for rollback is not for ever |
| Upgrades (`upgrade.rs`) | status of the last request (in memory), install directory, backup | request, launch, script with rollback | a failed install leaves the old binaries; what is asked for arrives |
| Port forwarding (`port_forward.rs`) | rules of the plan, rules of the kernel | plan ranges and rules, inspect, repair, clean up | kernel rules become those of the plan; other rules stay; a port goes to the first node that asks |
| Subscription proxy (`subscription_proxy.rs`) | settings, key, certificate, challenge, two servers | normalise, route, rewrite redirects, prepare files, start, report | a subscription reaches its own panel; TLS is not given up; a certificate arrives |
| Configuration, profiles, bootstrap (`config.rs`, `machine.rs`, `runtime.rs`) | none that outlives a call | resolve the file and the machine profiles, merge settings, filter listeners | one panel's failure stays its own; no socket is opened twice |
| Node manager (`node.rs`) | the node runtimes | build, reconcile | reconciling settles and takes down nothing by mistake |
| Device limits, panel client, system probes, logging | none here | I/O, parsing, formatting | not modelled, see section 6 |

The parts meet in the single thread of the runtime loop. A tick refreshes the
users (panel client), hands changes to the core (control client), rebuilds and
applies the plan (core plan, files, process supervisor), repairs the port
forwards, sends the baseline and then reports status and traffic; the status
answer brings reloads and upgrade commands. The core, the panels, the disk, the
packet filter, install scripts and realtime workers act beside it. What is hard
is therefore not shared memory but *what may happen between two steps*: the core
dies, a call is carried out and its answer lost, one panel of several fails, a
file is half written, the agent is killed, two scripts meet in one directory,
another program edits the packet filter. `PROJECT.json` lists these hazards at
their lines with the properties that cover them.

## 2. Modules

| Module | Content |
|---|---|
| `UserSync` | user synchronisation, the runtime loop's tick and plan application as one state machine; implements `UserFeed` |
| `UserFeed` | abstract: what the agent promises about the users of a node |
| `CoreFiles` | the users and the files of a tick, write by write; implements `CoreService` |
| `CoreService` | abstract: what the agent promises about the core |
| `TrafficReport` | the traffic report as a state machine |
| `RealtimeLoop` | the realtime workers, the event queue and the loop that serves it |
| `GrayHealth` | the counters of loop and core and the gate drawn from them |
| `Upgrade` | upgrade commands and the install script, two of which may meet |
| `OrderedFilter` | filtering a list by a set, for `PortForwardPlan` and `Bootstrap` |
| `PortForwardPlan` | from node lists to rules (functions) |
| `PortForward` | inspection, repair and cleanup, command by command |
| `SubscriptionRoutes` | settings, routing, redirects and cookies of the proxy (functions) |
| `HttpExchange` | one connection of the proxy: reading a request in pieces, passing it on, answering (functions) |
| `SubscriptionProxy` | the proxy's servers, key and certificate, file by file, over many runs of the agent |
| `CoreInbound` | from a panel's node to a rendered inbound; capability table (functions) |
| `CoreRoutes` | routes, DNS and outbounds (functions) |
| `Bootstrap` | configuration, machine profiles, listeners, preflight and start of a list of nodes, node reconciliation (functions) |
| `Planner` | a step asks one of the functions with an input, the next forgets it |
| `CorePlanning` | what the answers of `CoreInbound`, `CoreRoutes` and `Bootstrap` must be, for any inputs |
| `ProxyPlanning` | the same for `SubscriptionRoutes` and `HttpExchange` |
| `PortPlanning` | the same for `PortForwardPlan` |
| `MCPlanning` | small inputs for all three |
| `MC...` | constants for TLC |
| `CoreFiles_proofs` | theorems of `CoreFiles`, and of the functions that make the core's configuration: `CoreInbound`, `CoreRoutes`, `Bootstrap` |
| `SubscriptionProxy_proofs` | theorems of `SubscriptionProxy`, and of the functions that answer a request: `SubscriptionRoutes`, `HttpExchange` |
| `..._proofs` | theorems of the module of that name |

Conventions. A user set, a rule or a certificate is abstracted to what the code
compares of it. Observers (variables no action's guard reads) are marked as such
in each VARIABLES list. Definitions that begin with "Mutant of" in their comment
are altered forms of the definition after them; they show that a property can fail
and are used nowhere else. The arms of a CASE exclude one another; where the source's
`match` or its early returns depend on their order, the model has IF and ELSE IF.

### UserSync

- `hist`, `panelRev`, `cfgVer` are the panel: the users it published for each
  node under each revision, and its node configuration (external).
- `loaded`, `cache`, `legacy`, `change`, `disk`: `RuntimeUserSyncEntry`
  (`state`, `delta_supported`, `last_change`) and the saved `UserSyncState`.
- `planVer`, `planUsers`: the `RuntimeBootstrapPlan` the loop owns. A plan built by
  bootstrap has no users; only `rebuild_runtime_plan_with_users` adds them.
- `file`: the core config file with its route fingerprint; `coreUp`, `coreVer`,
  `coreIn`, `coreUsers`, `coreRev`: the process and what it holds in memory.
- `pc`, `kind`, `todo`, `tags`, `outcome`, `baseline`: the position in `run_tick`
  and its locals (`users_by_node_tag`, the delta outcome,
  `startup_full_snapshot_tags`).

A user set is a function from uuids to attributes or `Absent`, so the order of a
user list and duplicates in it are abstracted; an edit is a function to
attributes, `Absent` (deleted) or `Keep`. A tick is cut where another actor can
come between: after each request to a panel, each control call, each inspection
of the process and each write. Actions follow the source in order: `StartTick`;
`RefreshFull`, `RefreshDelta`, `RefreshList` or `RefreshFails` for each node;
`RefreshDone` (which outcome is tried); `NativeDelta`, `NativeMissingInbound`,
`NativeCallFails`; `NativeApplied`, `NativeDeferred` or `Rebuild`;
`EnsureRestartUsesLatestUsers`; one of the `Apply...` and `HotApply...` actions;
`BaselineSnapshot`, `BaselineSkips`, `BaselineFails`; `TickDone`. `Boot`, `Reload`,
`ForcedReload`, `CoreCrash` and `AgentCrash` surround them.

The native core is external. From how the agent uses it: a delta is accepted
only on the base revision the inbound has, a snapshot always; a started or
config-applied core has no revision; `ApplyRoutes` keeps the users and is refused
for another set of inbounds.

`UserFeed` is the promise: `published[n]` only grows, and whatever the core `served` on
a node is one of these sets, as a whole, or nobody; a core that does not run serves nobody.
It does not say which of the sets. Section 5 has the cases in which the code serves an
older one, and that the latest arrives is `EventuallyInSync`. `ImplementsFeed` is the refinement
`published <- the sets of hist up to panelRev, running <- coreUp, served <- coreUsers`.

### CoreFiles and CoreService

`CoreFiles` cuts a tick finer than `UserSync`: `cert` and `key` (each file holds the
number of the pair it belongs to), the pair being made, `temp` and `file`, the route
fingerprint `mark`, the control `token`, and what the core `served` and with which
`coreToken` it was started. A tick begins with the users: `known` are those the agent has,
`applied` and `rebuilt` what this tick did with them. `Tick` goes to the native delta
(`DeltaApplied`, `DeltaRefused`, `DeltaLost`), which reaches the core beside the file and
leaves the plan as it was, to `Rebuild`, or straight to `EnsureLatestUsers`, which puts the
known users into the plan of a core that has to be started. The writes follow, then
`StartCore`, `LeaveRunning` (nothing changed, or a delta was applied in this tick and the
core keeps running although the file changed), a hot apply or `SendUsers`. The agent may
die between any two writes (`Crash`), a write may fail (`DiskError`), a key, a certificate,
the token, or the answer of a call may be lost, and a certificate may be delivered in two
steps (`DeliverCert`, `DeliverKey`). The core is the embedded one and dies with the agent.

`CoreService` is the promise: `wanted`, `known`, `stored`, `served`. A core is started from the
file, with the users the agent knows (`Launch`); a core that runs takes a configuration, all
of it or its routes, only when it is stored and wanted at that moment (`Serve`); and it may be
handed the known users beside the file (`HandOver`). `ImplementsService` is the refinement
`wanted <- plan, stored <- file`, the other two by name.

### TrafficReport

A record has an identity in the model and none in the program, which compares
values (`SameRecord`); that is what lets a dropped record be told from a
delivered one. `core`, `spool`, `records` and `drained` are where a record can be;
`billed` counts how often the panel counted it and `lost` collects what went with
a process or an answer: both are observers. Actions follow
`report_keli_core_activity_to_panel_with_user_lookup` line by line: `LoadPending`,
`DrainTraffic`, `SavePending` or `RequeueDrained`, one action per target
(`SkipTarget`, `ReportSnapshot`, `ReportUserTraffic` then `ReportOnlineUsers` for
an old panel, `ReportFails`), `BatchDone`, `TrimPending`. The device-limit commit
between the batch and the trim has no effect on this state. A report runs at the
end of a tick and sees whatever inbounds `UserSync` left, which is `PlanChanges` here.

### RealtimeLoop

Every node has a worker (`wpc`, `wmsg`) with its own
connection (`conn`, `wire`); `queue` is the channel of
`start_realtime_runtime_workers`, an event being the node whose worker sent it, and
`reply` the one-shot channel the worker waits on. `lpc` is the position of the loop:
`boot` (which starts the workers), `refresh` for the timer or for an event, `select` and
`sleep` for the two moments of the `tokio::select!` (an event that is already there is always
taken, one that comes later may lose against the timer), `exit`. `fetched` is the user
revision in the cache and `ticked` the one a tick brought to the core. A refresh asks one
node after the other and collects in `tags` those whose users are to be brought to the core;
`inPlan` are the nodes whose users the plan has. `TickUsers` is what a tick does with them:
deltas for the nodes in `tags`, or a rebuild for all. Which of the two is `UserSync`'s to say;
here both may happen. With `continue_on_error` nodes may be left out, because their inbound
is missing or because one before them was deferred: these are `missing`, and `ticked` does not
move. Actions: `Connect`, `Receive`, `Answer` and `Disconnect` of a worker; `Boot`, `Refresh`,
`RefreshFails`, `NothingToDo` (an event without changes is answered without a tick),
`EventTick`, `TimerTick`, `TickFails`, `TakeEvent`, `FallAsleep`, `WakeUp`, `Shutdown` and `Exit` of
the agent. `reports` and `lenient` are the two settings the control depends on and are chosen
in `Init`. A panel is assumed to ask for a reload in every status answer until its
configuration is loaded; an upgrade command, which ends the loop in the same way, is left to
`Upgrade`. A `Reload` of `UserSync` is an `Exit` to `boot` here.

### GrayHealth

`own` is `RuntimeUserDeltaMetrics` of the loop, `core`, `signals` and `quic` what the core
reports, `known` whether it has a revision to base a delta on. `StartLoop` and
`CoreCrash` each reset one side. A tick applies deltas (`ApplyDelta`, `ApplyFallback`,
`ApplyDeferred`, `ApplyFails`), rebuilds (`Rebuild`) or does neither (`QuietTick`), then
`Report`s, applies its plan (`ApplyPlan`) and sends the baseline (`Baseline`).
`Verdict` is the part of `native_core_gray_health_value` that decides: recovery, mode,
gate and reasons over the same counters and pressure signals; the rows that copy
values are left out. Counters stop at `Limit` as `saturating_add` stops at the
largest integer.

### Upgrade

`want` is the command in the panel's answers, `status` the manager's memory, `dir` the
install directory with two binaries and their version markers, `pc[j]` and `backup[j]`
the script of unit `j` (component and version). systemd refuses a unit name that is
taken, by a script that runs or by one that failed: without `--collect` a failed unit stays
loaded, which is `stuck`, until a reboot (`ExitError`). `locked` says whether this kernel
refuses to write to a program that runs and `held` whether the agent runs the file that is in
the directory; then `cp` finds the file `Busy`. A `cp` or `chmod` that fails half way ends the
script under `set -eu` without its rollback and is kept in the observer `cut`. `Respawn` is the
service manager trying a service that could not start. `Request` is `UpgradeManager::request` with its launch; the script's actions are
its lines in order (`Backup`, `MakeDir`, `Fetch`, `Copy`, `Verify`, `Mark`, `Restart`) and
those of `restore_backup` (`Remove`, `Move`, `Revive`). Every line is an action, so two
scripts interleave line by line; `Reboot` cuts all of them short.

### PortForwardPlan and PortForward

`PortForwardPlan` follows `build_hysteria_port_forward_rules` and its Mieru twin: parse
checks, removal of target ports and of what earlier nodes got, matchers of at most
`MaxMultiport` ports (15 in the code), allow rules. `PortForward` keeps `table[t]` for each
tool; `Tick` begins the inspection and `Stop` the cleanup, both through `Begin`, since an
error of the core may end the agent before either is reached; `Inspect` compares as sets, `Prepare` lists once more
and makes the commands, `RunCommand` executes one of them, `Following` goes on to the next
tool and family. Another program takes rules away between
any two commands.

### SubscriptionRoutes, HttpExchange and SubscriptionProxy

`SubscriptionRoutes` has the normal form of the settings, the choice of the upstream for
a request, the answer of both servers, and the rewriting of a website's redirects and
cookies; a URL is an origin and a sequence of path segments. `HttpExchange` is one
connection: `ReadRequest` has a request's bytes and every way the socket may cut them
into reads, `UpstreamHeaders` and `UpstreamRequest` say what is passed on,
`UpstreamReply` and `Render` what is written back; a body is the sequence of the
connection's byte numbers, so that a byte passed twice or not at all shows.
A segment of a path has escapes that can be decoded or not (`Decodes`); a token that is blank
when decoded is 404, one that cannot be decoded is 502. `SubscriptionProxy` is the life of the
key and the certificate. A start is `apply_and_start_with_file_system` in steps: `Start`,
`WriteChallenge`, `WriteCertificate`, `MakeKey`, `MakeRequest`, `StartServers`, each able to fail,
and `Crash` may come at each of them, within `openssl genrsa` too, which then leaves part of a key. A file may be
lost between (`LoseFile`). Settings without a certificate domain ask for no certificate.
`Report` hands the status to the panel, which may `Order` and `Issue`
(external), and a `Reload` brings the certificate.

### CoreInbound, CoreRoutes, Bootstrap

Functions from small records. `CoreInbound`: `BuildInbound`, the validations
(`FieldsOk`), the key into the capability table, `CapabilityOk`, `RenderInbound`, and `Outcome`
(rendered, waits for users, refused). `CoreRoutes`: which routes are
skipped or refused, their targets, the outbound endpoints and streams, what is
collected. `Bootstrap`: `ResolveRuntime`, `ResolveProfiles`, the merge of proxy settings,
`FilterListeners`, `Build` and `Reconcile`; and, for a list of nodes with their routes and
addresses, what the preflight says (`PreflightOk`, of the nodes without their users, `Bare`) and
whether the start then succeeds (`StartOk`). `Opens` are the sockets of an inbound as it is
rendered, which is not what the filter counts. A round of `Reconcile` is put together from sets of
positions of the wanted configs: the first of each key (`Firsts`), those the panel describes
(`Found`), those that fail (`Failing`), and those that run afterwards (`Staying`). `Reconcile` is
part of the library's interface; the agent itself reloads by starting over and does not call it
at this commit.

## 3. Runs

| Run | Instance | Shows |
|---|---|---|
| `sync_faults` | 2 nodes that continue on errors, one needs users, one may find its port taken; 2 user sets, one part of the other, 2 revisions, 1 configuration, six kinds of fault, 2 faults | revisions name their users, pending changes are exact, the core does not go back; `UserSync` implements `UserFeed` |
| `sync_live` | 2 nodes, one panel without `user_delta`; panel, disk, agent faults and forced reloads; an error ends the agent | the core comes to serve the panels' users and configuration; a serving core keeps its users over reloads and rebuilds |
| `traffic_all_faults` | 3 records on 2 nodes, one old panel, seven kinds of fault, 2 faults | nothing is lost, a recount needs a fault, everything held is counted in the end |
| `traffic_drops` | equal records, records without user id, records below the minimum, inbounds that leave the plan | a record is given up only for a known reason |
| `traffic_equal` | two equal records | the disagreement described below |
| `realtime_loop` | 2 workers, 1 change of users per node, 1 configuration change, five kinds of fault, 1 fault, both settings | one event per worker; "applied" means that the users are in the core, or that `continue_on_error` passed the node over; an acknowledged message takes effect |
| `upgrade` | 2 components, 2 releases, 2 commands, six kinds of fault, 2 faults, kernels that refuse to write to a running program and kernels that do not | "succeeded" is true; a script on its own leaves all or nothing, but for a `cp` or `chmod` cut off half way; what is asked for is installed in the end, or its failed unit keeps the name |
| `port_forward` | 2 tools, both families, 3 node lists, an old release's chain, five kinds of fault, 2 faults, 1 stop | a quiet repair gives the plan and a quiet stop leaves nothing; no copies; nobody else's rules are touched; the plan is reached in the end |
| `subscription_proxy` | all eight valid settings and invalid ones, 2 orders, 1 change of settings, six kinds of fault, 2 faults | the status is what was started; TLS is given up only for a lost file; a needed certificate arrives, unless its key was cut off |
| `core_files` | 2 routings, 2 user lists, 2 changes, seven kinds of fault, 2 faults | a usable pair fits, unless its certificate was lost; `CoreFiles` implements `CoreService`; the core comes to run with the panel's routes |
| `gray_health` | one start of a new loop, one fault of five kinds, one pressure signal, a QUIC load at 90 percent | the gate opens on a clean record only, a held gate has a reason, a rollback is withdrawn |
| `planning` | every input of the sets in `MCPlanning`, about 101,900 | eleven statements about the planners, below |

`planning` puts functions to reference definitions that say what the result means
rather than how it is computed:

- `PortGoesToFirstAsker`: the rules, read back as a relation from ports to targets, are
  the first asker of each port that no node listens on.
- `SubscriptionGoesToOwner`, `RedirectReturns`: a subscription path goes to the upstream
  of its site whatever websites are configured, and 502 is answered only for an upstream that
  fails or for a token that cannot be decoded; following a rewritten `Location` leads
  back to the page the website meant, with its cookies. The challenge server serves
  nothing of either.
- `ExchangeIsExact`: however the socket cuts a request, the upstream gets the announced
  bytes and nothing else, a request within the limits is not refused, headers of one
  connection stay on it, and an answer is whole or 502. A head that ends less than one
  read before its limit is excepted: the code counts the part of the body that came with
  it (`subscription_proxy.rs:1853`).
- `RouteOutboundExists`: a rendered route names a rendered outbound.
- `EncryptedStaysEncrypted`, `NoDeadRow`: the TLS a panel asks for is not lost between the
  fields, the table and the renderer; each row of the table is reached by a node the
  field checks let through, and rows do not contradict each other.
- `PreflightKeepsWord`: a machine that the preflight passes starts, but for what it does not look
  at: fields of nodes that wait for users, the users, routes, and listeners of nodes that
  waited. And it raises no false alarm.
- `NoSocketTwice`: inbounds kept together open different sockets on every address, but for a UDP
  socket the filter does not know of (`HidesUdp`) beside hysteria or TUIC.
- `ProfileFailureIsolated`: a profile whose panel does not answer changes nothing about
  the others, nodes and proxy settings included.
- `ReconcileSettles`: reconciliation leaves routed nodes to a full reload, keeps a wanted
  node whose panel is silent, and a second round changes nothing.

One run expects a violation: `traffic_equal`, quoted in `findings`. A fresh record
that equals a pending one is dropped as a duplicate although it is new traffic. The fold is
meant: `docs/NATIVE_CORE_GRAY_RELEASE.md:228` asks for it and the test at `report.rs:1052`
asserts it. What disagrees is line 223 of the same document, that a report failure "must not
lose data", since a record carries nothing that tells one drained twice from a new one.

### Bounds

The `Max...` constants bound what the environment does and nothing the agent does. Two
revisions after "none" give a delta on a base, a base that is stale and a core without
one; longer histories are left to the proofs. Two configurations are needed for one reload
that a panel asks for (`sync_live`), two faults for a fault during the recovery from another (a lost
answer, then a crash). Two nodes are the fewest for a tick that fails between nodes. In
`TrafficReport` three records on two nodes give a node with two records, of which
one can be pending and the other fresh, beside a node that succeeds. In
`RealtimeLoop` two workers are the fewest for an event that is dropped because of
another one. In `Upgrade` two releases and two commands are the fewest for scripts that
meet, of the same component or of both. In `PortForward` port ranges overlap each other
and each other's targets; a multiport rule takes two ports instead of 15, so that both a
full and a partly filled one occur. In `HttpExchange` a read brings two bytes and the
limits are two to four: heads, bodies and answers fall below, on and above each limit, and
the end of the head on the first and on the last byte of a read. In `GrayHealth` one signal stands for those that hold
the gate open to monitoring; the proof is for all of them. The user sets
of `sync_faults` are nested, so that an increment taken on the wrong base makes a set nobody
published: a user without the one that is in both. In `sync_live` a user changes its
attributes instead. No run uses symmetry.
`traffic_drops`, `upgrade`, `port_forward` and `subscription_proxy` allow a behaviour to end: an
agent without inbounds reports nothing, one whose panel asks for nothing installs
nothing, and all bounds can be used up.

### Fairness

- `UserSync`: the loop's thread keeps taking steps (`WF(LoopStep)`: one task, no lock, each
  request has a timeout) and a reload the panel keeps asking for is not put off for ever
  (`SF(Reload)`: the signal is read from each status answer, and the loop only sleeps at
  `idle`). `EventuallyInSync` is checked without control faults and core crashes, for the
  reasons in section 5.
- `TrafficReport`: `WF(ReportStep)`, every reporting tick reports.
- `RealtimeLoop`: the tasks of the loop and of each worker are scheduled, and the service
  manager starts the agent again (`Restart=always` in `script/install.sh`).
- `Upgrade`: a script runs on, `WF(Request)` because the panel repeats its command in
  every status answer, and `WF(Respawn)` for `Restart=always`.
- `PortForward`: ticks follow each other, a repair goes on, the service is started again: by
  `Restart=always` after an error, and by whoever stopped it, who is taken to want it again.
- `SubscriptionProxy`: a start that was begun goes on (`WF(StartStep)`), runs follow each other and report; the panel orders when it is told
  of a need, and the authority issues an order that comes back again and again
  (`SF(Issue)`: it may look at the challenge between two runs, when nobody serves it).
- `CoreFiles`: `WF(AgentStep)`, and a delivery that was begun ends.
- `GrayHealth`: a tick that was begun goes on. That deltas are applied is an assumption of
  `RollbackWithdrawn`, not of the specification.

Nothing is assumed of panels and faults otherwise, whose number is bounded.

## 4. Proofs

All theorems hold for every value of the constants that satisfies the module's
assumption. Each module has its type theorem (`TypeCorrect`, `LoopTypeTheorem`,
`UpgradeTypeCorrect`, `ProxyTypeCorrect`, `GrayTypeCorrect`, `FilesTypeCorrect`), on which the
others rest.

`UserSync_proofs`:

- `SyncInvariant`: `Spec => []SyncInv` when no panel takes a node back to an empty user set
  (`NoUsers \notin PanelUsers`; section 5 says why).
  `RevisionNamesUsers` is not inductive: that the core's users match its revision
  after a delta needs the delta to be exact (`ChangeExact`), which needs the cache to
  be truthful at both ends (`CacheTrue`), which needs every kept revision to be one
  the panel has published, or a later publication could change what it names. That
  a snapshot never takes the core back needs `CoreBehind`, and that only nodes
  whose change is a delta reach the native phase needs `TickSets`.
- `RevisionsNameUsers`, `PendingChangesExact` follow from the invariant;
  `CoreRevisionsAdvance` is the action property, from the invariant and one case per
  action that touches the core.
- `ServedUsersStay`: `Spec => ServedUsersKept` without `continue_on_error`. With it the
  property is false (section 5, users), and the hypothesis is the one of the run.
  `SuppliedInv` follows users on their way: a node whose panel has users and which the core
  serves has them in the cache, or is still to be asked about in this tick; the plan has
  users only of nodes whose cache has some; and neither is ahead of the panel. It rests on
  `SyncInv`, since a delta in place of the users must lead to the cached ones.
- `FeedKept`: `Spec => ImplementsFeed` under the hypothesis of `SyncInvariant`, with or without
  `continue_on_error`, for panels with and without `user_delta`. `SyncInv` speaks of users that
  have a revision; a plan has none, and neither has a core started from its config. So
  `FeedInv` says of every place that keeps users (cache, disk, plan, core) that they are a
  published set or nobody. `StepFed`: a step that publishes nothing moves such sets about
  (`MemoryFed`), and leaves the core alone, ends it or gives it such sets (`CoreFed`), which are the
  stutter, `Stop` and `Serve` of `UserFeed`; `PublishAddsOne` is its `Publish`. Two steps make
  sets instead of moving them, the panel's increment on the cache and the delta on the core;
  there `PanelEditExact` and `DeltaGivesCached` need `SyncInv`.

`TrafficReport_proofs`:

- `CountsBounded`: `Spec => []RecountedOnlyAfterFault`. The invariant
  `CountsFollowFaults` distinguishes records that will be reported again (at most
  one count per fault) from those just handled (one more), and needs `InHand` (what
  is in hand is what is in the file) and `OnePlace`.
- `TrafficNotLost`: `AllAccountable => (Spec => []NothingLost)`, where no two records
  are equal, all carry a user id and no plan loses an inbound. `HandledOrOwed` says
  why the trim is safe; `traffic_equal` shows that the first hypothesis is needed,
  section 5 the last.
- `DropsExplained`: `Spec => DroppedForAReason`, with equal records, records without user
  and plans that lose inbounds, so without the hypothesis of `TrafficNotLost`. The trim is
  the step that could lose a record; `TargetsHandled` is `HandledOrOwed` for the records
  that have a target.

`RealtimeLoop_proofs`:

- `OneEventTheorem`: `Spec => []OneEventPerWorker`, for any number of workers. That a
  worker which sends an event finds its reply channel empty needs `ReplyIsAwaited`;
  that a new loop starts with an empty queue, and that a sleeping or ending loop
  handles no event, is `IdleLoop`.
- `AppliedTheorem`: `Spec => AppliedMeansTicked`, with the two exceptions of `continue_on_error` in
  the property (a request that was skipped, a node that was left out). The invariant adds
  `OnlyPublished` (a message on the wire or in a worker's hands announces what the panel has),
  `EventServed` (the node of the event is still to be asked about, was skipped, or has an answer
  as new as the message), `AllCaught` (what the cache has is in the core, is to be brought there
  by the tick that follows, was left out, or the plan lacks the node and the next refresh takes
  it up), which is what makes an answer without a tick true, and `OnlyLenient`.

`CoreFiles_proofs`:

- `Implements`: `Spec => ImplementsService`, the refinement of `CoreService`. `StepInv` says
  at which steps of a tick the file is the plan and the temporary file is, that a core is
  there when users are sent, and that from the users of a tick to the start of a core that
  does not run the plan has the known users, which deltas had left out of it. Then each
  action is `Want` (`WantRefines`), `Store`, `Launch` (`LaunchRefines`), `Serve`, `HandOver`
  (`HandOverRefines`), `Stop` or a stutter.
- `PairsFit`: `Entrypoint => (Spec => []UsablePairFits)`. The pair is written certificate
  first after the old key is gone or unusable, so the moment in which the certificate is new
  has no key beside it, unless only the certificate had been lost. `PairInv` follows the
  exception: a key alone comes of a lost certificate, and that key is older than the pair that
  is being written.

The functions that make the configuration are proved about for any sets of inputs, not
for the small ones of `planning`: the theorems are `CoreSpec => []P`, where `CoreSpec` lets
every step ask one of the functions with any member of the constants `NodeInputs`,
`RouteInputs`, `ListenerInputs`, `MachineInputs`, `ReconcileInputs`. `CoreInputsAssumption` says no
more than what these are: nodes with the fields of `CommonNode` (`PanelNodes`: any texts, also
unknown ones), lists of routes, lists of inbounds that listen on an address of the host or on
all of them, configuration files with an answer or a failure for each profile, and node managers
with a list of configs. A manager need not be one that `Build` or a round has made.
A start is any list of two such nodes with any routes and addresses.
Each theorem is a lemma about the function (`EveryNodeKept`, `EveryPreflight`,
`EveryRouteResolves`, `EverySocket`, `Isolated`, `EveryRound`) and the fact that what is asked is an input (`CoreAsked`).

- `EncryptionKept`: `CoreSpec => []EncryptedStaysEncrypted`, one case per security the
  field checks know; it needs nothing of the node.
- `PreflightTruthful`: `CoreSpec => []PreflightKeepsWord`. `BuiltWithout` and `UsersApart` compare the
  plan of a node with the plan of the same node without its users, which is what the preflight
  sees: the checks differ for tuic alone, the capability row never. `OnePreflight` is the
  statement for one node. The listeners of a node do not depend on its users
  (`ConflictWithoutUsers`), so that a conflict the start meets and the preflight did not has a
  node in it that waited; `EveryPreflight` puts both together for a list of nodes.
- `NoSocketOpenedTwice`: `CoreSpec => []NoSocketTwice`. `Settled` is the invariant of the loop over
  the inbounds: those that stayed so far do not conflict, and what they listen on was seen. A
  tag that loses later only leaves fewer to compare. `RenderedCounted` compares what is rendered
  with what the filter counts: every TCP socket and every UDP socket but the hidden ones, which
  it counts as TCP. So listeners that do not conflict are sockets apart, or a `MissedClash` (`Apart`).
- `RoutesResolve`: `CoreSpec => []RouteOutboundExists`. `Listed` is the invariant of
  the loop that collects outbounds: each tag a route sends to is there, once.
- `FailuresIsolated`: `CoreSpec => []ProfileFailureIsolated`. `SilentProfiles` follows the loop over
  the profiles twice, once over all and once over those with an answer (`Among`): after every
  profile the two sums are `Alike`, that is equal but for the failures they count, and have a
  success as soon as one answered. `FewerProfiles`: the file without the silent profiles resolves
  to the same nodes, settings and remaining profiles; `MachinePlan` puts the sums into the plans.
  `OwnConfigs` is the statement about `ConfigOf` for any list of configs.
- `RoundsSettle`: `CoreSpec => []ReconcileSettles`. `NextSlots`: what runs after a round has one slot
  for each key in `Staying`, so the next round accepts it. `NextRound`: with the same answers the
  next round finds the same configs, chooses for each the runtime that is there, and counts
  nothing. A round that ends early (an error, all panels silent, a full reload) leaves the
  runtimes alone and ends in the same way again. `RoutedKept` and `SilentKept` are the other two
  parts.

- `TableAlive`: `OrdinaryNodesIn(NodeInputs) => (CoreSpec => []NoDeadRow)`. An ordinary node has a
  certificate, a user and the keys of Reality, any protocol, network, TLS mode and flow, and no
  setting that its protocol does not need. When those are among the inputs (for `planning`,
  `OrdinaryAssumption` has TLC look), each row that is not a rejection has its witness:
  `OrdinaryBuilt` says what such a node is built to, `OrdinaryReaches` that the field checks, the
  table and the renderer take it under that key, and `EveryKeyReached` goes through the keys.
  `KeysDiffer`: the table is written line by line, and no two lines share a key.

`Upgrade_proofs`:

- `SucceededTruthful`: the status is only compared with the agent that runs, and a restart
  of the agent forgets it.
- `UpgradeAllOrNothing`: `Spec => []AllOrNothing`. A copy that failed half way is no reason to drop
  the claim: the property then says which single binary differs, and that all else is as
  before. `InstallInv` follows the script that has the directory to itself
  line by line (`Alone`): where the directory is still as it was, where one binary
  differs, where only the backup is left. That a script starting alone finds a
  directory at all needs the fourth conjunct: a missing directory under a running
  agent belongs to a script between its `rm` and its `mv`.

`SubscriptionProxy_proofs`:

- `StatusTruthful`, `TlsKept`. `NoDowngrade` is not inductive; it needs `FilesStay`: once TLS was
  served, the key and the certificate are there, in whatever state, or were lost and not
  written since; the plain mode is chosen only for a missing file. `StartOver`: a manager comes
  to be at the end of a start, so the files it was started from are those of the step.
- `ExchangesExact`: `ProxySpec => []ExchangeIsExact` for any limits (`LimitsAssumption`: they are
  numbers, and a read brings something), any request with a head, any way the socket cuts it
  and any answers (`ProxyInputsAssumption`: sizes are numbers, the lists are lists, a path has a
  segment).
  `CutForgotten` is the heart of it: once a head was found, what is read is a function of
  the request (`WholeRequest`) and the cut no longer shows; `HeadFound` says when it is
  found whatever the cut.
- `SubscriptionsReachOwner`, `RedirectsComeBack`: `ProxySpec => []SubscriptionGoesToOwner` and
  `[]RedirectReturns`, for any settings with sites and websites under any prefixes and any
  requests, escapes that cannot be decoded included. That a normalized configuration is again lists of profiles (`NormalizeTypes`) is
  an induction over the profiles that are kept. `BestMatch` says which
  website is found: the longest prefix that matches, the last of equal ones. A redirect
  comes back because the prefix that is put before its path matches again, and no better
  website does (the property's own condition).

`PortForward_proofs`, for any lists of nodes (`NodeListsAssumption`, `PortInputsAssumption`: a node
has a port that is a number or 0 for none, settings that are lists of pairs of numbers, also
malformed ones, and any texts for kind and transport):

- `FirstAskerServed`: `PortSpec => []PortGoesToFirstAsker`, by the loops of the planner from the
  inside out. `SubtractRangePorts`, `SubtractAllPorts`: the ports of what is left of a list of
  ranges are those of the list but for the ones taken away. `MatchersPorts`: cutting ranges into
  matchers keeps the ports. `PlanBuilt` is the invariant of the loop over the nodes: after k
  nodes, a port is allocated to a target, and a rule sends it there, exactly if the first of
  these nodes that asks for it has that target and no node of the whole list listens on it
  (`Owns`). The step (`OwnsMore`) needs both parts: a node is refused the ports that are
  *allocated* to other targets, and the statement is about the *rules*. Two nodes that share
  a target are not refused each other's ports, which changes nothing, as the port goes there anyway.
- `PlansRight`, a lemma the theorems below rest on: the rules of a plan carry their family's
  comment and none is planned twice.
- `OthersStay`: `Spec => OthersUntouched`. `CommandsOwn`: every command that is still to be
  run names a rule of the family whose repair it is, because listings are filtered by
  comment.
- `NoRuleTwice`: `Spec => []NoCopies`. `CopiesInv` adds `FreshAdds`: the rules that the
  commands will add are distinct, and each one that is in the table is deleted by a command
  before it is added.
- `RepairReachesPlan`: `Spec => []RepairedIsPlan`. `CalmInv` says how far a repair is that
  nothing has disturbed since its start: the tools before the current one have the wanted
  rules, and in the current one rules are left to delete, the old chain is left to drop, or
  the first of the wanted rules are there and the others left to add. It needs
  `CommandsOwn`, so that the family that comes later does not undo the earlier one.

`GrayHealth_proofs`:

- `GateOpensClean`: `Remembered` says that what happened to this loop's deltas is still in
  the loop's own counters, which saturate and never return to zero (`AddedType`), so that
  a core that restarted and forgot cannot open the gate.
- `GateExplained`: a lemma about `Verdict` for all readings (`HeldGateReason`), one case per
  way to hold the gate.

The inductive invariants were checked with TLC on the instances of the runs before they
were proved.

Induction over data. The functions are folds and recursive functions over lists. The
library's induction principle takes an operator, which the provers cannot instantiate, so
the proofs use induction over a set of naturals (`LeastNat` and `SetInduction`, from the
well-foundedness of `<`): the set of the lengths for which the claim holds. What a recursive
function is has to be shown as well: that a function with its equations exists
(`SeesExists`, `CollectExists`, `FlattenExists`, `KeepsExists`, `LoopExists`, `FilterExists`,
`SumExists`), by the same induction, and that the one
that is chosen therefore satisfies them.

Only model-checked is liveness (`EventuallyInSync`, `EventuallyBilled`, `ReceivedTakesEffect`,
`EventuallyUpgraded`, `EventuallyPlanned`, `CertificateArrives`, `EventuallyServes`,
`RollbackWithdrawn`), which needs fairness and is out of the prover's reach.

Every other property of the runs has its theorem.

## 5. Observations

What the models show of the code beyond the properties. None of these has a run of
its own but the first.

- Traffic: a fresh record equal to a pending one is dropped (`traffic_equal`). Pending
  records of a node whose inbound has left the plan are cleared by the next report
  although it did not send them (`report.rs:131`). An old panel that takes the traffic and
  refuses the online users counts the traffic twice, within the bound of
  `RecountedOnlyAfterFault`.
- Users: after a reload, a failed refresh under `continue_on_error` leaves the plan
  without that node's users and it is hot-applied over the core's (`runner.rs:1931`). A
  core that dies after the restart check is started from the plan's older users and
  stays behind until the panel's next change (`runner.rs:1376`); so does one whose
  baseline snapshot is lost after accepted routes. An empty full list moves the revision
  and keeps the users (`user.rs:192`), so the next increment is patched onto users the
  panel had removed. A panel that offers `user_delta`, loses it and has it again leaves
  an old revision in the entry (`runner.rs:2042`).
- A tick logged as "keeping runtime unchanged" goes on to apply its plan when it
  reports to the panel (`NativeDeferred`). A configuration written in a tick that applied
  native deltas stays in the file while the core keeps running (`control.rs:620`). It reaches
  the core because that plan has no users yet, so the next tick rebuilds and hot-applies
  (`EventuallyInSync`, `EventuallyServes`).
- With `continue_on_error` a node whose inbound is missing defers its delta and ends the deltas
  of the nodes after it (`runner.rs:543`); the next refresh clears their `last_change`, and
  their users wait for the panel's next change or for a rebuild. The worker is told "applied"
  all the same, and also when the request for its node failed and was skipped;
  `src/README.md:58` ties the two words to the outcome. `AppliedMeansTicked` names both cases.
- Core files: a delivery that does not wait for the agent, unlike the container's
  entrypoint, can leave a certificate beside another's key that both look usable. Losing
  the certificate alone, with a crash before the new key is written, does the same: the pair
  parses, so it is kept for good and the core does not start (the exception of
  `UsablePairFits` and `EventuallyServes`). A
  crash between the file and its fingerprint makes the next change of users alone be
  applied as a change of routes.
- Inbounds whose port was taken at the start are left out, rendered again by the next
  tick and hot-applied (`control.rs:702`).
- Upgrades: two scripts that meet share the directory. A failing one restores what the
  other had replaced, and a `mv` onto a directory that another script has made anew nests
  the backup in it (`upgrade.rs:380`). After that the status stays "running" and the
  command is not carried out again. A `cp` or `chmod` that fails half way is not rolled back
  (`upgrade.rs:456`), where `src/README.md:60` speaks of rollback for upgrades: half a binary stays.
  A unit that failed keeps its name, since `systemd-run` has no `--collect` (`upgrade.rs:336`), so
  the same release cannot be tried again before a reboot; and `cp` onto the binary the agent
  runs from is refused by Linux (`ETXTBSY`), which ends an upgrade of the agent itself that way.
- Port forwarding: when a listing fails while the commands are made, rules are added
  without being deleted, and the comparison of sets does not see the copies. The Mieru
  rules are not removed when the service stops, and a core that cannot be stopped ends the agent
  before any cleanup (`main.rs:554`). The command `rules repair`, run by hand beside the agent, is
  a second way to copies.
- Subscription proxy: an error of `accept` ends the listener while the status goes on
  saying "running"; invalid settings leave the default status. Both report nothing, where
  `src/README.md:73` promises to "report startup failures through machine status". An agent that
  ends within `openssl genrsa` leaves part of a key, which every later start takes for the key
  (`subscription_proxy.rs:1348`), so no certificate fits any more. A lost certificate whose write
  then fails is served around in the clear where `allow_http_fallback` is set
  (`subscription_proxy.rs:1209`). A token that cannot be decoded is answered 502 although no
  upstream was asked (`subscription_proxy.rs:634`). Website profiles of
  machine profiles are not merged into the file's (`runtime.rs:397`), and of two profiles with
  proxy settings the second's `allow_http_fallback` is not looked at.
- Listeners: a node may be left out for a listener of a node that is itself left out
  later (`runtime.rs:225`). A shadowsocks inbound without network is rendered for TCP and UDP
  (`core.rs:2689`) while its UDP socket is not looked at, and naive over QUIC is counted as TCP
  (`runtime.rs:340`): beside hysteria or TUIC on the same port both are kept.
- Two panels with the same node id, or two profiles of one name, share a directory.
- Preflight: a machine with only nodes that need users always fails it, since it loads
  none. The fields and the listeners of nodes that wait for users are not looked at, and neither
  are routes: a route that cannot be rendered (`core.rs:600`) fails the start of all nodes after a
  passed preflight.
- Reconciliation where every load fails keeps nodes that are no longer wanted.
- Gray gate: the first tick of a loop with a running core counts as a rebuild, so a new
  loop reports "degraded" or "fallback_repaired" first (`docs/NATIVE_CORE_GRAY_RELEASE.md:176`).

## 6. Not modelled

- JSON, the control socket's framing, log texts and parsers of system files are
  I/O or formatting. The tests inside the source files, about half of their lines, are not
  code of the agent.
- The panel client: its answers are inputs where they are used.
- Device limits (`report.rs` 416-521): the alive list is handed on to the core and what was
  reported online committed; failures are logged, and no state of the agent depends on
  either.
- TLS records, what a percent escape stands for, and what `openssl` computes; key and
  certificate of the subscription proxy are tokens.
- Upgrades on a machine without `systemd-run`: the fallback by `nohup` (`upgrade.rs` 356-372) has
  no unit whose name could be taken, and its scripts are those of `Upgrade`.
- The commands of the CLI that act beside a running agent, such as `rules repair`.
- The rows of the health document that copy values, and the evidence texts and outbound
  rows of the capability table, which no lookup asks for.
- Merging of panel settings into the configuration file (`control.rs` 783-966): field by
  field, without an order to get wrong.
- A panel either has `user_delta` or not: one that loses the endpoint and gets it back
  between two reloads is left out of `UserSync`.

## 7. Plan

1. Panel settings and the spool of device limits, if either comes to keep state.
2. An order on what `UserFeed` serves, once the code no longer starts a core from users that
   are older than the cached ones (section 5, users).
