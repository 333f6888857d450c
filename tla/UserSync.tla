------------------------------ MODULE UserSync ------------------------------
(***************************************************************************)
(* How the users the panel publishes reach the native core.                *)
(*                                                                         *)
(* The panel keeps, per node, a numbered history of user sets.  The agent  *)
(* keeps a cached set with its revision in memory (user_sync) and on disk, *)
(* a runtime plan that holds a set of its own, and the core config file    *)
(* rendered from that plan.  The core holds the users it serves and, once  *)
(* it was given one, a revision for each inbound.  One iteration of the    *)
(* runtime loop refreshes the cache node by node, tries to hand the        *)
(* change to the core as a delta, otherwise rebuilds the plan, then writes *)
(* and applies the config and sends a full snapshot as the new baseline.   *)
(* The core may die, calls may fail and the agent may be restarted between *)
(* any two of these steps.                                                 *)
(***************************************************************************)
EXTENDS Integers, FiniteSets

CONSTANTS
    Nodes,           \* node tags of the plan
    Uuid,            \* user uuids
    Attr,            \* what a user carries: id, speed limit, device limit
    Absent,          \* "no such user"
    Keep,            \* "this uuid is not part of the delta"
    PanelUsers,      \* the user sets the panel may publish
    LegacyPanel,     \* nodes whose panel answers user_delta with 404 or 405
    UsersRequired,   \* nodes whose protocol has no inbound without users
    Unbindable,      \* nodes whose port another program may be holding
    ContinueOnError, \* machine.continue_on_error
    ReportToPanel,   \* panel_report_interval = 1 (a machine panel exists)
    Faults,          \* which kinds of fault the environment may inject
    MaxRev,          \* bound: revisions a panel publishes for one node
    MaxVer,          \* bound: node configurations the panel publishes
    MaxFaults        \* bound: faults injected in one behaviour

Users == [Uuid -> Attr \cup {Absent}]
NoUsers == [u \in Uuid |-> Absent]
Edit == [Uuid -> Attr \cup {Absent, Keep}]
NoEdit == [u \in Uuid |-> Keep]

\* A core inbound that was never given a revision ("current <missing>").
NoRev == -1

\* panel: a request fails; disk: a state file is not saved; control: a control
\* call fails, carried out or not; core, agent: the process dies; reload: an
\* operator forces a reload.
FaultKinds == {"panel", "disk", "control", "core", "agent", "reload"}

ASSUME ConstantsAssumption ==
    /\ Absent \notin Attr
    /\ Keep \notin Attr \cup {Absent}
    /\ PanelUsers \subseteq Users
    /\ LegacyPanel \subseteq Nodes
    /\ UsersRequired \subseteq Nodes
    /\ Unbindable \subseteq Nodes
    /\ ContinueOnError \in BOOLEAN
    /\ ReportToPanel \in BOOLEAN
    /\ Faults \subseteq FaultKinds
    /\ MaxRev \in Nat \ {0}
    /\ MaxVer \in Nat \ {0}
    /\ MaxFaults \in Nat

VARIABLES
    hist,        \* hist[n][r]: the users the panel published for n at revision r
    panelRev,    \* panelRev[n]: the panel's latest revision for n
    cfgVer,      \* version of the node configuration on the panel
    loaded,      \* nodes with an entry in user_sync
    cache,       \* cache[n]: UserSyncState of the entry (revision, users)
    legacy,      \* nodes whose entry has delta_supported = false
    change,      \* change[n]: last_change of the entry
    disk,        \* disk[n]: the saved UserSyncState of n
    planVer,     \* configuration version of the runtime plan
    planUsers,   \* users of each node in the runtime plan
    file,        \* the core config file
    coreUp,      \* the core process runs
    coreVer,     \* configuration version the core runs with
    coreIn,      \* inbounds the core has
    coreUsers,   \* users the core serves on each inbound
    coreRev,     \* user revision of each inbound, or NoRev
    pc,          \* where the runtime loop is
    kind,        \* "tick", or "event" for a realtime user refresh
    todo,        \* nodes the current phase has not handled yet
    tags,        \* keys of users_by_node_tag
    outcome,     \* RuntimeUserDeltaApplyOutcome of this tick, or "none"
    baseline,    \* startup_full_snapshot_tags not sent yet
    faults       \* faults injected so far

panelVars == <<hist, panelRev, cfgVer>>
cacheVars == <<loaded, cache, legacy, change, disk>>
planVars == <<planVer, planUsers>>
coreVars == <<coreUp, coreVer, coreIn, coreUsers, coreRev>>
tickVars == <<kind, todo, tags, outcome, baseline>>
vars == <<panelVars, cacheVars, planVars, file, coreVars, pc, tickVars, faults>>

-----------------------------------------------------------------------------
(* User sets and edits (user.rs).                                          *)

\* apply_user_delta: deleted uuids go, upserted ones are replaced or added,
\* the others stay.  Deleting an unknown uuid changes nothing.
Patch(old, edit) ==
    [u \in Uuid |-> IF edit[u] = Keep THEN old[u] ELSE edit[u]]

\* compare_user_list and compare_incremental_delta: the deleted, added and
\* updated users as one edit.
UserDiff(old, new) ==
    [u \in Uuid |-> IF old[u] = new[u] THEN Keep ELSE new[u]]

Unloaded == [rev |-> 0, users |-> NoUsers]
SyncState == [rev : 0..MaxRev, users : Users]

NoChange == [kind |-> "none", base |-> 0, rev |-> 0, diff |-> NoEdit]
Change == [kind : {"none", "delta", "full"}, base : 0..MaxRev,
           rev : 0..MaxRev, diff : Edit]

\* runtime_user_delta_change
RuntimeUserDeltaChange(full, base, rev, diff) ==
    IF diff = NoEdit /\ base = rev
      THEN NoChange
      ELSE [kind |-> IF full THEN "full" ELSE "delta",
            base |-> base, rev |-> rev, diff |-> diff]

-----------------------------------------------------------------------------
(* The plan and the config file (runtime.rs, core.rs).                     *)

\* split_core_plans_for_nodes_with_kind: a node whose protocol requires users
\* waits for them; the plan has no core when no node is left.
PlanInbounds == {n \in Nodes : n \in UsersRequired => planUsers[n] # NoUsers}

HasCorePlan == PlanInbounds # {}

\* latest_users_by_node_tag_for_core_plan: cached users where there are any,
\* else the ones the plan already has; nodes without an inbound get none.
LatestUsers(n) ==
    IF n \in PlanInbounds /\ n \in loaded /\ cache[n].users # NoUsers
      THEN cache[n].users
      ELSE planUsers[n]

\* What write_core_config renders from the plan without the skipped inbounds.
Rendered(skipped) ==
    [ver |-> planVer,
     inb |-> PlanInbounds \ skipped,
     users |-> [n \in Nodes |-> IF n \in PlanInbounds \ skipped
                                  THEN planUsers[n] ELSE NoUsers]]

NoFile == [ver |-> 0, inb |-> {}, users |-> [n \in Nodes |-> NoUsers]]
CoreFile == [ver : 0..MaxVer, inb : SUBSET Nodes, users : [Nodes -> Users]]

\* The route fingerprint beside the config covers everything but the users.
RouteConfigChanged(new) ==
    file # NoFile /\ (file.ver # new.ver \/ file.inb # new.inb)

-----------------------------------------------------------------------------
TypeOK ==
    /\ hist \in [Nodes -> [1..MaxRev -> Users]]
    /\ panelRev \in [Nodes -> 1..MaxRev]
    /\ cfgVer \in 1..MaxVer
    /\ loaded \in SUBSET Nodes
    /\ cache \in [Nodes -> SyncState]
    /\ legacy \in SUBSET Nodes
    /\ change \in [Nodes -> Change]
    /\ disk \in [Nodes -> SyncState]
    /\ planVer \in 1..MaxVer
    /\ planUsers \in [Nodes -> Users]
    /\ file \in CoreFile
    /\ coreUp \in BOOLEAN
    /\ coreVer \in 0..MaxVer
    /\ coreIn \in SUBSET Nodes
    /\ coreUsers \in [Nodes -> Users]
    /\ coreRev \in [Nodes -> {NoRev} \cup 0..MaxRev]
    /\ pc \in {"down", "top", "idle", "refresh", "native", "rebuild", "deferred",
               "ensure", "apply", "baseline"}
    /\ kind \in {"tick", "event"}
    /\ todo \in SUBSET Nodes
    /\ tags \in SUBSET Nodes
    /\ outcome \in {"none", "applied", "deferred", "rebuild"}
    /\ baseline \in SUBSET Nodes
    /\ faults \in 0..MaxFaults

\* A fresh install: no state on disk, no config file, the core not started
\* and the agent about to bootstrap.  A node may not have users yet.
Init ==
    /\ hist \in [Nodes -> {[r \in 1..MaxRev |-> us] : us \in PanelUsers \cup {NoUsers}}]
    /\ panelRev = [n \in Nodes |-> 1]
    /\ cfgVer = 1
    /\ loaded = {}
    /\ cache = [n \in Nodes |-> Unloaded]
    /\ legacy = {}
    /\ change = [n \in Nodes |-> NoChange]
    /\ disk = [n \in Nodes |-> Unloaded]
    /\ planVer = 1
    /\ planUsers = [n \in Nodes |-> NoUsers]
    /\ file = NoFile
    /\ coreUp = FALSE
    /\ coreVer = 0
    /\ coreIn = {}
    /\ coreUsers = [n \in Nodes |-> NoUsers]
    /\ coreRev = [n \in Nodes |-> NoRev]
    /\ pc = "down"
    /\ kind = "tick"
    /\ todo = {}
    /\ tags = {}
    /\ outcome = "none"
    /\ baseline = {}
    /\ faults = 0

-----------------------------------------------------------------------------
(* Shared effects.                                                         *)

\* A fault of the given kind happens in this step.
Fault(k) == k \in Faults /\ faults < MaxFaults /\ faults' = faults + 1

\* The core process is gone, with everything it held in memory.
CoreGone ==
    /\ coreUp' = FALSE
    /\ coreVer' = 0
    /\ coreIn' = {}
    /\ coreUsers' = [n \in Nodes |-> NoUsers]
    /\ coreRev' = [n \in Nodes |-> NoRev]

\* The core serves exactly the config c; its inbounds have no revision.
CoreRuns(c) ==
    /\ coreUp' = TRUE
    /\ coreVer' = c.ver
    /\ coreIn' = c.inb
    /\ coreUsers' = c.users
    /\ coreRev' = [n \in Nodes |-> NoRev]

\* The core serves us on inbound n as revision r.
CoreTakes(n, us, r) ==
    /\ coreUsers' = [coreUsers EXCEPT ![n] = us]
    /\ coreRev' = [coreRev EXCEPT ![n] = r]
    /\ UNCHANGED <<coreUp, coreVer, coreIn>>

\* The memory of a runtime loop that starts over: no entry, a plan built
\* without users from the panel's current configuration.
FreshLoop ==
    /\ loaded' = {}
    /\ cache' = [n \in Nodes |-> Unloaded]
    /\ legacy' = {}
    /\ change' = [n \in Nodes |-> NoChange]
    /\ planVer' = cfgVer
    /\ planUsers' = [n \in Nodes |-> NoUsers]
    /\ kind' = "tick"
    /\ todo' = {}
    /\ tags' = {}
    /\ outcome' = "none"
    /\ baseline' = {}

\* The agent process ends: the embedded core ends with it.
AgentEnds == pc' = "down" /\ CoreGone /\ FreshLoop

-----------------------------------------------------------------------------
(* The panel.                                                              *)

\* The panel publishes another user set (or the same one) for node n.
PanelPublish(n) ==
    /\ panelRev[n] < MaxRev
    /\ \E us \in PanelUsers :
         hist' = [hist EXCEPT ![n][panelRev[n] + 1] = us]
    /\ panelRev' = [panelRev EXCEPT ![n] = @ + 1]
    /\ UNCHANGED <<cfgVer, cacheVars, planVars, file, coreVars, pc, tickVars, faults>>

\* The panel publishes another node configuration.
PanelReconfigure ==
    /\ cfgVer < MaxVer
    /\ cfgVer' = cfgVer + 1
    /\ UNCHANGED <<hist, panelRev, cacheVars, planVars, file, coreVars, pc,
                   tickVars, faults>>

\* An incremental user_delta answer: every uuid that differs between the base
\* revision and the latest one, and any others the panel repeats.
PanelEdit(n, base, extra) ==
    LET then == hist[n][base]
        now == hist[n][panelRev[n]]
    IN  [u \in Uuid |-> IF then[u] # now[u] \/ u \in extra THEN now[u] ELSE Keep]

-----------------------------------------------------------------------------
(* Bootstrap, reload, crashes.                                             *)

\* run_agent_once: load the config, build the plan from the panel's node
\* configuration, without users, and start the loop.
Boot ==
    /\ pc = "down"
    /\ pc' = "top"
    /\ FreshLoop
    /\ UNCHANGED <<panelVars, disk, file, coreVars, faults>>

\* The loop exits with the signal Reload (status response, or realtime event)
\* and run_agent starts it over; the supervisor and the core stay.
RestartLoop ==
    /\ pc = "idle"
    /\ pc' = "top"
    /\ FreshLoop
    /\ UNCHANGED <<panelVars, disk, file, coreVars>>

\* The panel asks for a reload because it changed the configuration, ...
Reload == planVer # cfgVer /\ RestartLoop /\ UNCHANGED faults

\* ... or for no reason the agent can see.
ForcedReload == Fault("reload") /\ RestartLoop

CoreCrash ==
    /\ Fault("core")
    /\ coreUp
    /\ CoreGone
    /\ UNCHANGED <<panelVars, cacheVars, planVars, file, pc, tickVars>>

\* The agent is killed, or an error leaves run_agent, at any point.
AgentCrash ==
    /\ Fault("agent")
    /\ pc # "down"
    /\ AgentEnds
    /\ UNCHANGED <<panelVars, disk, file>>

-----------------------------------------------------------------------------
(* Refreshing the cached users (load_users_by_node_tag_from_panel_...).    *)

\* A tick starts at the top of the loop or when the timer fires; a realtime
\* user-sync event is taken only while the loop sleeps.
StartTick(k) ==
    /\ pc = "idle" \/ (pc = "top" /\ k = "tick")
    /\ pc' = "refresh"
    /\ kind' = k
    /\ todo' = Nodes
    /\ tags' = {}
    /\ outcome' = "none"
    /\ baseline' = {}
    /\ UNCHANGED <<panelVars, cacheVars, planVars, file, coreVars, faults>>

\* The entry of n, loaded from disk on first use.
Entry(n) == IF n \in loaded THEN cache[n] ELSE disk[n]

\* Mutant of StoreEntry: the state is saved first, and a failed save returns
\* before the entry takes it.
StoreEntrySavedFirst(n, next, c) ==
    /\ loaded' = loaded \cup {n}
    /\ change' = [change EXCEPT ![n] = c]
    /\ \/ /\ disk' = IF c = NoChange THEN disk ELSE [disk EXCEPT ![n] = next]
          /\ cache' = [cache EXCEPT ![n] = next]
          /\ UNCHANGED faults
       \/ /\ c # NoChange /\ Fault("disk")
          /\ cache' = [cache EXCEPT ![n] = Entry(n)]
          /\ UNCHANGED disk
    /\ tags' = IF c # NoChange \/ (next.users # NoUsers /\ planUsers[n] = NoUsers)
                 THEN tags \cup {n} ELSE tags
    /\ todo' = todo \ {n}
    /\ UNCHANGED <<panelVars, planVars, file, coreVars, pc, kind, outcome, baseline>>

\* Mutant of StoreEntry: a plan that lacks the cached users does not count.
StoreEntryOnlyChanges(n, next, c) ==
    /\ loaded' = loaded \cup {n}
    /\ cache' = [cache EXCEPT ![n] = next]
    /\ change' = [change EXCEPT ![n] = c]
    /\ \/ /\ disk' = IF c = NoChange THEN disk ELSE [disk EXCEPT ![n] = next]
          /\ UNCHANGED faults
       \/ c # NoChange /\ Fault("disk") /\ UNCHANGED disk
    /\ tags' = IF c # NoChange THEN tags \cup {n} ELSE tags
    /\ todo' = todo \ {n}
    /\ UNCHANGED <<panelVars, planVars, file, coreVars, pc, kind, outcome, baseline>>

\* The entry of n becomes next with last_change c.  It is saved when there is
\* a change; a failed save is ignored.  n enters users_by_node_tag when it
\* changed, or when the plan still lacks the users the cache has.
StoreEntry(n, next, c) ==
    /\ loaded' = loaded \cup {n}
    /\ cache' = [cache EXCEPT ![n] = next]
    /\ change' = [change EXCEPT ![n] = c]
    /\ \/ /\ disk' = IF c = NoChange THEN disk ELSE [disk EXCEPT ![n] = next]
          /\ UNCHANGED faults
       \/ c # NoChange /\ Fault("disk") /\ UNCHANGED disk
    /\ tags' = IF c # NoChange \/ (next.users # NoUsers /\ planUsers[n] = NoUsers)
                 THEN tags \cup {n} ELSE tags
    /\ todo' = todo \ {n}
    /\ UNCHANGED <<panelVars, planVars, file, coreVars, pc, kind, outcome, baseline>>

\* user_delta answers with a full set: an empty one leaves the users alone.
RefreshFull(n) ==
    /\ pc = "refresh" /\ n \in todo /\ n \notin LegacyPanel
    /\ LET old == Entry(n)
           now == hist[n][panelRev[n]]
           next == [rev |-> panelRev[n],
                    users |-> IF now = NoUsers THEN old.users ELSE now]
       IN  StoreEntry(n, next,
             RuntimeUserDeltaChange(TRUE, old.rev, next.rev,
                                    UserDiff(old.users, next.users)))
    /\ UNCHANGED legacy

\* user_delta answers with an increment on the entry's revision.  A body that
\* only moves the revision is a change only for a plan with a native core.
RefreshDelta(n) ==
    /\ pc = "refresh" /\ n \in todo /\ n \notin LegacyPanel
    /\ LET old == Entry(n) IN
       /\ old.rev > 0
       /\ \E extra \in SUBSET Uuid :
            LET edit == PanelEdit(n, old.rev, extra)
                next == [rev |-> panelRev[n], users |-> Patch(old.users, edit)]
                revisionOnly == edit = NoEdit /\ old.users # NoUsers
            IN  StoreEntry(n, next,
                  IF revisionOnly /\ ~HasCorePlan
                    THEN NoChange
                    ELSE RuntimeUserDeltaChange(FALSE, old.rev, next.rev,
                                                UserDiff(old.users, next.users)))
    /\ UNCHANGED legacy

\* user_delta is not there: the full list is used, now and until the next
\* reload.  The list carries no revision, and an empty one changes nothing.
RefreshList(n) ==
    /\ pc = "refresh" /\ n \in todo /\ n \in LegacyPanel
    /\ legacy' = legacy \cup {n}
    /\ LET old == Entry(n)
           now == hist[n][panelRev[n]]
           next == [old EXCEPT !.users = IF now = NoUsers THEN @ ELSE now]
       IN  StoreEntry(n, next,
             RuntimeUserDeltaChange(TRUE, old.rev, old.rev,
                                    UserDiff(old.users, next.users)))

\* Mutant of RefreshFails: the node is skipped whatever the settings say.
RefreshFailsAlwaysSkips(n) ==
    /\ pc = "refresh" /\ n \in todo
    /\ Fault("panel")
    /\ loaded' = loaded \cup {n}
    /\ cache' = [cache EXCEPT ![n] = Entry(n)]
    /\ todo' = todo \ {n}
    /\ UNCHANGED <<panelVars, legacy, change, disk, planVars, file, coreVars, pc,
                   kind, tags, outcome, baseline>>

\* A request fails.  continue_on_error skips the node, whose entry (with the
\* last_change it had) stays; otherwise the error ends the agent.
RefreshFails(n) ==
    /\ pc = "refresh" /\ n \in todo
    /\ Fault("panel")
    /\ \/ /\ ContinueOnError
          /\ loaded' = loaded \cup {n}
          /\ cache' = [cache EXCEPT ![n] = Entry(n)]
          /\ legacy' \in {legacy, legacy \cup ({n} \cap LegacyPanel)}
          /\ todo' = todo \ {n}
          /\ UNCHANGED <<change, disk, planVars, coreVars, pc, kind, tags, outcome, baseline>>
       \/ /\ ~ContinueOnError
          /\ AgentEnds
          /\ UNCHANGED disk
    /\ UNCHANGED <<panelVars, file>>

-----------------------------------------------------------------------------
(* run_tick: handing the change to the core.                               *)

\* After an event the loop ticks at once; after a tick it sleeps.
LoopTop == IF kind = "event" THEN "top" ELSE "idle"

\* Some node changed: deltas are tried when the plan has a core, the core runs
\* and every change is incremental; else the plan is rebuilt.  Nothing to do
\* ends a realtime refresh, while a tick goes on with the plan as it is.
RefreshDone ==
    /\ pc = "refresh" /\ todo = {}
    /\ IF tags = {}
         THEN /\ pc' = IF kind = "event" THEN LoopTop ELSE "ensure"
              /\ UNCHANGED todo
         ELSE IF HasCorePlan /\ coreUp /\ \A n \in tags : change[n].kind = "delta"
           THEN pc' = "native" /\ todo' = tags
           ELSE pc' = "rebuild" /\ UNCHANGED todo
    /\ UNCHANGED <<panelVars, cacheVars, planVars, file, coreVars, kind, tags,
                   outcome, baseline, faults>>

\* Mutant of CoreAppliesDelta: the increment is taken on any base.
CoreAppliesDeltaOnAnyBase(n) ==
    /\ coreUp /\ n \in coreIn
    /\ CoreTakes(n, Patch(coreUsers[n], change[n].diff), change[n].rev)

\* Mutant of CoreAppliesDelta: the snapshot after a mismatch is sent under the
\* revision of the delta's base.
CoreAppliesDeltaUnderBase(n) ==
    /\ coreUp /\ n \in coreIn
    /\ IF coreRev[n] = change[n].base
         THEN CoreTakes(n, Patch(coreUsers[n], change[n].diff), change[n].rev)
         ELSE CoreTakes(n, cache[n].users, change[n].base)

\* apply_user_delta on the running core: an increment when the core has the
\* base revision, else the full snapshot sent after its revision error.
CoreAppliesDelta(n) ==
    /\ coreUp /\ n \in coreIn
    /\ IF coreRev[n] = change[n].base
         THEN CoreTakes(n, Patch(coreUsers[n], change[n].diff), change[n].rev)
         ELSE CoreTakes(n, cache[n].users, cache[n].rev)

NativeDelta(n) ==
    /\ pc = "native" /\ n \in todo /\ n \in PlanInbounds
    /\ CoreAppliesDelta(n)
    /\ todo' = todo \ {n}
    /\ UNCHANGED <<panelVars, cacheVars, planVars, file, pc, kind, tags,
                   outcome, baseline, faults>>

\* The plan or the core does not have the inbound: deferred when the agent
\* continues on errors, else the plan is rebuilt.
NativeMissingInbound(n) ==
    /\ pc = "native" /\ n \in todo
    /\ n \notin PlanInbounds \/ (coreUp /\ n \notin coreIn)
    /\ pc' = IF ContinueOnError THEN "deferred" ELSE "rebuild"
    /\ UNCHANGED <<panelVars, cacheVars, planVars, file, coreVars, tickVars, faults>>

\* The call fails: the core is gone, or the answer is lost, whether or not the
\* core had carried the call out.
NativeCallFails(n) ==
    /\ pc = "native" /\ n \in todo /\ n \in PlanInbounds
    /\ \/ ~coreUp /\ UNCHANGED <<coreVars, faults>>
       \/ /\ Fault("control")
          /\ UNCHANGED coreVars \/ CoreAppliesDelta(n)
    /\ pc' = "rebuild"
    /\ UNCHANGED <<panelVars, cacheVars, planVars, file, tickVars>>

\* Applied: the changes are done with; the plan is not rebuilt.  Without a
\* panel report the tick ends here.
NativeApplied ==
    /\ pc = "native" /\ todo = {}
    /\ change' = [n \in Nodes |-> IF n \in tags THEN NoChange ELSE change[n]]
    /\ outcome' = "applied"
    /\ pc' = IF kind = "tick" /\ ReportToPanel THEN "ensure" ELSE LoopTop
    /\ UNCHANGED <<panelVars, loaded, cache, legacy, disk, planVars, file, coreVars,
                   kind, todo, tags, baseline, faults>>

\* Deferred: neither the plan nor last_change is touched; a reporting tick
\* goes on with the plan it has.
NativeDeferred ==
    /\ pc = "deferred"
    /\ outcome' = "deferred"
    /\ pc' = IF kind = "tick" /\ ReportToPanel THEN "ensure" ELSE LoopTop
    /\ UNCHANGED <<panelVars, cacheVars, planVars, file, coreVars, kind, todo, tags,
                   baseline, faults>>

\* Rebuild: the plan takes the cached users of the changed nodes and the latest
\* known ones of the other inbounds; the changed nodes get a new baseline.
Rebuild ==
    /\ pc = "rebuild"
    /\ planUsers' = [n \in Nodes |-> IF n \in tags THEN cache[n].users ELSE LatestUsers(n)]
    /\ baseline' = tags
    /\ outcome' = "rebuild"
    /\ pc' = "ensure"
    /\ UNCHANGED <<panelVars, cacheVars, planVer, file, coreVars, kind, todo, tags, faults>>

\* ensure_keli_core_rs_restart_uses_latest_users
EnsureRestartUsesLatestUsers ==
    /\ pc = "ensure"
    /\ planUsers' = IF HasCorePlan /\ ~coreUp
                      THEN [n \in Nodes |-> LatestUsers(n)] ELSE planUsers
    /\ pc' = "apply"
    /\ UNCHANGED <<panelVars, cacheVars, planVer, file, coreVars, tickVars, faults>>

-----------------------------------------------------------------------------
(* apply_runtime_plan: the config file and the core process.               *)

\* Without a core plan the running core is stopped and nothing is written.
ApplyWithoutCore ==
    /\ pc = "apply" /\ ~HasCorePlan
    /\ CoreGone
    /\ pc' = "baseline"
    /\ UNCHANGED <<panelVars, cacheVars, planVars, file, tickVars, faults>>

\* filter_unavailable_keli_core_rs_listeners: inbounds whose port is taken are
\* left out, but only while the core is down and errors do not stop the agent.
Skippable ==
    IF ContinueOnError /\ ~coreUp THEN SUBSET (PlanInbounds \cap Unbindable) ELSE {{}}

\* Every inbound was left out: no file is written and no process touched.
ApplyNothingLeft ==
    /\ pc = "apply" /\ HasCorePlan
    /\ PlanInbounds \in Skippable
    /\ pc' = "baseline"
    /\ UNCHANGED <<panelVars, cacheVars, planVars, file, coreVars, tickVars, faults>>

\* The core is down: the file is written and the core started from it.
ApplyStart ==
    /\ pc = "apply" /\ HasCorePlan /\ ~coreUp
    /\ \E skipped \in Skippable \ {PlanInbounds} :
         file' = Rendered(skipped) /\ CoreRuns(Rendered(skipped))
    /\ pc' = "baseline"
    /\ UNCHANGED <<panelVars, cacheVars, planVars, tickVars, faults>>

\* A port that is held, and was not left out, makes the start fail: the file
\* is written and the error ends the agent.
ApplyStartFails ==
    /\ pc = "apply" /\ HasCorePlan /\ ~coreUp
    /\ \E skipped \in Skippable :
         /\ (PlanInbounds \cap Unbindable) \ skipped # {}
         /\ file' = Rendered(skipped)
    /\ AgentEnds
    /\ UNCHANGED <<panelVars, disk, faults>>

\* The core runs and the file already says what the plan renders to, or the
\* users were just handed over as deltas: the core is left as it is.
ApplyKeepRunning ==
    /\ pc = "apply" /\ HasCorePlan /\ coreUp
    /\ file = Rendered({}) \/ outcome = "applied"
    /\ file' = Rendered({})
    /\ pc' = "baseline"
    /\ UNCHANGED <<panelVars, cacheVars, planVars, coreVars, tickVars, faults>>

\* The rendered config differs from the file and has to reach the core.
HotApplyNeeded ==
    /\ pc = "apply" /\ HasCorePlan /\ coreUp
    /\ file # Rendered({}) /\ outcome # "applied"

\* ApplyRoutes is accepted: the core takes the routes and keeps its users.
\* A core refuses routes for a set of inbounds other than the one it has.
HotApplyRoutes ==
    /\ HotApplyNeeded
    /\ RouteConfigChanged(Rendered({})) /\ coreIn = PlanInbounds
    /\ file' = Rendered({})
    /\ coreVer' = planVer
    /\ pc' = "baseline"
    /\ UNCHANGED <<panelVars, cacheVars, planVars, coreUp, coreIn, coreUsers, coreRev,
                   tickVars, faults>>

\* ApplyConfig is accepted, or the control call failed and the core was
\* reloaded from the file.
HotApplyConfig ==
    /\ HotApplyNeeded
    /\ file' = Rendered({}) /\ CoreRuns(Rendered({}))
    /\ pc' = "baseline"
    /\ UNCHANGED <<panelVars, cacheVars, planVars, tickVars, faults>>

\* The core answers ApplyConfig with an error, as when it cannot bind an
\* inbound it does not have yet: the error ends the agent.
HotApplyRejected ==
    /\ HotApplyNeeded
    /\ (PlanInbounds \cap Unbindable) \ coreIn # {}
    /\ file' = Rendered({})
    /\ AgentEnds
    /\ UNCHANGED <<panelVars, disk, faults>>

-----------------------------------------------------------------------------
(* try_establish_keli_core_rs_revision_baseline                            *)

BaselineSnapshot(n) ==
    /\ pc = "baseline" /\ n \in baseline
    /\ n \in PlanInbounds /\ coreUp /\ n \in coreIn
    /\ CoreTakes(n, cache[n].users, cache[n].rev)
    /\ baseline' = baseline \ {n}
    /\ UNCHANGED <<panelVars, cacheVars, planVars, file, pc, kind, todo, tags,
                   outcome, faults>>

\* A node without an inbound in the plan is passed over.
BaselineSkips(n) ==
    /\ pc = "baseline" /\ n \in baseline /\ n \notin PlanInbounds
    /\ baseline' = baseline \ {n}
    /\ UNCHANGED <<panelVars, cacheVars, planVars, file, coreVars, pc, kind, todo,
                   tags, outcome, faults>>

\* A snapshot call fails: the nodes that are left get no baseline.
BaselineFails(n) ==
    /\ pc = "baseline" /\ n \in baseline /\ n \in PlanInbounds
    /\ \/ (~coreUp \/ n \notin coreIn) /\ UNCHANGED faults
       \/ Fault("control")
    /\ baseline' = {}
    /\ UNCHANGED <<panelVars, cacheVars, planVars, file, coreVars, pc, kind, todo,
                   tags, outcome>>

\* The tick ends; what it reports to the panel is modelled elsewhere.
TickDone ==
    /\ pc = "baseline" /\ baseline = {}
    /\ pc' = LoopTop
    /\ UNCHANGED <<panelVars, cacheVars, planVars, file, coreVars, tickVars, faults>>

-----------------------------------------------------------------------------
PanelStep == PanelReconfigure \/ \E n \in Nodes : PanelPublish(n)

RefreshStep ==
    \/ \E k \in {"tick", "event"} : StartTick(k)
    \/ \E n \in Nodes : RefreshFull(n) \/ RefreshDelta(n) \/ RefreshList(n)

DeltaStep ==
    \/ RefreshDone \/ NativeApplied \/ NativeDeferred \/ Rebuild
    \/ \E n \in Nodes : NativeDelta(n) \/ NativeMissingInbound(n) \/ NativeCallFails(n)

ApplyStep ==
    \/ EnsureRestartUsesLatestUsers \/ ApplyWithoutCore \/ ApplyNothingLeft
    \/ ApplyStart \/ ApplyStartFails \/ ApplyKeepRunning \/ HotApplyRoutes
    \/ HotApplyConfig \/ HotApplyRejected \/ TickDone
    \/ \E n \in Nodes : BaselineSnapshot(n) \/ BaselineSkips(n) \/ BaselineFails(n)

\* The steps of the runtime loop's single thread.
LoopStep == Boot \/ RefreshStep \/ DeltaStep \/ ApplyStep

FaultStep == ForcedReload \/ CoreCrash \/ AgentCrash \/ \E n \in Nodes : RefreshFails(n)

Next == PanelStep \/ LoopStep \/ Reload \/ FaultStep

Spec == Init /\ [][Next]_vars

\* The loop's thread keeps running, and a reload the panel keeps asking for in
\* its status answers is not put off for ever.  Nothing is assumed of the
\* panel's changes or of the faults, which are finitely many.
FairSpec == Spec /\ WF_vars(LoopStep) /\ SF_vars(Reload)

-----------------------------------------------------------------------------
(* Properties.                                                             *)

\* Wherever a revision is kept beside a user set (the cached entry, its copy on
\* disk, an inbound of the core), the users are the ones the panel published
\* under that revision: neither a delta on the wrong base, nor a stale
\* last_change, a failed save, a lost answer or a restart ever gives a
\* revision to users it does not name (load_users_for_node,
\* try_apply_keli_core_rs_user_deltas).
RevisionNamesUsers ==
    \A n \in Nodes :
      /\ n \in loaded /\ cache[n].rev > 0 => cache[n].users = hist[n][cache[n].rev]
      /\ disk[n].rev > 0 => disk[n].users = hist[n][disk[n].rev]
      /\ coreRev[n] > 0 => coreUsers[n] = hist[n][coreRev[n]]

\* A change that is handed to the core leads from the base revision it names
\* to the users of the cached entry, whatever was skipped or failed since it
\* was recorded (runtime_user_delta_change, RuntimeUserSyncEntry).
PendingChangeIsExact ==
    \A n \in tags : pc \in {"refresh", "native"} /\ change[n].kind = "delta" =>
      /\ change[n].rev = cache[n].rev
      /\ change[n].base > 0
      /\ Patch(hist[n][change[n].base], change[n].diff) = cache[n].users

\* Why the revisions can be trusted, as one inductive invariant.  Every kept
\* revision is one the panel has published and names the users beside it; a
\* recorded delta leads from its base revision to the cached one; the nodes
\* that take part in a tick have a cached revision the core has not passed; a
\* panel without user_delta never gives out a revision, and no other gives out
\* users without one (load_users_for_node, run_tick).
Truthful(n, rev, users) ==
    /\ rev <= panelRev[n]
    /\ rev > 0 => users = hist[n][rev]

ChangeExact(n) ==
    change[n].kind = "delta" =>
      /\ change[n].base \in 1..panelRev[n]
      /\ change[n].rev = cache[n].rev
      /\ change[n].rev > 0
      /\ Patch(hist[n][change[n].base], change[n].diff) = hist[n][change[n].rev]

CoreBehind(n) ==
    /\ Truthful(n, coreRev[n], coreUsers[n])
    /\ n \in tags => coreRev[n] <= cache[n].rev
    /\ n \in LegacyPanel => coreRev[n] <= 0

NoRevNoUsers(entry) == entry.rev = 0 => entry.users = NoUsers

CacheTrue(n) ==
    /\ Truthful(n, cache[n].rev, cache[n].users)
    /\ Truthful(n, disk[n].rev, disk[n].users)
    /\ n \notin loaded => change[n] = NoChange
    /\ n \in LegacyPanel => cache[n].rev = 0 /\ disk[n].rev = 0
    /\ n \notin LegacyPanel => NoRevNoUsers(cache[n]) /\ NoRevNoUsers(disk[n])

TickSets ==
    /\ baseline \subseteq tags
    /\ pc = "refresh" => tags \cap todo = {}
    /\ pc = "native" => todo \subseteq tags /\ \A n \in tags : change[n].kind = "delta"

SyncInv ==
    /\ \A n \in Nodes : CacheTrue(n) /\ ChangeExact(n) /\ CoreBehind(n)
    /\ \A n \in Nodes : hist[n][panelRev[n]] = NoUsers => panelRev[n] = 1
    /\ TickSets

\* A running core that stays up never loses the last user of an inbound, nor
\* the inbound, while the panel always has users for it: not over a reload,
\* whose plan starts without users, nor by a config rendered from such a plan
\* (run_tick, apply_core_process).
ServedUsersKept ==
    [][\A n \in Nodes :
         coreUp /\ coreUp' /\ n \in coreIn /\ coreUsers[n] # NoUsers
           => n \in coreIn' /\ coreUsers'[n] # NoUsers]_vars

\* Why they are kept when an error ends the agent, as an inductive invariant.
\* Nobody has users for a node unless the panel has; the plan has none the cache
\* has not; and once the refresh has handled a node that the core serves, the
\* cache has users for it and the plan has them, gets them by the rebuild, or
\* is not rendered for the core (StoreEntry, Rebuild, ApplyKeepRunning).
Populated(n) == hist[n][panelRev[n]] # NoUsers

Supplied(n) == cache[n].users # NoUsers /\ (planUsers[n] # NoUsers \/ n \in tags)

NoneAhead(n) ==
    (\/ coreUsers[n] # NoUsers \/ planUsers[n] # NoUsers
     \/ cache[n].users # NoUsers \/ disk[n].users # NoUsers) => Populated(n)

PlanFromCache(n) == planUsers[n] # NoUsers => cache[n].users # NoUsers

ServedSupplied(n) ==
    coreUsers[n] # NoUsers =>
      /\ pc = "refresh" => n \in todo \/ Supplied(n)
      /\ pc \in {"native", "rebuild"} => Supplied(n)
      /\ pc \in {"ensure", "apply"} => planUsers[n] # NoUsers \/ outcome = "applied"
      /\ pc \in {"ensure", "apply", "baseline"} => cache[n].users # NoUsers

SuppliedInv ==
    /\ pc # "deferred"
    /\ \A n \in Nodes : NoneAhead(n) /\ PlanFromCache(n) /\ ServedSupplied(n)

\* The core never goes back to an older revision on an inbound it keeps serving,
\* not even when the agent was reloaded with an older state on disk or a
\* snapshot is sent after other nodes failed (NativeDelta, BaselineSnapshot).
CoreRevisionAdvances ==
    [][\A n \in Nodes : coreRev[n] >= 0 /\ coreRev'[n] >= 0
         => coreRev'[n] >= coreRev[n]]_vars

\* The agent keeps the promise of UserFeed: on every path (increments, snapshots,
\* configs rendered from a plan that may be older, restarts of either process)
\* and for panels with and without user_delta, what the core serves on a node is
\* one of the sets the panel published for it, as a whole, or nobody
\* (try_apply_keli_core_rs_user_deltas, latest_users_by_node_tag_for_core_plan).
PublishedSets(n) == {hist[n][r] : r \in 1..panelRev[n]}

Feed == INSTANCE UserFeed WITH
          Nobody <- NoUsers,
          published <- [n \in Nodes |-> PublishedSets(n)],
          running <- coreUp,
          served <- coreUsers

ImplementsFeed == Feed!Spec

\* The core serves, on every node, the panel's latest users under the panel's
\* latest configuration.  A node that requires users and has none needs no
\* inbound, and without an inbound there need be no core.
InSync ==
    LET due == {n \in Nodes : n \in UsersRequired => hist[n][panelRev[n]] # NoUsers}
    IN  /\ due # {} => coreUp /\ coreVer = cfgVer
        /\ due \subseteq coreIn
        /\ \A n \in Nodes : coreUsers[n] = hist[n][panelRev[n]]

\* Once the panel stops publishing and the faults are over, the core comes to
\* serve the panel's users and configuration and stays there (the purpose of
\* the runtime loop).
EventuallyInSync == <>[]InSync

=============================================================================
