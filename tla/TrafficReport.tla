---------------------------- MODULE TrafficReport ----------------------------
(***************************************************************************)
(* How the traffic the native core counts reaches the panels.              *)
(*                                                                         *)
(* After each reporting tick the agent loads the records it still owes     *)
(* from the spool file, drains the core, saves both together, reports the  *)
(* records of each node to the node's panel and saves those of the nodes   *)
(* that failed.  The agent, the core, the disk, the control socket and the *)
(* panels may fail between any two of these steps.                         *)
(*                                                                         *)
(* Records have no identity in the program, which compares them by value.  *)
(* Here each has one, so that a record that is dropped because it equals   *)
(* another can be told from one that was delivered.                        *)
(***************************************************************************)
EXTENDS Naturals, FiniteSets

CONSTANTS
    Nodes,          \* node tags, each with a panel to report to
    Records,        \* the traffic records of one behaviour
    NodeOf,         \* NodeOf[r]: the node of r, its port suffix removed
    ValueOf,        \* ValueOf[r]: everything else r says (user, bytes, addresses)
    HasUserId,      \* records that carry a user_id
    Small,          \* records that may stay below minimum_report_bytes
    Plans,          \* the sets of inbounds the runtime plan may have
    LegacyPanel,    \* nodes whose panel has no unified report endpoint
    Faults,         \* which kinds of fault the environment may inject
    MaxFaults,      \* bound: faults injected in one behaviour
    MaxPlanChanges  \* bound: changes of the plan in one behaviour

\* refused: a panel answers with an error; unanswered: it counts a report and
\* the answer is lost; spool, trim: the file is not written before, or after,
\* the report; control: a control call fails, carried out or not; core, agent:
\* the process dies.
FaultKinds == {"refused", "unanswered", "spool", "trim", "control", "core", "agent"}

ASSUME ConstantsAssumption ==
    /\ NodeOf \in [Records -> Nodes]
    /\ HasUserId \subseteq Records
    /\ Small \subseteq Records
    /\ Plans \subseteq SUBSET Nodes
    /\ LegacyPanel \subseteq Nodes
    /\ Faults \subseteq FaultKinds
    /\ MaxFaults \in Nat
    /\ MaxPlanChanges \in Nat

VARIABLES
    fresh,      \* records the core has not counted yet
    core,       \* records in the core's memory
    spool,      \* records in the traffic.pending.json file
    records,    \* the report's local list
    drained,    \* the part of it that came from the core in this report
    inbounds,   \* inbounds of the plan
    lookup,     \* nodes whose known users include those of their records
    pc,         \* where the report is
    todo,       \* targets not handled yet
    online,     \* a target whose traffic is reported and whose online users are not
    failed,     \* nodes in batch.failures
    billed,     \* billed[r]: how often the panel counted r
    lost,       \* records that went with a process or an answer
    faults,     \* faults injected so far
    replans     \* plan changes so far

vars == <<fresh, core, spool, records, drained, inbounds, lookup, pc, todo, online,
          failed, billed, lost, faults, replans>>
planVars == <<inbounds, lookup, replans>>

-----------------------------------------------------------------------------
\* KeliCoreTrafficRecord::eq
SameRecord(r, s) == NodeOf[r] = NodeOf[s] /\ ValueOf[r] = ValueOf[s]

\* append_unique_keli_core_records: what the list does not have yet.  The core
\* counts per user and inbound, so no two records of one drain are equal.
AppendUnique(list, got) == {r \in got : \A s \in list : ~SameRecord(r, s)}

\* keli_core_record_report_target: an inbound of the plan and a user id, the
\* record's own or one that is looked up.
HasTarget(r) ==
    NodeOf[r] \in inbounds /\ (r \in HasUserId \/ NodeOf[r] \in lookup)

\* keli_core_traffic_snapshots_with_user_lookup
Snapshot(n) == {r \in records : NodeOf[r] = n /\ HasTarget(r)}

\* Mutant of FailedRecords: the records of every node but the failed ones.
FailedRecordsNegated == {r \in records : NodeOf[r] \in inbounds /\ NodeOf[r] \notin failed}

\* failed_keli_core_records
FailedRecords == {r \in records : NodeOf[r] \in inbounds /\ NodeOf[r] \in failed}

Bill(n) ==
    billed' = [r \in Records |-> IF r \in Snapshot(n) THEN billed[r] + 1 ELSE billed[r]]

Fault(k) == k \in Faults /\ faults < MaxFaults /\ faults' = faults + 1

\* The report returns, whatever the reason.
Return ==
    /\ pc' = "idle"
    /\ records' = {} /\ drained' = {} /\ todo' = {} /\ online' = {} /\ failed' = {}

-----------------------------------------------------------------------------
TypeOK ==
    /\ fresh \in SUBSET Records
    /\ core \in SUBSET Records
    /\ spool \in SUBSET Records
    /\ records \in SUBSET Records
    /\ drained \in SUBSET Records
    /\ inbounds \in SUBSET Nodes
    /\ lookup \in SUBSET Nodes
    /\ pc \in {"idle", "drain", "save", "report", "trim"}
    /\ todo \in SUBSET Nodes
    /\ online \in SUBSET Nodes
    /\ failed \in SUBSET Nodes
    /\ billed \in [Records -> Nat]
    /\ lost \in SUBSET Records
    /\ faults \in 0..MaxFaults
    /\ replans \in 0..MaxPlanChanges

Init ==
    /\ fresh = Records
    /\ core = {} /\ spool = {} /\ records = {} /\ drained = {}
    /\ inbounds \in Plans
    /\ lookup = Nodes
    /\ pc = "idle" /\ todo = {} /\ online = {} /\ failed = {}
    /\ billed = [r \in Records |-> 0]
    /\ lost = {}
    /\ faults = 0 /\ replans = 0

-----------------------------------------------------------------------------
\* The core counts traffic on its inbounds: one record per user and inbound.
CoreCounts(r) ==
    /\ r \in fresh /\ NodeOf[r] \in inbounds
    /\ \A s \in core : ~SameRecord(r, s)
    /\ fresh' = fresh \ {r}
    /\ core' = core \cup {r}
    /\ UNCHANGED <<spool, records, drained, planVars, pc, todo, online, failed, billed, lost,
                   faults>>

\* Between two reports the plan is rebuilt or reloaded: inbounds come and go,
\* users are removed.
PlanChanges ==
    /\ pc = "idle" /\ replans < MaxPlanChanges
    /\ inbounds' \in Plans
    /\ lookup' \in SUBSET Nodes
    /\ replans' = replans + 1
    /\ UNCHANGED <<fresh, core, spool, records, drained, pc, todo, online, failed, billed, lost,
                   faults>>

\* Mutant of LoadPending: the file is not read.
LoadNothing ==
    /\ pc = "idle" /\ inbounds # {}
    /\ records' = {}
    /\ pc' = "drain"
    /\ UNCHANGED <<fresh, core, spool, drained, planVars, todo, online, failed, billed, lost,
                   faults>>

\* load_pending_keli_core_traffic; without a core plan there is no report.
LoadPending ==
    /\ pc = "idle" /\ inbounds # {}
    /\ records' = spool
    /\ pc' = "drain"
    /\ UNCHANGED <<fresh, core, spool, drained, planVars, todo, online, failed, billed, lost,
                   faults>>

\* The core hands out its records; those below minimum_report_bytes stay.
\* With nothing to report the report returns.
DrainTraffic ==
    /\ pc = "drain"
    /\ \E got \in SUBSET core :
         /\ core \ got \subseteq Small
         /\ core' = core \ got
         /\ drained' = AppendUnique(records, got)
    /\ records' = records \cup drained'
    /\ pc' = IF records' = {} THEN "idle" ELSE "save"
    /\ UNCHANGED <<fresh, spool, planVars, todo, online, failed, billed, lost,
                   faults>>

\* The drain call fails; what the core had handed out goes with the answer.
DrainFails ==
    /\ pc = "drain" /\ Fault("control")
    /\ \E got \in SUBSET core : core' = core \ got /\ lost' = lost \cup got
    /\ Return
    /\ UNCHANGED <<fresh, spool, planVars, billed>>

\* Mutant of SavePending: the file gets the drained records only.
SavePendingDrainedOnly ==
    /\ pc = "save"
    /\ spool' = drained
    /\ pc' = "report"
    /\ todo' = Nodes
    /\ UNCHANGED <<fresh, core, records, drained, planVars, online, failed, billed, lost,
                   faults>>

\* save_pending_or_requeue_drained: the file is replaced ...
SavePending ==
    /\ pc = "save"
    /\ spool' = records
    /\ pc' = "report"
    /\ todo' = Nodes
    /\ UNCHANGED <<fresh, core, records, drained, planVars, online, failed, billed, lost,
                   faults>>

\* ... or stays as it was: the drained records go back to the core.
RequeueDrained ==
    /\ pc = "save" /\ Fault("spool")
    /\ core' = core \cup drained
    /\ Return
    /\ UNCHANGED <<fresh, spool, planVars, billed, lost>>

\* The core does not take them back and nobody is told.
RequeueFails ==
    /\ pc = "save" /\ "control" \in Faults /\ Fault("spool")
    /\ lost' = lost \cup drained
    /\ Return
    /\ UNCHANGED <<fresh, core, spool, planVars, billed>>

-----------------------------------------------------------------------------
(* report_activity_batch_to_panel, one target at a time.                   *)

\* The next target is n, and its snapshot is or is not empty.
Target(n, empty) ==
    /\ pc = "report" /\ online = {} /\ n \in todo
    /\ (Snapshot(n) = {}) = empty
    /\ todo' = todo \ {n}
    /\ UNCHANGED <<fresh, core, spool, records, drained, planVars, pc, lost>>

SkipTarget(n) ==
    /\ Target(n, TRUE)
    /\ UNCHANGED <<online, failed, billed, faults>>

\* The unified report is accepted.
ReportSnapshot(n) ==
    /\ n \notin LegacyPanel
    /\ Target(n, FALSE)
    /\ Bill(n)
    /\ UNCHANGED <<online, failed, faults>>

\* An old panel has no unified endpoint: the traffic is reported by itself,
\* and the online users, if there are any, in another request.
ReportUserTraffic(n) ==
    /\ n \in LegacyPanel
    /\ Target(n, FALSE)
    /\ Bill(n)
    /\ online' \in {{}, {n}}
    /\ UNCHANGED <<failed, faults>>

\* Either request fails before the panel counts anything, or after.
ReportFails(n) ==
    /\ Target(n, FALSE)
    /\ \/ Fault("refused") /\ UNCHANGED billed
       \/ Fault("unanswered") /\ Bill(n)
    /\ failed' = failed \cup {n}
    /\ UNCHANGED online

\* The online users of an old panel: an error fails the whole node.
ReportOnlineUsers(n) ==
    /\ pc = "report" /\ n \in online
    /\ online' = {}
    /\ \/ UNCHANGED <<failed, faults>>
       \/ Fault("refused") /\ failed' = failed \cup {n}
    /\ UNCHANGED <<fresh, core, spool, records, drained, planVars, pc, todo, billed, lost>>

\* The device-limit commit that follows changes nothing here.
BatchDone ==
    /\ pc = "report" /\ todo = {} /\ online = {}
    /\ pc' = "trim"
    /\ UNCHANGED <<fresh, core, spool, records, drained, planVars, todo, online, failed,
                   billed, lost, faults>>

\* save_pending_keli_core_traffic: the records of the failed nodes stay, and
\* an empty file is removed.
TrimPending ==
    /\ pc = "trim"
    /\ spool' = FailedRecords
    /\ Return
    /\ UNCHANGED <<fresh, core, planVars, billed, lost, faults>>

TrimFails ==
    /\ pc = "trim" /\ Fault("trim")
    /\ Return
    /\ UNCHANGED <<fresh, core, spool, planVars, billed, lost>>

-----------------------------------------------------------------------------
(* Crashes: the memory of a process is lost, the spool file is not.        *)

CoreCrash ==
    /\ Fault("core")
    /\ core' = {} /\ lost' = lost \cup core
    /\ UNCHANGED <<fresh, spool, records, drained, planVars, pc, todo, online, failed, billed>>

\* The core runs inside the agent's process and ends with it.  Until the file
\* is saved, what was drained is in memory only.
AgentCrash ==
    /\ Fault("agent")
    /\ core' = {}
    /\ lost' = lost \cup core \cup (IF pc = "save" THEN drained ELSE {})
    /\ Return
    /\ UNCHANGED <<fresh, spool, planVars, billed>>

-----------------------------------------------------------------------------
ReportStep ==
    \/ LoadPending \/ DrainTraffic \/ SavePending \/ BatchDone \/ TrimPending
    \/ \E n \in Nodes : \/ SkipTarget(n) \/ ReportSnapshot(n)
                        \/ ReportUserTraffic(n) \/ ReportOnlineUsers(n)

FaultStep ==
    \/ DrainFails \/ RequeueDrained \/ RequeueFails \/ TrimFails
    \/ CoreCrash \/ AgentCrash
    \/ \E n \in Nodes : ReportFails(n)

Next == ReportStep \/ FaultStep \/ PlanChanges \/ \E r \in Records : CoreCounts(r)

Spec == Init /\ [][Next]_vars

\* The runtime loop reports on every reporting tick.
FairSpec == Spec /\ WF_vars(ReportStep)

-----------------------------------------------------------------------------
(* Properties.                                                             *)

\* The record is where a later report will find it.
Held(r) == r \in fresh \cup core \cup spool \/ (pc = "save" /\ r \in drained)

\* No traffic is lost: a record that no process took with it is held or was
\* counted by the panel, across failed reports, failed saves and restarts.
\* docs/NATIVE_CORE_GRAY_RELEASE.md, "Traffic report failure must not lose data"
\* (report_keli_core_activity_to_panel_with_user_lookup).
NothingLost == \A r \in Records : Held(r) \/ billed[r] > 0 \/ r \in lost

\* A record is given up for one of four reasons only: the panel counted it, it
\* went with a process, the plan has no target for it, or an equal one is
\* still owed (failed_keli_core_records, append_unique_keli_core_records).
DroppedForAReason ==
    [][\A r \in Records : Held(r) /\ ~Held(r)' =>
         \/ billed[r] > 0
         \/ r \in lost'
         \/ ~HasTarget(r)
         \/ \E s \in records \ {r} : SameRecord(r, s)]_vars

\* The panel counts nothing twice, unless a fault came between (append_unique,
\* failed_keli_core_records): each fault costs at most one more count.
RecountedOnlyAfterFault == \A r \in Records : billed[r] <= 1 + faults

\* What is owed is paid: once the faults and the plan changes are over, every
\* record that was not lost is counted (the retry of the spool file).
EventuallyBilled == \A r \in Records : (r \in core \cup spool) ~> (billed[r] > 0 \/ r \in lost)

-----------------------------------------------------------------------------
(* Inductive invariants.                                                   *)

\* What the report has in hand is in the file as well, but for what it has
\* just drained.
InHand ==
    /\ pc = "idle" => records = {} /\ drained = {}
    /\ pc = "drain" => records = spool /\ drained = {}
    /\ pc = "save" => records = spool \cup drained /\ spool \cap drained = {}
    /\ pc \in {"report", "trim"} => records = spool
    /\ pc = "trim" => todo = {} /\ online = {}
    /\ pc \in {"idle", "drain", "save"} => todo = {} /\ online = {} /\ failed = {}

\* A record is at one place of its way only.
OnePlace == fresh \cap core = {} /\ (fresh \cup core) \cap (spool \cup records) = {}

\* Of the records in hand, those of a target that was handled were counted or
\* belong to a node that failed.
HandledOrOwed ==
    pc \in {"report", "trim"} =>
      \A r \in records : NodeOf[r] \in todo \cup failed \/ billed[r] > 0

\* The same where records may lack a target: those that have one.
TargetsHandled ==
    pc \in {"report", "trim"} =>
      \A r \in records : HasTarget(r) => NodeOf[r] \in todo \cup failed \/ billed[r] > 0

\* A record that will be reported again was counted no more often than there
\* were faults; one whose report is under way, once more.
CountsFollowFaults ==
    /\ \A r \in Records : billed[r] <= 1 + faults
    /\ \A r \in fresh \cup core : billed[r] <= faults
    /\ pc \in {"idle", "drain", "save"} =>
         \A r \in spool \cup records : billed[r] <= faults
    /\ pc \in {"report", "trim"} =>
         \A r \in records : NodeOf[r] \in todo \cup failed => billed[r] <= faults
    /\ online \cap (todo \cup failed) = {}
    /\ failed \cap todo = {}

\* The instances in which nothing may be given up: no two records are equal,
\* all carry a user id, and no plan loses an inbound.
AllAccountable ==
    /\ \A r, s \in Records : SameRecord(r, s) => r = s
    /\ HasUserId = Records
    /\ Plans \subseteq {Nodes}

==============================================================================
