----------------------------- MODULE GrayHealth ---------------------------
(***************************************************************************)
(* The gate of the gray release: the counters the runtime loop keeps of    *)
(* its user deltas (src/src/runner.rs), the counters of the core, and the  *)
(* verdict a status report draws from both (src/src/health.rs).            *)
(*                                                                         *)
(* The loop's counters live as long as the loop, the core's as long as the *)
(* core, and either may start again without the other.  One node stands    *)
(* for all: the counters are sums over the nodes.  Whether a revision fits *)
(* is UserSync's to say; here a core knows its revision or does not.       *)
(***************************************************************************)
EXTENDS Naturals, FiniteSets

CONSTANTS
  Signals,      \* which of AllSignals the core may raise
  Quic,         \* QUIC connections: records of a limit and those in use
  Faults,       \* which faults happen
  MaxFaults,    \* how many
  MaxStarts,    \* how often a loop starts again
  Limit         \* where counters stop, as saturating_add does

\* Counters and gauges of the core that a verdict reads, each a name for "more
\* than nothing" or "over its threshold".  Those in Gauges may go down again.
Gauges == {"tls_blocked", "auth_blocked", "fds", "connections", "relays", "pending"}
AllSignals == Gauges \cup
  {"tls_reject", "auth_reject", "dns_error", "dns_filter", "dns_block", "hy2_timeout",
   "vless_upstream", "vless_dns_block", "activity"}

ASSUME GrayAssumption ==
  /\ Signals \subseteq AllSignals
  /\ Quic \subseteq [limit : Nat, active : Nat] /\ [limit |-> 0, active |-> 0] \in Quic
  /\ MaxFaults \in Nat /\ MaxStarts \in Nat
  /\ Limit \in Nat \ {0}

VARIABLES
  own,          \* RuntimeUserDeltaMetrics of the loop
  up,           \* the core runs
  core,         \* its counters of user deltas
  signals,      \* the signals it shows
  quic,         \* its QUIC connections
  known,        \* it has a revision that deltas can be based on
  served,       \* the loop's plan has users
  pc,           \* the step of the tick
  owed,         \* this tick rebuilt the plan and owes the core a snapshot
  report,       \* the verdict in the status of this tick
  trouble,      \* history: what became of this loop's deltas
  starts, faults

coreVars == <<up, core, signals, quic, known>>
vars == <<own, coreVars, served, pc, owed, report, trouble, starts, faults>>

OwnCounters == {"success", "failed", "fallback", "baseline", "rebuild"}
CoreCounters == {"incremental", "full", "mismatch", "missing", "errors"}
NoneOwn == [c \in OwnCounters |-> 0]
NoneCore == [c \in CoreCounters |-> 0]
NoQuic == [limit |-> 0, active |-> 0]

Modes == {"degraded", "full_rebuild", "fallback_repaired", "native_delta", "unknown"}
Gates == {"allow_widen", "hold_monitor", "hold_rollback", "hold"}
ReasonNames ==
  {"metrics_unavailable", "native_apply_failed", "core_apply_error", "full_rebuild",
   "full_snapshot_fallback", "revision_mismatch", "current_revision_missing",
   "quic_resource_high", "tls_handshake_backoff", "tcp_auth_backoff", "dns_resolve_error",
   "dns_private_ip_block", "hy2_timeout", "vless_upstream_error", "vless_dns_private_block"}

---------------------------------------------------------------------------
(* The verdict.  `m' is what a tick reads: own, the core's counters, its    *)
(* signals and connections, and whether the core answered.                 *)

\* What was not read counts as zero.
Metrics(answered) ==
  [own |-> own, answered |-> answered,
   core |-> IF answered THEN core ELSE NoneCore,
   signals |-> IF answered THEN signals ELSE {},
   quic |-> IF answered THEN quic ELSE NoQuic]

Monus(a, b) == IF a > b THEN a - b ELSE 0

\* Snapshots that set the revision at a start are no fallback.
RuntimeSnapshots(m) == Monus(m.core.full, m.own.baseline)
CoreSuccesses(m) == m.core.incremental + RuntimeSnapshots(m)

\* A percentage, rounded down.
Utilization(q) == IF q.limit = 0 THEN 0 ELSE (q.active * 100) \div q.limit

QuicHigh(m) == Utilization(m.quic) >= 90
AbusePressure(m) == m.signals \cap {"tls_reject", "tls_blocked", "auth_reject", "auth_blocked"} # {}
DnsPressure(m) == "dns_error" \in m.signals
ConnectionPressure(m) == m.signals \cap {"hy2_timeout", "vless_upstream"} # {}

\* More successes than failures: the failures are over.
NativeRecovered(m) == m.own.failed > 0 /\ m.own.success > m.own.failed
CoreRecovered(m) == m.core.errors > 0 /\ CoreSuccesses(m) > m.core.errors

\* A mutant: only a snapshot makes up for a rebuild.
RebuildNeedsSnapshot(m) == m.own.rebuild > 0 /\ RuntimeSnapshots(m) > 0

RebuildRecovered(m) == m.own.rebuild > 0 /\ (m.own.success > 0 \/ CoreSuccesses(m) > 0)

\* A mutant: a rebuild is forgotten once deltas are applied again.
RecoveredForgets(m) == NativeRecovered(m) \/ CoreRecovered(m)

ErrorRecovered(m) == NativeRecovered(m) \/ CoreRecovered(m) \/ RebuildRecovered(m)

\* Without a single number there is no verdict.
Silent(m) ==
  /\ m.own = NoneOwn /\ m.core = NoneCore
  /\ m.signals = {} /\ m.quic.limit = 0
  /\ m.answered

BusyReasons(m) == m.signals \cap {"fds", "connections", "relays", "pending"}

Shown(m) ==
  [metrics_unavailable |-> ~m.answered,
   native_apply_failed |-> m.own.failed > 0,
   core_apply_error |-> m.core.errors > 0,
   full_rebuild |-> m.own.rebuild > 0,
   full_snapshot_fallback |-> m.own.fallback > 0,
   revision_mismatch |-> m.core.mismatch > 0,
   current_revision_missing |-> m.core.missing > 0,
   quic_resource_high |-> QuicHigh(m),
   tls_handshake_backoff |-> m.signals \cap {"tls_reject", "tls_blocked"} # {},
   tcp_auth_backoff |-> m.signals \cap {"auth_reject", "auth_blocked"} # {},
   dns_resolve_error |-> "dns_error" \in m.signals,
   dns_private_ip_block |-> "dns_block" \in m.signals,
   hy2_timeout |-> "hy2_timeout" \in m.signals,
   vless_upstream_error |-> "vless_upstream" \in m.signals,
   vless_dns_private_block |-> "vless_dns_block" \in m.signals]

\* A mutant: errors of an upstream hold the gate and are not named.
ReasonsWithoutUpstream(m) ==
  {reason \in ReasonNames \ {"vless_upstream_error"} : Shown(m)[reason]}

Reasons(m) == {reason \in ReasonNames : Shown(m)[reason]}

Mode(m) ==
  IF \/ ~m.answered
     \/ m.own.failed > 0 /\ ~NativeRecovered(m)
     \/ m.core.errors > 0 /\ ~CoreRecovered(m) THEN "degraded"
  ELSE IF m.own.rebuild > 0 /\ ~RebuildRecovered(m) THEN "full_rebuild"
  ELSE IF \/ m.own.fallback > 0 \/ m.core.mismatch > 0 \/ m.core.missing > 0
          \/ ErrorRecovered(m) THEN "fallback_repaired"
  ELSE IF m.own.success > 0 THEN "native_delta"
  ELSE "unknown"

\* Pressure closes an open gate and no more.
Gate(m) ==
  LET mode == Mode(m)
  IN  CASE mode = "native_delta" ->
             IF QuicHigh(m) \/ AbusePressure(m) \/ DnsPressure(m) \/ ConnectionPressure(m)
               THEN "hold_monitor" ELSE "allow_widen"
        [] mode = "fallback_repaired" -> "hold_monitor"
        [] mode \in {"full_rebuild", "degraded"} -> "hold_rollback"
        [] OTHER -> "hold"

NoVerdict == [mode |-> "unknown", gate |-> "hold", reasons |-> {}, busy |-> {}]

Verdict(m) ==
  IF Silent(m) THEN NoVerdict
  ELSE [mode |-> Mode(m), gate |-> Gate(m), reasons |-> Reasons(m), busy |-> BusyReasons(m)]

---------------------------------------------------------------------------
TypeOK ==
  /\ own \in [OwnCounters -> 0..Limit] /\ core \in [CoreCounters -> 0..Limit]
  /\ up \in BOOLEAN /\ known \in BOOLEAN /\ served \in BOOLEAN /\ owed \in BOOLEAN
  /\ signals \subseteq Signals /\ quic \in Quic
  /\ pc \in {"idle", "metrics", "apply", "baseline"}
  /\ report \in [mode : Modes, gate : Gates, reasons : SUBSET ReasonNames, busy : SUBSET Gauges]
  /\ trouble \subseteq {"failed", "rebuild"}
  /\ starts \in 0..MaxStarts /\ faults \in 0..MaxFaults

Init ==
  /\ own = NoneOwn
  /\ up = FALSE /\ core = NoneCore /\ signals = {} /\ quic = NoQuic /\ known = FALSE
  /\ served = FALSE /\ pc = "idle" /\ owed = FALSE
  /\ report = NoVerdict /\ trouble = {} /\ starts = 0 /\ faults = 0

Fault(kind) ==
  /\ kind \in Faults
  /\ faults < MaxFaults
  /\ faults' = faults + 1

---------------------------------------------------------------------------
(* The core *)

\* saturating_add.  Of these counters it matters only whether they are zero.
Flags == {"fallback", "rebuild", "mismatch", "missing"}

Top(c) == IF c \in Flags THEN 1 ELSE Limit

Added(counters, more) ==
  [c \in DOMAIN counters |-> IF counters[c] + more[c] > Top(c) THEN Top(c)
                             ELSE counters[c] + more[c]]

\* One for each of the counters named.
One(all, some) == [c \in all |-> IF c \in some THEN 1 ELSE 0]

Count(some) == own' = Added(own, One(OwnCounters, some))
CoreCount(some) == core' = Added(core, One(CoreCounters, some))

\* A core that refuses counts why, and an error beside it or not.
CoreRefuses(counts) == CoreCount(counts) \/ CoreCount(counts \cup {"errors"})

CoreGone ==
  /\ up' = FALSE
  /\ core' = NoneCore /\ signals' = {} /\ quic' = NoQuic /\ known' = FALSE

CoreCrash ==
  /\ Fault("core")
  /\ up
  /\ CoreGone
  /\ UNCHANGED <<own, served, pc, owed, report, trouble, starts>>

\* Traffic of its clients.
Traffic ==
  /\ up
  /\ \/ \E s \in Signals \ signals : signals' = signals \cup {s}
     \/ \E s \in signals \cap Gauges : signals' = signals \ {s}
     \/ UNCHANGED signals
  /\ quic' \in Quic
  /\ UNCHANGED <<own, up, core, known, served, pc, owed, report, trouble, starts, faults>>

---------------------------------------------------------------------------
(* The loop *)

\* A reload or an error starts a new loop beside the core that runs; the end
\* of the agent takes the core with it.
StartLoop ==
  /\ starts < MaxStarts
  /\ starts' = starts + 1
  /\ own' = NoneOwn /\ served' = FALSE /\ pc' = "idle" /\ owed' = FALSE /\ trouble' = {}
  /\ report' = NoVerdict
  /\ UNCHANGED coreVars \/ CoreGone
  /\ UNCHANGED faults

\* No users to apply.
QuietTick ==
  /\ pc = "idle"
  /\ pc' = "metrics"
  /\ UNCHANGED <<own, coreVars, served, owed, report, trouble, starts, faults>>

\* The delta is taken.
ApplyDelta ==
  /\ pc = "idle"
  /\ up /\ known
  /\ Count({"success"})
  /\ CoreCount({"incremental"})
  /\ pc' = "metrics"
  /\ UNCHANGED <<up, signals, quic, known, served, owed, report, trouble, starts, faults>>

\* The core asks for a snapshot and takes it.
ApplyFallback ==
  /\ pc = "idle"
  /\ up
  /\ \/ ~known /\ CoreRefuses({"missing", "full"}) /\ UNCHANGED faults
     \/ known /\ Fault("revision") /\ CoreRefuses({"mismatch", "full"})
  /\ Count({"failed", "fallback", "success"})
  /\ known' = TRUE
  /\ trouble' = trouble \cup {"failed"}
  /\ pc' = "metrics"
  /\ UNCHANGED <<up, signals, quic, served, owed, report, starts>>

\* A delta that was refused for its base, whose snapshot was refused as well.
CountTwice(more) ==
  own' = Added(Added(own, One(OwnCounters, {"failed", "fallback"})), One(OwnCounters, more))

Unbased == {IF known THEN "mismatch" ELSE "missing"}

\* The core has no such inbound: the delta, or its snapshot, waits, with
\* continue_on_error.
ApplyDeferred ==
  /\ pc = "idle"
  /\ up
  /\ Fault("inbound")
  /\ \/ CoreRefuses({}) /\ Count({"failed"})
     \/ CoreRefuses(Unbased) /\ CountTwice({"failed"})
  /\ trouble' = trouble \cup {"failed"}
  /\ pc' = "metrics"
  /\ UNCHANGED <<up, signals, quic, known, served, owed, report, starts>>

\* The plan is rebuilt with the users of the moment.
RebuildsPlan ==
  /\ served' = TRUE
  /\ owed' = TRUE
  /\ pc' = "metrics"

\* Any other error of the delta, or an error of its snapshot.
ApplyFails ==
  /\ pc = "idle"
  /\ up
  /\ \/ /\ Fault("call") /\ CoreRefuses({})
        /\ Count({"failed", "rebuild"})
     \/ /\ Fault("call") /\ CoreRefuses(Unbased)
        /\ CountTwice({"failed", "rebuild"})
  /\ trouble' = trouble \cup {"failed", "rebuild"}
  /\ RebuildsPlan
  /\ UNCHANGED <<up, signals, quic, known, report, starts>>

\* A core that does not run, a full list, or a plan without users: the plan is
\* rebuilt without asking the core.
Rebuild ==
  /\ pc = "idle"
  /\ Count({"rebuild"})
  /\ trouble' = IF served /\ up THEN trouble \cup {"rebuild"} ELSE trouble
  /\ RebuildsPlan
  /\ UNCHANGED <<coreVars, report, starts, faults>>

\* The status is put together before the core is started or told.
Report ==
  /\ pc = "metrics"
  /\ \/ report' = Verdict(Metrics(up)) /\ UNCHANGED faults
     \/ Fault("metrics") /\ report' = Verdict(Metrics(FALSE))
  /\ pc' = "apply"
  /\ UNCHANGED <<own, coreVars, served, owed, trouble, starts>>

\* The status goes out.  A core that is down is started, one that runs is told of
\* a rebuilt plan; both leave it without a revision.
ApplyPlan ==
  /\ pc = "apply"
  /\ up' = TRUE
  /\ known' = (known /\ ~owed)
  /\ pc' = IF owed THEN "baseline" ELSE "idle"
  /\ report' = NoVerdict
  /\ UNCHANGED <<own, core, signals, quic, served, owed, trouble, starts, faults>>

\* try_establish_keli_core_rs_revision_baseline: a snapshot that fails counts
\* for nothing.
Baseline ==
  /\ pc = "baseline"
  /\ \/ /\ up
        /\ CoreCount({"full"})
        /\ Count({"baseline"})
        /\ known' = TRUE
        /\ UNCHANGED faults
     \/ Fault("call") /\ UNCHANGED <<core, own, known>>
     \/ ~up /\ UNCHANGED <<core, own, known, faults>>
  /\ owed' = FALSE
  /\ pc' = "idle"
  /\ UNCHANGED <<up, signals, quic, served, report, trouble, starts>>

---------------------------------------------------------------------------
TickStep == Report \/ ApplyPlan \/ Baseline

Next ==
  \/ TickStep
  \/ QuietTick \/ ApplyDelta \/ ApplyFallback \/ ApplyDeferred \/ ApplyFails \/ Rebuild
  \/ StartLoop \/ CoreCrash \/ Traffic

Spec == Init /\ [][Next]_vars

\* A tick that was begun goes on.
FairSpec == Spec /\ WF_vars(TickStep)

---------------------------------------------------------------------------
(* Properties *)

Reported == pc = "apply"

\* The gate opens on a clean record only: no delta of this loop failed and the
\* plan of a core that ran was not rebuilt, whatever the core, which forgets its
\* own counters when it restarts, still knows of it.  docs/
\* NATIVE_CORE_GRAY_RELEASE.md:178, "`allow_widen` only for a clean
\* `native_delta` path" (health.rs:561).
WidenOnlyClean == Reported /\ report.gate = "allow_widen" => trouble = {}

\* A gate that is held says why: docs/NATIVE_CORE_GRAY_RELEASE.md:180,
\* "`reasons` explains the gate".  Mode, gate and reasons are computed apart, from
\* forty counters (health.rs:499).
HeldGateExplained == report.gate \in {"hold_monitor", "hold_rollback"} => report.reasons # {}

\* No node is sent back for good: while deltas are applied again and again the
\* advice to roll back is withdrawn, whichever of the two, the loop or the core,
\* lost its counters on the way (health.rs:426).
RollbackWithdrawn ==
  []<><<ApplyDelta>>_vars => <>[](report.gate # "hold_rollback")

===========================================================================
