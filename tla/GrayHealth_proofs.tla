------------------------- MODULE GrayHealth_proofs ------------------------
(***************************************************************************)
(* Proofs about GrayHealth: its types, that the gate opens on a clean      *)
(* record only, and that a gate that is held names a reason, for every set *)
(* of signals, every load and any number of faults and starts.             *)
(***************************************************************************)
EXTENDS GrayHealth, TLAPS

USE GrayAssumption

---------------------------------------------------------------------------
(* Counters *)

\* saturating_add stays within the limits and never goes back to zero.
LEMMA AddedType ==
  ASSUME NEW S, NEW counters \in [S -> 0..Limit], NEW more \in [S -> Nat]
  PROVE  /\ Added(counters, more) \in [S -> 0..Limit]
         /\ \A c \in S : counters[c] > 0 \/ more[c] > 0 => Added(counters, more)[c] > 0
  BY DEF Added, Top

LEMMA OneType ==
  ASSUME NEW S, NEW some
  PROVE  One(S, some) \in [S -> Nat] /\ \A c \in S \cap some : One(S, some)[c] > 0
  BY DEF One

\* What Count does to the loop's counters.
LEMMA CountType ==
  ASSUME TypeOK, NEW some, Count(some)
  PROVE  /\ own' \in [OwnCounters -> 0..Limit]
         /\ \A c \in OwnCounters : own[c] > 0 \/ c \in some => own'[c] > 0
  <1>1. own \in [OwnCounters -> 0..Limit]
    BY DEF TypeOK
  <1>2. /\ One(OwnCounters, some) \in [OwnCounters -> Nat]
        /\ \A c \in OwnCounters \cap some : One(OwnCounters, some)[c] > 0
    BY OneType
  <1> QED
    BY <1>1, <1>2, AddedType DEF Count

LEMMA CoreCountType ==
  ASSUME TypeOK, NEW some, CoreCount(some)
  PROVE  core' \in [CoreCounters -> 0..Limit]
  <1>1. core \in [CoreCounters -> 0..Limit]
    BY DEF TypeOK
  <1>2. One(CoreCounters, some) \in [CoreCounters -> Nat]
    BY OneType
  <1> QED
    BY <1>1, <1>2, AddedType DEF CoreCount

\* Two failures of one delta: what was counted stays counted, and so does `more'.
LEMMA CountTwiceType ==
  ASSUME TypeOK, NEW more, CountTwice(more)
  PROVE  /\ own' \in [OwnCounters -> 0..Limit]
         /\ \A c \in OwnCounters : own[c] > 0 \/ c \in more => own'[c] > 0
  <1> DEFINE once == Added(own, One(OwnCounters, {"failed", "fallback"}))
             again == One(OwnCounters, more)
  <1>1. /\ once \in [OwnCounters -> 0..Limit]
        /\ \A c \in OwnCounters : own[c] > 0 => once[c] > 0
        /\ again \in [OwnCounters -> Nat]
        /\ \A c \in more \cap OwnCounters : again[c] > 0
    BY OneType, AddedType DEF TypeOK
  <1>2. own' = Added(once, again)
    BY DEF CountTwice
  <1> HIDE DEF once, again
  <1> QED
    BY <1>1, <1>2, AddedType

LEMMA CoreRefusesType ==
  ASSUME TypeOK, NEW some, CoreRefuses(some)
  PROVE  core' \in [CoreCounters -> 0..Limit]
  BY CoreCountType DEF CoreRefuses

---------------------------------------------------------------------------
(* The verdict *)

Readings == [own : [OwnCounters -> 0..Limit], answered : BOOLEAN,
             core : [CoreCounters -> 0..Limit], signals : SUBSET Signals,
             quic : [limit : Nat, active : Nat]]

LEMMA MetricsType ==
  ASSUME TypeOK, NEW answered \in BOOLEAN
  PROVE  Metrics(answered) \in Readings /\ Metrics(answered).own = own
  BY DEF TypeOK, Metrics, Readings, NoneCore, NoQuic

LEMMA ModeType ==
  ASSUME NEW m \in Readings
  PROVE  Mode(m) \in Modes /\ Gate(m) \in Gates
  BY DEF Mode, Gate, Modes, Gates

LEMMA VerdictType ==
  ASSUME NEW m \in Readings
  PROVE  Verdict(m) \in [mode : Modes, gate : Gates, reasons : SUBSET ReasonNames,
                         busy : SUBSET Gauges]
  <1>1. Mode(m) \in Modes /\ Gate(m) \in Gates
    BY ModeType
  <1>2. Reasons(m) \in SUBSET ReasonNames /\ BusyReasons(m) \in SUBSET Gauges
    BY DEF Reasons, BusyReasons, Gauges
  <1>3. NoVerdict \in [mode : Modes, gate : Gates, reasons : SUBSET ReasonNames,
                       busy : SUBSET Gauges]
    BY DEF NoVerdict, Modes, Gates
  <1> QED
    BY <1>1, <1>2, <1>3 DEF Verdict

\* An open gate has no failure and no rebuild behind it: what is not recovered
\* is degraded or a rebuild, what is recovered is repaired.
LEMMA OpenGateClean ==
  ASSUME NEW m \in Readings, Gate(m) = "allow_widen"
  PROVE  m.own["failed"] = 0 /\ m.own["rebuild"] = 0
  <1>1. Mode(m) = "native_delta"
    BY DEF Gate
  <1>2. m.own["failed"] \in Nat /\ m.own["rebuild"] \in Nat
    BY DEF Readings, OwnCounters
  <1>3. ~(m.own.failed > 0 /\ ~NativeRecovered(m))
    BY <1>1 DEF Mode
  <1>4. ~(m.own.rebuild > 0 /\ ~RebuildRecovered(m))
    BY <1>1 DEF Mode
  <1>5. ~ErrorRecovered(m)
    BY <1>1 DEF Mode
  <1> QED
    BY <1>2, <1>3, <1>4, <1>5 DEF ErrorRecovered

\* Each way to hold the gate has its reason.
LEMMA HeldGateReason ==
  ASSUME NEW m \in Readings, Gate(m) \in {"hold_monitor", "hold_rollback"}
  PROVE  Reasons(m) # {}
  <1>1. \A reason \in ReasonNames : Shown(m)[reason] => Reasons(m) # {}
    BY DEF Reasons
  <1>2. CASE ~m.answered
    BY <1>1, <1>2 DEF Shown, ReasonNames
  <1>3. CASE m.own.failed > 0
    BY <1>1, <1>3 DEF Shown, ReasonNames
  <1>4. CASE m.core.errors > 0
    BY <1>1, <1>4 DEF Shown, ReasonNames
  <1>5. CASE m.own.rebuild > 0
    BY <1>1, <1>5 DEF Shown, ReasonNames
  <1>6. CASE m.own.fallback > 0
    BY <1>1, <1>6 DEF Shown, ReasonNames
  <1>7. CASE m.core.mismatch > 0
    BY <1>1, <1>7 DEF Shown, ReasonNames
  <1>8. CASE m.core.missing > 0
    BY <1>1, <1>8 DEF Shown, ReasonNames
  <1>9. CASE QuicHigh(m)
    BY <1>1, <1>9 DEF Shown, ReasonNames
  <1>10. CASE m.signals \cap {"tls_reject", "tls_blocked"} # {}
    BY <1>1, <1>10 DEF Shown, ReasonNames
  <1>11. CASE m.signals \cap {"auth_reject", "auth_blocked"} # {}
    BY <1>1, <1>11 DEF Shown, ReasonNames
  <1>12. CASE DnsPressure(m)
    BY <1>1, <1>12 DEF Shown, ReasonNames, DnsPressure
  <1>13. CASE "hy2_timeout" \in m.signals
    BY <1>1, <1>13 DEF Shown, ReasonNames
  <1>14. CASE "vless_upstream" \in m.signals
    BY <1>1, <1>14 DEF Shown, ReasonNames
  <1> DEFINE Calm == /\ m.answered /\ ~(m.own.failed > 0) /\ ~(m.core.errors > 0)
                     /\ ~(m.own.rebuild > 0) /\ ~(m.own.fallback > 0)
                     /\ ~(m.core.mismatch > 0) /\ ~(m.core.missing > 0)
             Eased == ~QuicHigh(m) /\ ~AbusePressure(m) /\ ~DnsPressure(m) /\ ~ConnectionPressure(m)
  <1>15. CASE Calm /\ Eased
    <2>1. Mode(m) \in {"native_delta", "unknown"}
      BY <1>15 DEF Mode, ErrorRecovered, NativeRecovered, CoreRecovered, RebuildRecovered
    <2> QED
      BY <2>1, <1>15 DEF Gate
  <1>16. CASE AbusePressure(m)
    BY <1>10, <1>11, <1>16 DEF AbusePressure
  <1>17. CASE ConnectionPressure(m)
    BY <1>13, <1>14, <1>17 DEF ConnectionPressure
  <1> QED
    BY <1>2, <1>3, <1>4, <1>5, <1>6, <1>7, <1>8, <1>9, <1>12, <1>15, <1>16, <1>17

---------------------------------------------------------------------------
(* Types *)

LEMMA NothingType ==
  /\ NoneOwn \in [OwnCounters -> 0..Limit] /\ NoneCore \in [CoreCounters -> 0..Limit]
  /\ NoQuic \in Quic
  /\ NoVerdict \in [mode : Modes, gate : Gates, reasons : SUBSET ReasonNames,
                    busy : SUBSET Gauges]
  BY DEF NoneOwn, NoneCore, NoQuic, NoVerdict, Modes, Gates

LEMMA TypeInit == Init => TypeOK
  <1> SUFFICES ASSUME Init PROVE TypeOK
    OBVIOUS
  <1>1. starts \in 0..MaxStarts /\ faults \in 0..MaxFaults
    BY DEF Init
  <1>2. up \in BOOLEAN /\ known \in BOOLEAN /\ served \in BOOLEAN /\ owed \in BOOLEAN
    BY Zenon DEF Init
  <1>3. /\ own \in [OwnCounters -> 0..Limit] /\ core \in [CoreCounters -> 0..Limit]
        /\ signals \subseteq Signals /\ quic \in Quic
        /\ pc \in {"idle", "metrics", "apply", "baseline"}
        /\ report \in [mode : Modes, gate : Gates, reasons : SUBSET ReasonNames,
                       busy : SUBSET Gauges]
        /\ trouble \subseteq {"failed", "rebuild"}
    BY NothingType, Zenon DEF Init
  <1> QED
    BY <1>1, <1>2, <1>3 DEF TypeOK

LEMMA TypeStep == TypeOK /\ [Next]_vars => TypeOK'
  <1> SUFFICES ASSUME TypeOK, [Next]_vars PROVE TypeOK'
    OBVIOUS
  <1> USE DEF TypeOK
  <1>0. \A kind : Fault(kind) => faults' \in 0..MaxFaults
    BY DEF Fault
  <1>1. CASE Report
    <2>1. \A answered \in BOOLEAN :
            Verdict(Metrics(answered)) \in [mode : Modes, gate : Gates,
                                            reasons : SUBSET ReasonNames, busy : SUBSET Gauges]
      BY MetricsType, VerdictType
    <2> QED
      BY <1>0, <1>1, <2>1 DEF Report, coreVars
  <1>2. CASE ApplyPlan
    BY <1>2, NothingType DEF ApplyPlan
  <1>3. CASE Baseline
    <2>1. own' \in [OwnCounters -> 0..Limit] /\ core' \in [CoreCounters -> 0..Limit]
      BY <1>3, CountType, CoreCountType DEF Baseline
    <2> QED
      BY <1>0, <1>3, <2>1 DEF Baseline
  <1>4. CASE QuietTick
    BY <1>4 DEF QuietTick, coreVars
  <1>5. CASE ApplyDelta
    <2>1. own' \in [OwnCounters -> 0..Limit] /\ core' \in [CoreCounters -> 0..Limit]
      BY <1>5, CountType, CoreCountType DEF ApplyDelta
    <2> QED
      BY <1>5, <2>1 DEF ApplyDelta
  <1>6. CASE ApplyFallback
    <2>1. own' \in [OwnCounters -> 0..Limit] /\ core' \in [CoreCounters -> 0..Limit]
      BY <1>6, CountType, CoreRefusesType DEF ApplyFallback
    <2> QED
      BY <1>0, <1>6, <2>1 DEF ApplyFallback
  <1>7. CASE ApplyDeferred
    <2>1. own' \in [OwnCounters -> 0..Limit] /\ core' \in [CoreCounters -> 0..Limit]
      BY <1>7, CountType, CountTwiceType, CoreRefusesType DEF ApplyDeferred, Unbased
    <2> QED
      BY <1>0, <1>7, <2>1 DEF ApplyDeferred
  <1>8. CASE ApplyFails
    <2>1. core' \in [CoreCounters -> 0..Limit]
      BY <1>8, CoreRefusesType DEF ApplyFails, Unbased
    <2>2. own' \in [OwnCounters -> 0..Limit]
      BY <1>8, CountType, CountTwiceType DEF ApplyFails
    <2> QED
      BY <1>0, <1>8, <2>1, <2>2 DEF ApplyFails, RebuildsPlan
  <1>9. CASE Rebuild
    <2>1. own' \in [OwnCounters -> 0..Limit]
      BY <1>9, CountType DEF Rebuild
    <2> QED
      BY <1>9, <2>1 DEF Rebuild, RebuildsPlan, coreVars
  <1>10. CASE StartLoop
    <2>1. starts' \in 0..MaxStarts /\ faults' \in 0..MaxFaults
      BY <1>10 DEF StartLoop
    <2>2. /\ own' \in [OwnCounters -> 0..Limit] /\ trouble' \subseteq {"failed", "rebuild"}
          /\ served' \in BOOLEAN /\ owed' \in BOOLEAN
          /\ pc' \in {"idle", "metrics", "apply", "baseline"}
          /\ report' \in [mode : Modes, gate : Gates, reasons : SUBSET ReasonNames,
                          busy : SUBSET Gauges]
      BY <1>10, NothingType, Zenon DEF StartLoop
    <2>3. /\ core' \in [CoreCounters -> 0..Limit]
          /\ up' \in BOOLEAN /\ known' \in BOOLEAN
          /\ signals' \subseteq Signals /\ quic' \in Quic
      <3>1. CASE UNCHANGED coreVars
        BY <3>1 DEF coreVars
      <3>2. CASE CoreGone
        BY <3>2, NothingType, Zenon DEF CoreGone
      <3> QED
        BY <1>10, <3>1, <3>2 DEF StartLoop
    <2> QED
      BY <2>1, <2>2, <2>3
  <1>11. CASE CoreCrash
    BY <1>0, <1>11, NothingType DEF CoreCrash, CoreGone
  <1>12. CASE Traffic
    BY <1>12 DEF Traffic
  <1>13. CASE UNCHANGED vars
    BY <1>13 DEF vars, coreVars
  <1> QED
    BY <1>1, <1>2, <1>3, <1>4, <1>5, <1>6, <1>7, <1>8, <1>9, <1>10, <1>11, <1>12, <1>13
    DEF Next, TickStep

\* The counters stay within their limits and every report is one of the verdicts
\* health.rs can give.
THEOREM GrayTypeCorrect == Spec => []TypeOK
  BY TypeInit, TypeStep, PTL DEF Spec

---------------------------------------------------------------------------
(* The gate *)

\* The loop's counters remember its trouble; they end only with the loop.
Remembered ==
  /\ "failed" \in trouble => own["failed"] > 0
  /\ "rebuild" \in trouble => own["rebuild"] > 0

GateInv == Remembered /\ WidenOnlyClean /\ HeldGateExplained

LEMMA GateInit == Init => GateInv
  BY DEF Init, GateInv, Remembered, WidenOnlyClean, HeldGateExplained, Reported, NoVerdict

LEMMA GateStep == TypeOK /\ GateInv /\ [Next]_vars => GateInv'
  <1> SUFFICES ASSUME TypeOK, GateInv, [Next]_vars PROVE GateInv'
    OBVIOUS
  <1> USE DEF GateInv
  <1>o. "failed" \in OwnCounters /\ "rebuild" \in OwnCounters
    BY DEF OwnCounters
  <1>k. ASSUME NEW some, Count(some),
               trouble' \subseteq trouble \cup (some \cap {"failed", "rebuild"})
        PROVE  Remembered'
    BY <1>k, <1>o, CountType DEF Remembered
  <1>t. ASSUME NEW some, CountTwice(some),
               trouble' \subseteq trouble \cup (some \cap {"failed", "rebuild"})
        PROVE  Remembered'
    BY <1>t, <1>o, CountTwiceType DEF Remembered
  <1>i. ASSUME pc' # "apply", report' = report PROVE WidenOnlyClean' /\ HeldGateExplained'
    BY <1>i DEF WidenOnlyClean, HeldGateExplained, Reported
  <1>1. CASE Report
    <2>1. PICK answered \in BOOLEAN : report' = Verdict(Metrics(answered))
      BY <1>1 DEF Report, TypeOK
    <2> DEFINE m == Metrics(answered)
    <2>2. m \in Readings /\ m.own = own
      BY MetricsType
    <2> HIDE DEF m
    <2>3. Remembered'
      BY <1>1 DEF Report, Remembered
    <2>4. ASSUME report'.gate = "allow_widen" PROVE trouble' = {}
      <3>1. Gate(m) = "allow_widen"
        BY <2>1, <2>4 DEF Verdict, NoVerdict, m
      <3>2. own["failed"] = 0 /\ own["rebuild"] = 0
        BY <2>2, <3>1, OpenGateClean
      <3> QED
        BY <1>1, <3>2 DEF Report, Remembered, TypeOK
    <2>5. ASSUME report'.gate \in {"hold_monitor", "hold_rollback"} PROVE report'.reasons # {}
      <3>1. Gate(m) \in {"hold_monitor", "hold_rollback"} /\ report'.reasons = Reasons(m)
        BY <2>1, <2>5 DEF Verdict, NoVerdict, m
      <3> QED
        BY <2>2, <3>1, HeldGateReason
    <2> QED
      BY <2>3, <2>4, <2>5 DEF WidenOnlyClean, HeldGateExplained
  <1>2. CASE ApplyPlan
    BY <1>2 DEF ApplyPlan, Remembered, WidenOnlyClean, HeldGateExplained, Reported, NoVerdict
  <1>3. CASE Baseline
    <2>1. Remembered'
      <3>1. CASE Count({"baseline"})
        BY <1>3, <1>k, <3>1 DEF Baseline
      <3>2. CASE own' = own
        BY <1>3, <3>2 DEF Baseline, Remembered
      <3> QED
        BY <1>3, <3>1, <3>2 DEF Baseline
    <2> QED
      BY <1>3, <1>i, <2>1 DEF Baseline
  <1>4. CASE QuietTick
    BY <1>4, <1>i DEF QuietTick, Remembered
  <1>5. CASE ApplyDelta
    <2>1. Remembered'
      BY <1>5, <1>k DEF ApplyDelta
    <2> QED
      BY <1>5, <1>i, <2>1 DEF ApplyDelta
  <1>6. CASE ApplyFallback
    <2>1. Remembered'
      BY <1>6, <1>k DEF ApplyFallback
    <2> QED
      BY <1>6, <1>i, <2>1 DEF ApplyFallback
  <1>7. CASE ApplyDeferred
    <2>1. Remembered'
      BY <1>7, <1>k, <1>t DEF ApplyDeferred
    <2> QED
      BY <1>7, <1>i, <2>1 DEF ApplyDeferred
  <1>8. CASE ApplyFails
    <2>2. Remembered'
      BY <1>8, <1>k, <1>t DEF ApplyFails
    <2> QED
      BY <1>8, <1>i, <2>2 DEF ApplyFails, RebuildsPlan
  <1>9. CASE Rebuild
    <2>1. Remembered'
      BY <1>9, <1>k DEF Rebuild
    <2> QED
      BY <1>9, <1>i, <2>1 DEF Rebuild, RebuildsPlan
  <1>10. CASE StartLoop
    BY <1>10 DEF StartLoop, Remembered, WidenOnlyClean, HeldGateExplained, Reported, NoVerdict
  <1>11. CASE CoreCrash
    BY <1>11 DEF CoreCrash, Remembered, WidenOnlyClean, HeldGateExplained, Reported
  <1>12. CASE Traffic
    BY <1>12 DEF Traffic, Remembered, WidenOnlyClean, HeldGateExplained, Reported
  <1>13. CASE UNCHANGED vars
    BY <1>13 DEF vars, Remembered, WidenOnlyClean, HeldGateExplained, Reported
  <1> QED
    BY <1>1, <1>2, <1>3, <1>4, <1>5, <1>6, <1>7, <1>8, <1>9, <1>10, <1>11, <1>12, <1>13
    DEF Next, TickStep

\* The gate of the gray release opens only for a loop without trouble, whatever
\* the core forgets when it restarts (health.rs:561).
THEOREM GateOpensClean == Spec => []WidenOnlyClean
  <1>1. GateInv => WidenOnlyClean
    BY DEF GateInv
  <1> QED
    BY <1>1, TypeInit, TypeStep, GateInit, GateStep, PTL DEF Spec

\* A gate that is held names a reason, for every signal the core can raise
\* (health.rs:499).
THEOREM GateExplained == Spec => []HeldGateExplained
  <1>1. GateInv => HeldGateExplained
    BY DEF GateInv
  <1> QED
    BY <1>1, TypeInit, TypeStep, GateInit, GateStep, PTL DEF Spec
===========================================================================
