------------------------ MODULE TrafficReport_proofs ------------------------
(* Proofs about TrafficReport, for every set of nodes and records.         *)
EXTENDS TrafficReport, TLAPS

\* The assumptions on the bounds, by themselves.
LEMMA Bounds ==
  /\ MaxFaults \in Nat /\ MaxPlanChanges \in Nat
  /\ NodeOf \in [Records -> Nodes]
  /\ Plans \subseteq SUBSET Nodes
  BY ConstantsAssumption

\* Every step of the report keeps the types.
LEMMA NextType == TypeOK /\ [Next]_vars => TypeOK'
  <1> SUFFICES ASSUME TypeOK, [Next]_vars PROVE TypeOK'
    OBVIOUS
  <1>1. CASE LoadPending
    BY <1>1, Bounds DEF LoadPending, planVars, TypeOK
  <1>2. CASE DrainTraffic
    BY <1>2, Bounds DEF DrainTraffic, AppendUnique, planVars, TypeOK
  <1>3. CASE SavePending
    BY <1>3, Bounds DEF SavePending, planVars, TypeOK
  <1>4. CASE BatchDone
    BY <1>4, Bounds DEF BatchDone, planVars, TypeOK
  <1>5. CASE TrimPending
    BY <1>5, Bounds DEF TrimPending, Return, FailedRecords, planVars, TypeOK
  <1>6. ASSUME NEW n \in Nodes, SkipTarget(n) PROVE TypeOK'
    BY <1>6, Bounds DEF SkipTarget, Target, planVars, TypeOK
  <1>7. ASSUME NEW n \in Nodes, ReportSnapshot(n) PROVE TypeOK'
    BY <1>7, Bounds DEF ReportSnapshot, Target, Bill, planVars, TypeOK
  <1>8. ASSUME NEW n \in Nodes, ReportUserTraffic(n) PROVE TypeOK'
    BY <1>8, Bounds DEF ReportUserTraffic, Target, Bill, planVars, TypeOK
  <1>9. ASSUME NEW n \in Nodes, ReportOnlineUsers(n) PROVE TypeOK'
    BY <1>9, Bounds DEF ReportOnlineUsers, Fault, planVars, TypeOK
  <1>10. CASE DrainFails
    BY <1>10, Bounds DEF DrainFails, Fault, Return, planVars, TypeOK
  <1>11. CASE RequeueDrained
    BY <1>11, Bounds DEF RequeueDrained, Fault, Return, planVars, TypeOK
  <1>12. CASE RequeueFails
    BY <1>12, Bounds DEF RequeueFails, Fault, Return, planVars, TypeOK
  <1>13. CASE TrimFails
    BY <1>13, Bounds DEF TrimFails, Fault, Return, planVars, TypeOK
  <1>14. CASE CoreCrash
    BY <1>14, Bounds DEF CoreCrash, Fault, planVars, TypeOK
  <1>15. CASE AgentCrash
    BY <1>15, Bounds DEF AgentCrash, Fault, Return, planVars, TypeOK
  <1>16. ASSUME NEW n \in Nodes, ReportFails(n) PROVE TypeOK'
    BY <1>16, Bounds DEF ReportFails, Target, Bill, Fault, planVars, TypeOK
  <1>17. CASE PlanChanges
    BY <1>17, Bounds DEF PlanChanges, planVars, TypeOK
  <1>18. ASSUME NEW r \in Records, CoreCounts(r) PROVE TypeOK'
    BY <1>18, Bounds DEF CoreCounts, planVars, TypeOK
  <1>19. CASE UNCHANGED vars
    BY <1>19 DEF vars, planVars, TypeOK
  <1> QED
    BY <1>1, <1>2, <1>3, <1>4, <1>5, <1>6, <1>7, <1>8, <1>9, <1>10, <1>11, <1>12,
       <1>13, <1>14, <1>15, <1>16, <1>17, <1>18, <1>19
       DEF Next, ReportStep, FaultStep

\* Each variable keeps its type: the spool holds records, whatever failed.
THEOREM TypeCorrect == Spec => []TypeOK
  <1>1. Init => TypeOK
    BY Bounds DEF Init, TypeOK
  <1> QED
    BY <1>1, NextType, PTL DEF Spec

\* The snapshot of a node has records of that node only.
LEMMA SnapshotOfNode ==
  ASSUME NEW n \in Nodes
  PROVE  \A r \in Snapshot(n) : r \in records /\ NodeOf[r] = n
  BY DEF Snapshot

-----------------------------------------------------------------------------
(* No record is counted more often than the faults explain.                *)

\* A report that is counted raises the counts of its node's records by one.
LEMMA BillCounts ==
  ASSUME TypeOK, InHand, OnePlace, CountsFollowFaults, NEW n \in Nodes,
         pc = "report", n \in todo, Bill(n)
  PROVE  /\ \A r \in Records : billed'[r] <= 1 + faults
         /\ \A r \in fresh \cup core : billed'[r] = billed[r]
         /\ \A r \in Records : NodeOf[r] # n => billed'[r] = billed[r]
  <1>1. ASSUME NEW r \in Records
        PROVE  billed'[r] = IF r \in Snapshot(n) THEN billed[r] + 1 ELSE billed[r]
    BY DEF Bill
  <1>2. \A r \in Snapshot(n) : r \in spool /\ billed[r] <= faults
    BY SnapshotOfNode DEF InHand, CountsFollowFaults
  <1>3. \A r \in Records : billed[r] \in Nat /\ billed[r] <= 1 + faults
    BY DEF TypeOK, CountsFollowFaults
  <1>4. faults \in Nat
    BY Bounds DEF TypeOK
  <1>5. \A r \in Records : billed'[r] <= 1 + faults
    BY <1>1, <1>2, <1>3, <1>4
  <1>6. \A r \in fresh \cup core : billed'[r] = billed[r]
    BY <1>1, <1>2 DEF OnePlace, TypeOK
  <1>7. \A r \in Records : NodeOf[r] # n => billed'[r] = billed[r]
    BY <1>1, SnapshotOfNode
  <1> QED
    BY <1>5, <1>6, <1>7

\* Every step keeps the counts within the faults.
LEMMA NextCounts ==
  TypeOK /\ InHand /\ OnePlace /\ CountsFollowFaults /\ [Next]_vars => (InHand /\ OnePlace /\ CountsFollowFaults)'
  <1> SUFFICES ASSUME TypeOK, InHand, OnePlace, CountsFollowFaults, [Next]_vars
               PROVE  (InHand /\ OnePlace /\ CountsFollowFaults)'
    OBVIOUS
  <1>1. CASE LoadPending
    BY <1>1, Bounds DEF LoadPending, planVars, TypeOK, InHand, OnePlace, CountsFollowFaults
  <1>2. CASE DrainTraffic
    BY <1>2, Bounds DEF DrainTraffic, AppendUnique, planVars, TypeOK, InHand, OnePlace, CountsFollowFaults
  <1>3. CASE SavePending
    BY <1>3, Bounds DEF SavePending, planVars, TypeOK, InHand, OnePlace, CountsFollowFaults
  <1>4. CASE BatchDone
    BY <1>4, Bounds DEF BatchDone, planVars, TypeOK, InHand, OnePlace, CountsFollowFaults
  <1>5. CASE TrimPending
    BY <1>5, Bounds DEF TrimPending, Return, FailedRecords, planVars, TypeOK, InHand, OnePlace, CountsFollowFaults
  <1>6. ASSUME NEW n \in Nodes, SkipTarget(n) PROVE (InHand /\ OnePlace /\ CountsFollowFaults)'
    BY <1>6, Bounds DEF SkipTarget, Target, planVars, TypeOK, InHand, OnePlace, CountsFollowFaults
  <1>7. ASSUME NEW n \in Nodes, ReportSnapshot(n) PROVE (InHand /\ OnePlace /\ CountsFollowFaults)'
    <2>1. pc = "report" /\ n \in todo
      BY <1>7 DEF ReportSnapshot, Target
    <2>2. CASE Bill(n)
      <3>1. (InHand /\ OnePlace)'
        BY <1>7 DEF ReportSnapshot, Target, InHand, OnePlace
      <3>2. CountsFollowFaults'
        BY <1>7, <2>1, <2>2, BillCounts, Bounds
           DEF ReportSnapshot, Target, TypeOK, InHand, CountsFollowFaults
      <3> QED
        BY <3>1, <3>2
    <2> QED
      BY <1>7, <2>2 DEF ReportSnapshot
  <1>8. ASSUME NEW n \in Nodes, ReportUserTraffic(n) PROVE (InHand /\ OnePlace /\ CountsFollowFaults)'
    <2>1. pc = "report" /\ n \in todo
      BY <1>8 DEF ReportUserTraffic, Target
    <2>2. CASE Bill(n)
      <3>1. (InHand /\ OnePlace)'
        BY <1>8 DEF ReportUserTraffic, Target, InHand, OnePlace
      <3>2. CountsFollowFaults'
        BY <1>8, <2>1, <2>2, BillCounts, Bounds
           DEF ReportUserTraffic, Target, TypeOK, InHand, CountsFollowFaults
      <3> QED
        BY <3>1, <3>2
    <2> QED
      BY <1>8, <2>2 DEF ReportUserTraffic
  <1>9. ASSUME NEW n \in Nodes, ReportOnlineUsers(n) PROVE (InHand /\ OnePlace /\ CountsFollowFaults)'
    BY <1>9, Bounds DEF ReportOnlineUsers, Fault, planVars, TypeOK, InHand, OnePlace, CountsFollowFaults
  <1>10. CASE DrainFails
    BY <1>10, Bounds DEF DrainFails, Fault, Return, planVars, TypeOK, InHand, OnePlace, CountsFollowFaults
  <1>11. CASE RequeueDrained
    BY <1>11, Bounds DEF RequeueDrained, Fault, Return, planVars, TypeOK, InHand, OnePlace, CountsFollowFaults
  <1>12. CASE RequeueFails
    BY <1>12, Bounds DEF RequeueFails, Fault, Return, planVars, TypeOK, InHand, OnePlace, CountsFollowFaults
  <1>13. CASE TrimFails
    BY <1>13, Bounds DEF TrimFails, Fault, Return, planVars, TypeOK, InHand, OnePlace, CountsFollowFaults
  <1>14. CASE CoreCrash
    BY <1>14, Bounds DEF CoreCrash, Fault, planVars, TypeOK, InHand, OnePlace, CountsFollowFaults
  <1>15. CASE AgentCrash
    BY <1>15, Bounds DEF AgentCrash, Fault, Return, planVars, TypeOK, InHand, OnePlace, CountsFollowFaults
  <1>16. ASSUME NEW n \in Nodes, ReportFails(n) PROVE (InHand /\ OnePlace /\ CountsFollowFaults)'
    <2>1. pc = "report" /\ n \in todo
      BY <1>16 DEF ReportFails, Target
    <2>2. CASE Bill(n)
      <3>1. (InHand /\ OnePlace)'
        BY <1>16 DEF ReportFails, Target, InHand, OnePlace
      <3>2. /\ \A r \in Records : billed'[r] <= 1 + faults
            /\ \A r \in fresh \cup core : billed'[r] = billed[r]
            /\ \A r \in Records : NodeOf[r] # n => billed'[r] = billed[r]
        BY <2>1, <2>2, BillCounts
      <3>3. /\ faults' = faults + 1 /\ faults \in Nat
            /\ \A r \in Records : billed[r] \in Nat /\ billed'[r] \in Nat
            /\ records \subseteq Records /\ fresh \cup core \subseteq Records
        BY <1>16, <2>2, Bounds DEF ReportFails, Fault, TypeOK, Bill
      <3>4. /\ UNCHANGED <<fresh, core, records, pc, online>>
            /\ todo' = todo \ {n} /\ failed' = failed \cup {n}
        BY <1>16 DEF ReportFails, Target
      <3>5. online = {}
        BY <1>16 DEF ReportFails, Target
      <3>6. CountsFollowFaults'
        BY <2>1, <3>2, <3>3, <3>4, <3>5 DEF CountsFollowFaults
      <3> QED
        BY <3>1, <3>6
    <2>3. CASE UNCHANGED billed
      BY <1>16, <2>3, Bounds
         DEF ReportFails, Target, Fault, TypeOK, InHand, OnePlace, CountsFollowFaults
    <2> QED
      BY <1>16, <2>2, <2>3 DEF ReportFails
  <1>17. CASE PlanChanges
    BY <1>17, Bounds DEF PlanChanges, planVars, TypeOK, InHand, OnePlace, CountsFollowFaults
  <1>18. ASSUME NEW r \in Records, CoreCounts(r) PROVE (InHand /\ OnePlace /\ CountsFollowFaults)'
    BY <1>18, Bounds DEF CoreCounts, planVars, TypeOK, InHand, OnePlace, CountsFollowFaults
  <1>19. CASE UNCHANGED vars
    BY <1>19 DEF vars, planVars, TypeOK, InHand, OnePlace, CountsFollowFaults
  <1> QED
    BY <1>1, <1>2, <1>3, <1>4, <1>5, <1>6, <1>7, <1>8, <1>9, <1>10, <1>11, <1>12,
       <1>13, <1>14, <1>15, <1>16, <1>17, <1>18, <1>19
       DEF Next, ReportStep, FaultStep

\* Each fault costs at most one more count of a record, however often the
\* report is retried (append_unique_keli_core_records, failed_keli_core_records).
THEOREM CountsBounded == Spec => []RecountedOnlyAfterFault
  <1>1. Init => InHand /\ OnePlace /\ CountsFollowFaults
    BY DEF Init, InHand, OnePlace, CountsFollowFaults
  <1>2. CountsFollowFaults => RecountedOnlyAfterFault
    BY DEF CountsFollowFaults, RecountedOnlyAfterFault
  <1> QED
    BY <1>1, <1>2, TypeCorrect, NextCounts, PTL DEF Spec

-----------------------------------------------------------------------------
(* No record is lost.                                                      *)

\* With every inbound in the plan, a node's snapshot has all its records.
LEMMA SnapshotWhole ==
  ASSUME AllAccountable, TypeOK, inbounds = Nodes, NEW n \in Nodes
  PROVE  Snapshot(n) = {r \in records : NodeOf[r] = n}
  BY Bounds DEF AllAccountable, TypeOK, Snapshot, HasTarget

\* A count never goes down, and a report that is counted counts its records.
LEMMA BillRaises ==
  ASSUME TypeOK, NEW n \in Nodes, Bill(n)
  PROVE  /\ \A r \in Records : billed[r] > 0 => billed'[r] > 0
         /\ \A r \in Snapshot(n) : r \in Records => billed'[r] > 0
  BY DEF TypeOK, Bill

\* Every step keeps each record held, counted or taken by a process that died.
LEMMA NextLedger ==
  AllAccountable /\ TypeOK /\ InHand /\ inbounds = Nodes /\ HandledOrOwed /\ NothingLost
    /\ [Next]_vars => (inbounds = Nodes /\ HandledOrOwed /\ NothingLost)'
  <1> SUFFICES ASSUME AllAccountable, TypeOK, InHand, inbounds = Nodes, HandledOrOwed,
                      NothingLost, [Next]_vars
               PROVE  (inbounds = Nodes /\ HandledOrOwed /\ NothingLost)'
    OBVIOUS
  <1>1. CASE LoadPending
    BY <1>1, Bounds
       DEF LoadPending, planVars,
           TypeOK, InHand, HandledOrOwed, NothingLost, Held
  <1>2. CASE DrainTraffic
    BY <1>2, Bounds
       DEF DrainTraffic, AppendUnique, planVars,
           AllAccountable, TypeOK, InHand, HandledOrOwed, NothingLost, Held
  <1>3. CASE SavePending
    BY <1>3, Bounds
       DEF SavePending, planVars,
           TypeOK, InHand, HandledOrOwed, NothingLost, Held
  <1>4. CASE BatchDone
    BY <1>4, Bounds
       DEF BatchDone, planVars,
           TypeOK, InHand, HandledOrOwed, NothingLost, Held
  <1>5. CASE TrimPending
    BY <1>5, Bounds
       DEF TrimPending, Return, FailedRecords, planVars,
           TypeOK, InHand, HandledOrOwed, NothingLost, Held
  <1>6. ASSUME NEW n \in Nodes, SkipTarget(n) PROVE (inbounds = Nodes /\ HandledOrOwed /\ NothingLost)'
    BY <1>6, Bounds, SnapshotWhole, BillRaises
       DEF SkipTarget, Target, planVars,
           TypeOK, InHand, HandledOrOwed, NothingLost, Held
  <1>7. ASSUME NEW n \in Nodes, ReportSnapshot(n) PROVE (inbounds = Nodes /\ HandledOrOwed /\ NothingLost)'
    BY <1>7, Bounds, SnapshotWhole, BillRaises
       DEF ReportSnapshot, Target, planVars,
           TypeOK, InHand, HandledOrOwed, NothingLost, Held
  <1>8. ASSUME NEW n \in Nodes, ReportUserTraffic(n) PROVE (inbounds = Nodes /\ HandledOrOwed /\ NothingLost)'
    BY <1>8, Bounds, SnapshotWhole, BillRaises
       DEF ReportUserTraffic, Target, planVars,
           TypeOK, InHand, HandledOrOwed, NothingLost, Held
  <1>9. ASSUME NEW n \in Nodes, ReportOnlineUsers(n) PROVE (inbounds = Nodes /\ HandledOrOwed /\ NothingLost)'
    BY <1>9, Bounds
       DEF ReportOnlineUsers, Fault, planVars,
           TypeOK, InHand, HandledOrOwed, NothingLost, Held
  <1>10. CASE DrainFails
    BY <1>10, Bounds
       DEF DrainFails, Fault, Return, planVars,
           TypeOK, InHand, HandledOrOwed, NothingLost, Held
  <1>11. CASE RequeueDrained
    BY <1>11, Bounds
       DEF RequeueDrained, Fault, Return, planVars,
           TypeOK, InHand, HandledOrOwed, NothingLost, Held
  <1>12. CASE RequeueFails
    BY <1>12, Bounds
       DEF RequeueFails, Fault, Return, planVars,
           TypeOK, InHand, HandledOrOwed, NothingLost, Held
  <1>13. CASE TrimFails
    BY <1>13, Bounds
       DEF TrimFails, Fault, Return, planVars,
           TypeOK, InHand, HandledOrOwed, NothingLost, Held
  <1>14. CASE CoreCrash
    BY <1>14, Bounds
       DEF CoreCrash, Fault, planVars,
           TypeOK, InHand, HandledOrOwed, NothingLost, Held
  <1>15. CASE AgentCrash
    BY <1>15, Bounds
       DEF AgentCrash, Fault, Return, planVars,
           TypeOK, InHand, HandledOrOwed, NothingLost, Held
  <1>16. ASSUME NEW n \in Nodes, ReportFails(n) PROVE (inbounds = Nodes /\ HandledOrOwed /\ NothingLost)'
    BY <1>16, Bounds, SnapshotWhole, BillRaises
       DEF ReportFails, Target, Fault, planVars,
           TypeOK, InHand, HandledOrOwed, NothingLost, Held
  <1>17. CASE PlanChanges
    BY <1>17, Bounds
       DEF PlanChanges, planVars,
           AllAccountable, TypeOK, InHand, HandledOrOwed, NothingLost, Held
  <1>18. ASSUME NEW r \in Records, CoreCounts(r) PROVE (inbounds = Nodes /\ HandledOrOwed /\ NothingLost)'
    BY <1>18, Bounds
       DEF CoreCounts, planVars,
           TypeOK, InHand, HandledOrOwed, NothingLost, Held
  <1>19. CASE UNCHANGED vars
    BY <1>19 DEF vars, planVars, HandledOrOwed, NothingLost, Held
  <1> QED
    BY <1>1, <1>2, <1>3, <1>4, <1>5, <1>6, <1>7, <1>8, <1>9, <1>10, <1>11, <1>12,
       <1>13, <1>14, <1>15, <1>16, <1>17, <1>18, <1>19
       DEF Next, ReportStep, FaultStep

\* No traffic is lost, whatever fails, where the spool can account for every
\* record (report_keli_core_activity_to_panel_with_user_lookup).
THEOREM TrafficNotLost == AllAccountable => (Spec => []NothingLost)
  <1> SUFFICES ASSUME AllAccountable PROVE Spec => []NothingLost
    OBVIOUS
  <1>1. Init => InHand /\ OnePlace /\ CountsFollowFaults
    BY DEF Init, InHand, OnePlace, CountsFollowFaults
  <1>2. Init => inbounds = Nodes /\ HandledOrOwed /\ NothingLost
    BY DEF Init, AllAccountable, HandledOrOwed, NothingLost, Held
  <1>3. TypeOK /\ InHand /\ inbounds = Nodes /\ HandledOrOwed /\ NothingLost /\ [Next]_vars
          => (inbounds = Nodes /\ HandledOrOwed /\ NothingLost)'
    BY NextLedger
  <1> QED
    BY <1>1, <1>2, <1>3, TypeCorrect, NextCounts, PTL DEF Spec

-----------------------------------------------------------------------------
(* Whatever the plan and the records, a record is given up for a reason.   *)

\* A handled target leaves its records counted or its node failed.
LEMMA NextTargets ==
  TypeOK /\ InHand /\ TargetsHandled /\ [Next]_vars => TargetsHandled'
  <1> SUFFICES ASSUME TypeOK, InHand, TargetsHandled, [Next]_vars
               PROVE  TargetsHandled'
    OBVIOUS
  <1>1. CASE LoadPending
    BY <1>1 DEF LoadPending, TargetsHandled
  <1>2. CASE DrainTraffic
    BY <1>2 DEF DrainTraffic, TargetsHandled
  <1>3. CASE SavePending
    BY <1>3, Bounds DEF SavePending, TypeOK, TargetsHandled
  <1>4. CASE BatchDone
    BY <1>4 DEF BatchDone, planVars, HasTarget, TargetsHandled
  <1>5. CASE TrimPending \/ DrainFails \/ RequeueDrained \/ RequeueFails \/ TrimFails
               \/ AgentCrash
    BY <1>5 DEF TrimPending, DrainFails, RequeueDrained, RequeueFails, TrimFails, AgentCrash,
                Return, TargetsHandled
  <1>6. ASSUME NEW n \in Nodes, SkipTarget(n) PROVE TargetsHandled'
    BY <1>6 DEF SkipTarget, Target, Snapshot, planVars, HasTarget, TargetsHandled
  <1>7. ASSUME NEW n \in Nodes, Bill(n),
               Target(n, FALSE), failed' \in {failed, failed \cup {n}}
        PROVE  TargetsHandled'
    BY <1>7, BillRaises DEF Target, Snapshot, planVars, HasTarget, TypeOK, TargetsHandled
  <1>8. ASSUME NEW n \in Nodes, ReportSnapshot(n) \/ ReportUserTraffic(n) PROVE TargetsHandled'
    BY <1>7, <1>8 DEF ReportSnapshot, ReportUserTraffic
  <1>9. ASSUME NEW n \in Nodes, ReportFails(n) PROVE TargetsHandled'
    <2>1. CASE UNCHANGED billed
      BY <1>9, <2>1 DEF ReportFails, Target, planVars, HasTarget, TargetsHandled
    <2> QED
      BY <1>7, <1>9, <2>1 DEF ReportFails
  <1>10. ASSUME NEW n \in Nodes, ReportOnlineUsers(n) PROVE TargetsHandled'
    BY <1>10 DEF ReportOnlineUsers, planVars, HasTarget, TargetsHandled
  <1>11. CASE PlanChanges
    BY <1>11 DEF PlanChanges, TargetsHandled
  <1>12. CASE CoreCrash \/ \E r \in Records : CoreCounts(r)
    BY <1>12 DEF CoreCrash, CoreCounts, planVars, HasTarget, TargetsHandled
  <1>13. CASE UNCHANGED vars
    BY <1>13 DEF vars, HasTarget, TargetsHandled
  <1> QED
    BY <1>1, <1>2, <1>3, <1>4, <1>5, <1>6, <1>8, <1>9, <1>10, <1>11, <1>12, <1>13
       DEF Next, ReportStep, FaultStep

\* Why a step may let go of a record it had.
LEMMA StepDrops ==
  ASSUME TypeOK, InHand, OnePlace, TargetsHandled, [Next]_vars,
         NEW r \in Records, Held(r), ~Held(r)'
  PROVE  \/ billed[r] > 0
         \/ r \in lost'
         \/ ~HasTarget(r)
         \/ \E s \in records \ {r} : SameRecord(r, s)
  <1>1. CASE LoadPending
    BY <1>1 DEF LoadPending, Held
  <1>2. CASE DrainTraffic
    <2>1. PICK got \in SUBSET core : /\ core' = core \ got
                                     /\ drained' = AppendUnique(records, got)
      BY <1>2 DEF DrainTraffic
    <2>2. UNCHANGED <<fresh, spool>> /\ pc = "drain"
      BY <1>2 DEF DrainTraffic
    <2>3. r \in got
      BY <2>1, <2>2 DEF Held
    <2>4. r \notin drained'
      <3>1. r \in drained' => records' # {}
        BY <1>2 DEF DrainTraffic
      <3> QED
        BY <1>2, <3>1 DEF DrainTraffic, Held
    <2>5. r \notin records
      BY <2>1, <2>3 DEF OnePlace
    <2> QED
      BY <2>1, <2>3, <2>4, <2>5 DEF AppendUnique
  <1>3. CASE SavePending
    BY <1>3 DEF SavePending, InHand, Held
  <1>4. CASE BatchDone
    BY <1>4 DEF BatchDone, Held
  <1>5. CASE TrimPending
    <2>1. r \in records /\ r \notin FailedRecords /\ todo = {}
      BY <1>5 DEF TrimPending, InHand, Held
    <2> QED
      BY <1>5, <2>1 DEF TrimPending, FailedRecords, HasTarget, TargetsHandled
  <1>6. ASSUME NEW n \in Nodes, SkipTarget(n) \/ ReportSnapshot(n) \/ ReportUserTraffic(n)
                                  \/ ReportFails(n)
        PROVE  FALSE
    BY <1>6 DEF SkipTarget, ReportSnapshot, ReportUserTraffic, ReportFails, Target, Held
  <1>7. ASSUME NEW n \in Nodes, ReportOnlineUsers(n) PROVE FALSE
    BY <1>7 DEF ReportOnlineUsers, Held
  <1>8. CASE DrainFails \/ RequeueDrained \/ RequeueFails \/ TrimFails
    BY <1>8 DEF DrainFails, RequeueDrained, RequeueFails, TrimFails, Held
  <1>9. CASE CoreCrash \/ AgentCrash
    BY <1>9 DEF CoreCrash, AgentCrash, Held
  <1>10. CASE PlanChanges \/ \E s \in Records : CoreCounts(s)
    BY <1>10 DEF PlanChanges, CoreCounts, Held
  <1>11. CASE UNCHANGED vars
    BY <1>11 DEF vars, Held
  <1> QED
    BY <1>1, <1>2, <1>3, <1>4, <1>5, <1>6, <1>7, <1>8, <1>9, <1>10, <1>11
       DEF Next, ReportStep, FaultStep

\* A record is given up only when it was counted, went with a process, has no
\* target or equals one that is still owed, for every plan, every set of equal
\* records and every sequence of faults (failed_keli_core_records,
\* append_unique_keli_core_records).
THEOREM DropsExplained == Spec => DroppedForAReason
  <1>1. Init => InHand /\ OnePlace /\ CountsFollowFaults /\ TargetsHandled
    BY DEF Init, InHand, OnePlace, CountsFollowFaults, TargetsHandled
  <1>2. TypeOK /\ InHand /\ OnePlace /\ TargetsHandled /\ [Next]_vars
          => [\A r \in Records : Held(r) /\ ~Held(r)' =>
                \/ billed[r] > 0
                \/ r \in lost'
                \/ ~HasTarget(r)
                \/ \E s \in records \ {r} : SameRecord(r, s)]_vars
    BY StepDrops
  <1> QED
    BY <1>1, <1>2, TypeCorrect, NextCounts, NextTargets, PTL DEF Spec, DroppedForAReason

=============================================================================
