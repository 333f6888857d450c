-------------------------- MODULE UserSync_proofs --------------------------
(* Proofs about UserSync, for every set of nodes, users and bounds.        *)
EXTENDS UserSync, TLAPS

-----------------------------------------------------------------------------
(* The operators on user sets and plans.                                   *)

\* The empty user list is a user set.
LEMMA NoUsersType == NoUsers \in Users
  BY DEF NoUsers, Users

\* apply_user_delta yields a user set.
LEMMA PatchType ==
  ASSUME NEW old \in Users, NEW edit \in Edit
  PROVE  Patch(old, edit) \in Users
  BY ConstantsAssumption DEF Patch, Users, Edit

\* compare_user_list yields an edit.
LEMMA UserDiffType ==
  ASSUME NEW old \in Users, NEW new \in Users
  PROVE  UserDiff(old, new) \in Edit
  BY ConstantsAssumption DEF UserDiff, Users, Edit

\* What compare_user_list finds, apply_user_delta puts into effect.
LEMMA PatchUserDiff ==
  ASSUME NEW old \in Users, NEW new \in Users
  PROVE  Patch(old, UserDiff(old, new)) = new
  BY ConstantsAssumption DEF Patch, UserDiff, Users

\* runtime_user_delta_change yields a change or none.
LEMMA ChangeType ==
  ASSUME NEW full \in BOOLEAN, NEW base \in 0..MaxRev, NEW rev \in 0..MaxRev,
         NEW diff \in Edit
  PROVE  RuntimeUserDeltaChange(full, base, rev, diff) \in Change
  BY ConstantsAssumption DEF RuntimeUserDeltaChange, NoChange, Change, NoEdit, Edit

\* No last_change is a change record.
LEMMA NoChangeType == NoChange \in Change
  BY ConstantsAssumption DEF NoChange, Change, NoEdit, Edit

\* The state of a node that has no file is a sync state.
LEMMA UnloadedType == Unloaded \in SyncState
  BY ConstantsAssumption, NoUsersType DEF Unloaded, SyncState

\* What write_core_config renders is a core config.
LEMMA RenderedType ==
  ASSUME TypeOK, NEW skipped
  PROVE  Rendered(skipped) \in CoreFile
  BY ConstantsAssumption, NoUsersType DEF TypeOK, Rendered, CoreFile, PlanInbounds

\* The config before the first write is one.
LEMMA NoFileType == NoFile \in CoreFile
  BY ConstantsAssumption, NoUsersType DEF NoFile, CoreFile

\* latest_users_by_node_tag_for_core_plan yields user sets.
LEMMA LatestUsersType ==
  ASSUME TypeOK, NEW n \in Nodes
  PROVE  LatestUsers(n) \in Users
  BY DEF TypeOK, LatestUsers, SyncState

\* The entry of a node, in memory or from disk, is a sync state.
LEMMA EntryType ==
  ASSUME TypeOK, NEW n \in Nodes
  PROVE  /\ Entry(n) \in SyncState
         /\ Entry(n).rev \in 0..MaxRev
         /\ Entry(n).users \in Users
  BY DEF TypeOK, Entry, SyncState

\* The answer of the panel is an edit, and leads to its latest users.
LEMMA PanelEditExact ==
  ASSUME TypeOK, NEW n \in Nodes, NEW base \in 1..panelRev[n], NEW extra
  PROVE  /\ PanelEdit(n, base, extra) \in Edit
         /\ Patch(hist[n][base], PanelEdit(n, base, extra)) = hist[n][panelRev[n]]
  <1>1. /\ hist[n][base] \in Users
        /\ hist[n][panelRev[n]] \in Users
    BY ConstantsAssumption DEF TypeOK
  <1> QED
    BY <1>1, ConstantsAssumption DEF PanelEdit, Patch, Edit, Users
-----------------------------------------------------------------------------
(* Type correctness.                                                       *)

\* A fresh install has the right types.
LEMMA InitType == Init => TypeOK
  <1> SUFFICES ASSUME Init PROVE TypeOK
    OBVIOUS
  <1>1. hist \in [Nodes -> [1..MaxRev -> Users]]
    <2>1. \A h \in {[r \in 1..MaxRev |-> us] : us \in PanelUsers \cup {NoUsers}} :
            h \in [1..MaxRev -> Users]
      BY ConstantsAssumption, NoUsersType
    <2> QED
      BY <2>1 DEF Init
  <1>2. /\ cache \in [Nodes -> SyncState]
        /\ disk \in [Nodes -> SyncState]
        /\ change \in [Nodes -> Change]
        /\ planUsers \in [Nodes -> Users]
        /\ coreUsers \in [Nodes -> Users]
        /\ coreRev \in [Nodes -> {NoRev} \cup 0..MaxRev]
        /\ file \in CoreFile
    BY NoUsersType, UnloadedType, NoChangeType, NoFileType DEF Init
  <1>3. /\ 1 \in 1..MaxRev /\ 1 \in 1..MaxVer /\ 0 \in 0..MaxVer /\ 0 \in 0..MaxFaults
    BY ConstantsAssumption
  <1>4. /\ panelRev \in [Nodes -> 1..MaxRev]
        /\ cfgVer \in 1..MaxVer
        /\ planVer \in 1..MaxVer
        /\ coreVer \in 0..MaxVer
        /\ faults \in 0..MaxFaults
    BY <1>3 DEF Init
  <1> QED
    BY <1>1, <1>2, <1>4 DEF Init, TypeOK

\* So has the memory of a loop that starts over.
LEMMA FreshLoopType ==
  ASSUME TypeOK, FreshLoop
  PROVE  /\ loaded' \in SUBSET Nodes
         /\ cache' \in [Nodes -> SyncState]
         /\ legacy' \in SUBSET Nodes
         /\ change' \in [Nodes -> Change]
         /\ planVer' \in 1..MaxVer
         /\ planUsers' \in [Nodes -> Users]
         /\ kind' \in {"tick", "event"}
         /\ todo' \in SUBSET Nodes
         /\ tags' \in SUBSET Nodes
         /\ outcome' \in {"none", "applied", "deferred", "rebuild"}
         /\ baseline' \in SUBSET Nodes
  BY NoUsersType, UnloadedType, NoChangeType DEF TypeOK, FreshLoop

\* A core that is gone keeps the types of its variables.
LEMMA CoreGoneType ==
  ASSUME TypeOK, CoreGone
  PROVE  /\ coreUp' \in BOOLEAN
         /\ coreVer' \in 0..MaxVer
         /\ coreIn' \in SUBSET Nodes
         /\ coreUsers' \in [Nodes -> Users]
         /\ coreRev' \in [Nodes -> {NoRev} \cup 0..MaxRev]
  <1>1. coreVer' \in 0..MaxVer
    BY ConstantsAssumption DEF CoreGone
  <1> QED
    BY <1>1, NoUsersType DEF CoreGone

\* So does a core that was started from a config.
LEMMA CoreRunsType ==
  ASSUME TypeOK, NEW c \in CoreFile, CoreRuns(c)
  PROVE  /\ coreUp' \in BOOLEAN
         /\ coreVer' \in 0..MaxVer
         /\ coreIn' \in SUBSET Nodes
         /\ coreUsers' \in [Nodes -> Users]
         /\ coreRev' \in [Nodes -> {NoRev} \cup 0..MaxRev]
  BY DEF TypeOK, CoreRuns, CoreFile

\* So does an inbound that takes users and a revision.
LEMMA CoreTakesType ==
  ASSUME TypeOK, NEW n \in Nodes, NEW us \in Users, NEW r \in 0..MaxRev,
         CoreTakes(n, us, r)
  PROVE  /\ coreUp' \in BOOLEAN
         /\ coreVer' \in 0..MaxVer
         /\ coreIn' \in SUBSET Nodes
         /\ coreUsers' \in [Nodes -> Users]
         /\ coreRev' \in [Nodes -> {NoRev} \cup 0..MaxRev]
  BY DEF TypeOK, CoreTakes

\* A delta, or the snapshot sent in its place, keeps the types of the core.
LEMMA CoreAppliesDeltaType ==
  ASSUME TypeOK, NEW n \in Nodes, CoreAppliesDelta(n)
  PROVE  /\ coreUp' \in BOOLEAN
         /\ coreVer' \in 0..MaxVer
         /\ coreIn' \in SUBSET Nodes
         /\ coreUsers' \in [Nodes -> Users]
         /\ coreRev' \in [Nodes -> {NoRev} \cup 0..MaxRev]
  <1>1. /\ change[n].diff \in Edit
        /\ change[n].rev \in 0..MaxRev
        /\ cache[n].users \in Users
        /\ cache[n].rev \in 0..MaxRev
        /\ coreUsers[n] \in Users
    BY DEF TypeOK, Change, SyncState
  <1>2. Patch(coreUsers[n], change[n].diff) \in Users
    BY <1>1, PatchType
  <1> QED
    BY <1>1, <1>2, CoreTakesType DEF CoreAppliesDelta

\* Storing an entry keeps the types.
LEMMA StoreEntryType ==
  ASSUME TypeOK, NEW n \in Nodes, NEW next \in SyncState, NEW c \in Change,
         StoreEntry(n, next, c), legacy' \in SUBSET Nodes
  PROVE  TypeOK'
  BY ConstantsAssumption
     DEF TypeOK, StoreEntry, Fault, panelVars, planVars, coreVars

\* The bounds, by themselves.
LEMMA Bounds ==
  /\ MaxRev \in Nat \ {0} /\ MaxVer \in Nat \ {0} /\ MaxFaults \in Nat
  /\ PanelUsers \subseteq Users /\ LegacyPanel \subseteq Nodes
  BY ConstantsAssumption

\* The panel's steps keep the types.
LEMMA PanelType == TypeOK /\ PanelStep => TypeOK'
  <1> SUFFICES ASSUME TypeOK, PanelStep PROVE TypeOK'
    OBVIOUS
  <1>1. CASE PanelReconfigure
    BY <1>1, Bounds DEF TypeOK, PanelReconfigure, cacheVars, planVars, coreVars, tickVars
  <1>2. ASSUME NEW n \in Nodes, PanelPublish(n) PROVE TypeOK'
    <2>1. /\ hist' \in [Nodes -> [1..MaxRev -> Users]]
          /\ panelRev' \in [Nodes -> 1..MaxRev]
      BY <1>2, Bounds DEF TypeOK, PanelPublish
    <2> QED
      BY <1>2, <2>1 DEF TypeOK, PanelPublish, cacheVars, planVars, coreVars, tickVars
  <1> QED
    BY <1>1, <1>2 DEF PanelStep

\* An agent that ends keeps the types.
LEMMA AgentEndsType ==
  ASSUME TypeOK, AgentEnds, UNCHANGED <<panelVars, disk>>, file' \in CoreFile,
         faults' \in 0..MaxFaults
  PROVE  TypeOK'
  BY FreshLoopType, CoreGoneType DEF TypeOK, AgentEnds, panelVars

\* A loop that is restarted keeps the types.
LEMMA RestartLoopType ==
  ASSUME TypeOK, RestartLoop, faults' \in 0..MaxFaults
  PROVE  TypeOK'
  BY FreshLoopType DEF TypeOK, RestartLoop, panelVars, coreVars

\* A fault stays within the bound on faults.
LEMMA FaultType ==
  ASSUME TypeOK, NEW k, Fault(k)
  PROVE  faults' \in 0..MaxFaults
  BY Bounds DEF TypeOK, Fault

\* Refreshing the cached users keeps the types.
LEMMA RefreshType == TypeOK /\ RefreshStep => TypeOK'
  <1> SUFFICES ASSUME TypeOK, RefreshStep PROVE TypeOK'
    OBVIOUS
  <1>1. ASSUME NEW k \in {"tick", "event"}, StartTick(k) PROVE TypeOK'
    BY <1>1 DEF TypeOK, StartTick, panelVars, cacheVars, planVars, coreVars
  <1>2. ASSUME NEW n \in Nodes, RefreshFull(n) PROVE TypeOK'
    <2> DEFINE now == hist[n][panelRev[n]]
               next == [rev |-> panelRev[n],
                        users |-> IF now = NoUsers THEN Entry(n).users ELSE now]
               c == RuntimeUserDeltaChange(TRUE, Entry(n).rev, next.rev,
                                           UserDiff(Entry(n).users, next.users))
    <2>1. now \in Users /\ panelRev[n] \in 0..MaxRev
      BY Bounds DEF TypeOK
    <2>2. next \in SyncState /\ next.users \in Users /\ next.rev \in 0..MaxRev
      BY <2>1, EntryType DEF SyncState
    <2>3. c \in Change
      BY <2>2, EntryType, UserDiffType, ChangeType
    <2>4. StoreEntry(n, next, c) /\ legacy' = legacy
      BY <1>2 DEF RefreshFull
    <2> HIDE DEF next, c
    <2> QED
      BY <2>2, <2>3, <2>4, StoreEntryType DEF TypeOK
  <1>3. ASSUME NEW n \in Nodes, RefreshDelta(n) PROVE TypeOK'
    <2> PICK extra \in SUBSET Uuid :
          LET edit == PanelEdit(n, Entry(n).rev, extra)
              next == [rev |-> panelRev[n], users |-> Patch(Entry(n).users, edit)]
              revisionOnly == edit = NoEdit /\ Entry(n).users # NoUsers
          IN  StoreEntry(n, next,
                IF revisionOnly /\ ~HasCorePlan
                  THEN NoChange
                  ELSE RuntimeUserDeltaChange(FALSE, Entry(n).rev, next.rev,
                                              UserDiff(Entry(n).users, next.users)))
      BY <1>3 DEF RefreshDelta
    <2> DEFINE edit == PanelEdit(n, Entry(n).rev, extra)
               next == [rev |-> panelRev[n], users |-> Patch(Entry(n).users, edit)]
               d == RuntimeUserDeltaChange(FALSE, Entry(n).rev, next.rev,
                                           UserDiff(Entry(n).users, next.users))
               c == IF (edit = NoEdit /\ Entry(n).users # NoUsers) /\ ~HasCorePlan
                      THEN NoChange ELSE d
    <2>1. /\ hist[n][Entry(n).rev] \in Users
          /\ hist[n][panelRev[n]] \in Users
          /\ panelRev[n] \in 0..MaxRev
      BY <1>3, EntryType, Bounds DEF TypeOK, RefreshDelta
    <2>2. edit \in Edit
      BY <2>1 DEF PanelEdit, Edit, Users
    <2>3. next \in SyncState /\ next.users \in Users /\ next.rev \in 0..MaxRev
      BY <2>1, <2>2, EntryType, PatchType DEF SyncState
    <2>4. c \in Change
      BY <2>3, EntryType, UserDiffType, ChangeType, NoChangeType
    <2>5. StoreEntry(n, next, c) /\ legacy' = legacy
      BY <1>3 DEF RefreshDelta
    <2> HIDE DEF next, c
    <2> QED
      BY <2>3, <2>4, <2>5, StoreEntryType DEF TypeOK
  <1>4. ASSUME NEW n \in Nodes, RefreshList(n) PROVE TypeOK'
    <2> DEFINE now == hist[n][panelRev[n]]
               next == [Entry(n) EXCEPT !.users = IF now = NoUsers THEN @ ELSE now]
               c == RuntimeUserDeltaChange(TRUE, Entry(n).rev, Entry(n).rev,
                                           UserDiff(Entry(n).users, next.users))
    <2>1. now \in Users
      BY Bounds DEF TypeOK
    <2>2. next \in SyncState /\ next.users \in Users
      BY <2>1, EntryType DEF SyncState
    <2>3. c \in Change
      BY <2>2, EntryType, UserDiffType, ChangeType
    <2>4. StoreEntry(n, next, c) /\ legacy' = legacy \cup {n}
      BY <1>4 DEF RefreshList
    <2> HIDE DEF next, c
    <2> QED
      BY <2>2, <2>3, <2>4, StoreEntryType DEF TypeOK
  <1> QED
    BY <1>1, <1>2, <1>3, <1>4 DEF RefreshStep

\* Handing the change to the core keeps the types.
LEMMA DeltaType == TypeOK /\ DeltaStep => TypeOK'
  <1> SUFFICES ASSUME TypeOK, DeltaStep PROVE TypeOK'
    OBVIOUS
  <1>1. CASE RefreshDone
    BY <1>1 DEF TypeOK, RefreshDone, LoopTop, panelVars, cacheVars, planVars, coreVars
  <1>2. CASE NativeApplied
    BY <1>2, NoChangeType DEF TypeOK, NativeApplied, LoopTop, panelVars, planVars, coreVars
  <1>3. CASE NativeDeferred
    BY <1>3 DEF TypeOK, NativeDeferred, LoopTop, panelVars, cacheVars, planVars, coreVars
  <1>4. CASE Rebuild
    <2>1. planUsers' \in [Nodes -> Users]
      BY <1>4, LatestUsersType DEF Rebuild, TypeOK, SyncState
    <2> QED
      BY <1>4, <2>1 DEF TypeOK, Rebuild, panelVars, cacheVars, coreVars
  <1>5. ASSUME NEW n \in Nodes, NativeDelta(n) PROVE TypeOK'
    BY <1>5, CoreAppliesDeltaType
       DEF TypeOK, NativeDelta, panelVars, cacheVars, planVars
  <1>6. ASSUME NEW n \in Nodes, NativeMissingInbound(n) PROVE TypeOK'
    BY <1>6 DEF TypeOK, NativeMissingInbound, panelVars, cacheVars, planVars, coreVars, tickVars
  <1>7. ASSUME NEW n \in Nodes, NativeCallFails(n) PROVE TypeOK'
    <2>1. faults' \in 0..MaxFaults
      BY <1>7, FaultType DEF NativeCallFails, TypeOK
    <2>2. CASE UNCHANGED coreVars
      BY <1>7, <2>1, <2>2 DEF TypeOK, NativeCallFails, panelVars, cacheVars, planVars, coreVars, tickVars
    <2>3. CASE CoreAppliesDelta(n)
      BY <1>7, <2>1, <2>3, CoreAppliesDeltaType
         DEF TypeOK, NativeCallFails, panelVars, cacheVars, planVars, tickVars
    <2> QED
      BY <1>7, <2>2, <2>3 DEF NativeCallFails
  <1> QED
    BY <1>1, <1>2, <1>3, <1>4, <1>5, <1>6, <1>7 DEF DeltaStep

\* Applying the plan and sending the baseline keep the types.
LEMMA ApplyType == TypeOK /\ ApplyStep => TypeOK'
  <1> SUFFICES ASSUME TypeOK, ApplyStep PROVE TypeOK'
    OBVIOUS
  <1>1. CASE EnsureRestartUsesLatestUsers
    <2>1. planUsers' \in [Nodes -> Users]
      BY <1>1, LatestUsersType DEF EnsureRestartUsesLatestUsers, TypeOK
    <2> QED
      BY <1>1, <2>1
         DEF TypeOK, EnsureRestartUsesLatestUsers, panelVars, cacheVars, coreVars, tickVars
  <1>2. CASE ApplyWithoutCore
    BY <1>2, CoreGoneType DEF TypeOK, ApplyWithoutCore, panelVars, cacheVars, planVars, tickVars
  <1>3. CASE ApplyNothingLeft
    BY <1>3 DEF TypeOK, ApplyNothingLeft, panelVars, cacheVars, planVars, coreVars, tickVars
  <1>4. CASE ApplyStart
    <2>1. PICK skipped : file' = Rendered(skipped) /\ CoreRuns(Rendered(skipped))
      BY <1>4 DEF ApplyStart
    <2> QED
      BY <1>4, <2>1, RenderedType, CoreRunsType
         DEF TypeOK, ApplyStart, panelVars, cacheVars, planVars, tickVars
  <1>5. CASE ApplyKeepRunning
    BY <1>5, RenderedType DEF TypeOK, ApplyKeepRunning, panelVars, cacheVars, planVars, coreVars, tickVars
  <1>6. CASE HotApplyRoutes
    <2>1. file' \in CoreFile /\ coreVer' \in 0..MaxVer
      BY <1>6, RenderedType, Bounds DEF HotApplyRoutes, TypeOK
    <2> QED
      BY <1>6, <2>1
         DEF TypeOK, HotApplyRoutes, HotApplyNeeded, panelVars, cacheVars, planVars, tickVars
  <1>7. CASE HotApplyConfig
    BY <1>7, RenderedType, CoreRunsType
       DEF TypeOK, HotApplyConfig, HotApplyNeeded, panelVars, cacheVars, planVars, tickVars
  <1>8. CASE HotApplyRejected
    <2>1. file' \in CoreFile /\ faults' \in 0..MaxFaults
      BY <1>8, RenderedType DEF HotApplyRejected, TypeOK
    <2> QED
      BY <1>8, <2>1, AgentEndsType DEF HotApplyRejected
  <1>9. CASE TickDone
    BY <1>9 DEF TypeOK, TickDone, LoopTop, panelVars, cacheVars, planVars, coreVars, tickVars
  <1>10. ASSUME NEW n \in Nodes, BaselineSnapshot(n) PROVE TypeOK'
    <2>1. cache[n].users \in Users /\ cache[n].rev \in 0..MaxRev
      BY DEF TypeOK, SyncState
    <2> QED
      BY <1>10, <2>1, CoreTakesType
         DEF TypeOK, BaselineSnapshot, panelVars, cacheVars, planVars
  <1>11. ASSUME NEW n \in Nodes, BaselineSkips(n) PROVE TypeOK'
    BY <1>11 DEF TypeOK, BaselineSkips, panelVars, cacheVars, planVars, coreVars
  <1>12. ASSUME NEW n \in Nodes, BaselineFails(n) PROVE TypeOK'
    <2>1. faults' \in 0..MaxFaults
      BY <1>12, FaultType DEF BaselineFails, TypeOK
    <2> QED
      BY <1>12, <2>1 DEF TypeOK, BaselineFails, panelVars, cacheVars, planVars, coreVars
  <1>13. CASE ApplyStartFails
    <2>1. PICK skipped : file' = Rendered(skipped)
      BY <1>13 DEF ApplyStartFails
    <2>2. file' \in CoreFile /\ faults' \in 0..MaxFaults
      BY <1>13, <2>1, RenderedType DEF ApplyStartFails, TypeOK
    <2> QED
      BY <1>13, <2>2, AgentEndsType DEF ApplyStartFails
  <1> QED
    BY <1>1, <1>2, <1>3, <1>4, <1>5, <1>6, <1>7, <1>8, <1>9, <1>10, <1>11, <1>12, <1>13
       DEF ApplyStep

\* Faults keep the types.
LEMMA FaultStepType == TypeOK /\ FaultStep => TypeOK'
  <1> SUFFICES ASSUME TypeOK, FaultStep PROVE TypeOK'
    OBVIOUS
  <1>1. CASE ForcedReload
    BY <1>1, FaultType, RestartLoopType DEF ForcedReload
  <1>2. CASE CoreCrash
    BY <1>2, FaultType, CoreGoneType
       DEF TypeOK, CoreCrash, panelVars, cacheVars, planVars, tickVars
  <1>3. CASE AgentCrash
    BY <1>3, FaultType, AgentEndsType DEF TypeOK, AgentCrash
  <1>4. ASSUME NEW n \in Nodes, RefreshFails(n) PROVE TypeOK'
    <2>1. faults' \in 0..MaxFaults
      BY <1>4, FaultType DEF RefreshFails
    <2>2. CASE ContinueOnError
      <3>1. /\ loaded' \in SUBSET Nodes
            /\ cache' \in [Nodes -> SyncState]
            /\ legacy' \in SUBSET Nodes
            /\ todo' \in SUBSET Nodes
        BY <1>4, <2>2, EntryType DEF TypeOK, RefreshFails
      <3> QED
        BY <1>4, <2>1, <2>2, <3>1 DEF TypeOK, RefreshFails, panelVars, planVars, coreVars
    <2>3. CASE ~ContinueOnError
      BY <1>4, <2>1, <2>3, AgentEndsType DEF TypeOK, RefreshFails
    <2> QED
      BY <2>2, <2>3
  <1> QED
    BY <1>1, <1>2, <1>3, <1>4 DEF FaultStep

\* Every step keeps the types.
LEMMA NextType == TypeOK /\ [Next]_vars => TypeOK'
  <1> SUFFICES ASSUME TypeOK, [Next]_vars PROVE TypeOK'
    OBVIOUS
  <1>1. CASE Boot
    BY <1>1, FreshLoopType DEF TypeOK, Boot, panelVars, coreVars
  <1>2. CASE Reload
    BY <1>2, RestartLoopType DEF TypeOK, Reload
  <1>3. CASE UNCHANGED vars
    BY <1>3 DEF TypeOK, vars, panelVars, cacheVars, planVars, coreVars, tickVars
  <1> QED
    BY <1>1, <1>2, <1>3, PanelType, RefreshType, DeltaType, ApplyType, FaultStepType
       DEF Next, LoopStep

\* In every behaviour of the runtime loop each variable keeps its type: a
\* revision stays within the published ones, a change is a change.
THEOREM TypeCorrect == Spec => []TypeOK
  BY InitType, NextType, PTL DEF Spec

-----------------------------------------------------------------------------
(* The revisions.  A node may start without users; after that the panel      *)
(* publishes no empty set here, as an empty full answer moves the revision   *)
(* and leaves the users.                                                     *)

\* A fresh install satisfies the invariant: no revision is kept anywhere.
LEMMA InitSync == NoUsers \notin PanelUsers /\ Init => SyncInv
  <1> SUFFICES ASSUME NoUsers \notin PanelUsers, Init PROVE SyncInv
    OBVIOUS
  <1>1. ASSUME NEW n \in Nodes PROVE panelRev[n] = 1
    BY DEF Init
  <1>2. ASSUME NEW n \in Nodes PROVE CacheTrue(n) /\ ChangeExact(n) /\ CoreBehind(n)
    BY DEF Init, CacheTrue, NoRevNoUsers, ChangeExact, CoreBehind, Truthful, Unloaded, NoChange, NoRev
  <1>3. TickSets
    BY DEF Init, TickSets
  <1> QED
    BY <1>1, <1>2, <1>3 DEF SyncInv

\* Revisions that were published stay what they were.
LEMMA PublishSync ==
  NoUsers \notin PanelUsers /\ TypeOK /\ SyncInv /\ PanelStep => SyncInv'
  <1> SUFFICES ASSUME NoUsers \notin PanelUsers, TypeOK, SyncInv, PanelStep
               PROVE  SyncInv'
    OBVIOUS
  <1>1. CASE PanelReconfigure
    BY <1>1 DEF PanelReconfigure, cacheVars, planVars, coreVars, tickVars,
       SyncInv, CacheTrue, ChangeExact, CoreBehind, TickSets, Truthful, NoRevNoUsers
  <1>2. ASSUME NEW n \in Nodes, PanelPublish(n) PROVE SyncInv'
    <2>1. /\ UNCHANGED <<loaded, cache, change, disk, coreUsers, coreRev, pc, todo,
                         tags, baseline>>
      BY <1>2 DEF PanelPublish, cacheVars, coreVars, tickVars
    <2>2. ASSUME NEW m \in Nodes
          PROVE  /\ panelRev[m] <= panelRev'[m]
                 /\ \A r \in 1..panelRev[m] : hist'[m][r] = hist[m][r]
                 /\ hist'[m][panelRev'[m]] = NoUsers => panelRev'[m] = 1
      <3>1. PICK us \in PanelUsers : hist' = [hist EXCEPT ![n][panelRev[n] + 1] = us]
        BY <1>2 DEF PanelPublish
      <3>2. /\ panelRev' = [panelRev EXCEPT ![n] = @ + 1]
            /\ panelRev[n] + 1 \in 1..MaxRev
        BY <1>2, Bounds DEF PanelPublish, TypeOK
      <3>3. NoUsers \notin PanelUsers /\ us # NoUsers
        OBVIOUS
      <3>4. CASE m = n
        BY <3>1, <3>2, <3>3, <3>4, Bounds DEF TypeOK
      <3>5. CASE m # n
        BY <3>1, <3>2, <3>5, Bounds DEF TypeOK, SyncInv
      <3> QED
        BY <3>4, <3>5
    <2>3. ASSUME NEW m \in Nodes
          PROVE  (CacheTrue(m) /\ ChangeExact(m) /\ CoreBehind(m))'
      <3>1. /\ cache[m].rev \in Int /\ disk[m].rev \in Int /\ coreRev[m] \in Int
            /\ panelRev[m] \in Int /\ panelRev'[m] \in Int
        BY <1>2, Bounds DEF TypeOK, SyncState, NoRev, PanelPublish
      <3>2. /\ Truthful(m, cache[m].rev, cache[m].users)'
            /\ Truthful(m, disk[m].rev, disk[m].users)'
            /\ Truthful(m, coreRev[m], coreUsers[m])'
        BY <2>1, <2>2, <3>1 DEF SyncInv, CacheTrue, CoreBehind, Truthful
      <3>3. ChangeExact(m)'
        BY <2>1, <2>2, <3>1 DEF SyncInv, ChangeExact, CacheTrue, Truthful
      <3> QED
        BY <2>1, <3>2, <3>3 DEF SyncInv, CacheTrue, CoreBehind, NoRevNoUsers
    <2> QED
      BY <2>1, <2>2, <2>3 DEF SyncInv, TickSets
  <1> QED
    BY <1>1, <1>2 DEF PanelStep

\* A step that leaves the cache alone keeps the invariant if what it does to
\* the core and to the sets of the tick does.
LEMMA CacheKept ==
  ASSUME SyncInv,
         UNCHANGED <<hist, panelRev, loaded, cache, disk>>,
         \A n \in Nodes : change'[n] = change[n] \/ change'[n] = NoChange,
         \A n \in Nodes : CoreBehind(n)',
         TickSets'
  PROVE  SyncInv'
  <1>1. ASSUME NEW n \in Nodes PROVE CacheTrue(n)' /\ ChangeExact(n)'
    BY DEF SyncInv, CacheTrue, ChangeExact, Truthful, NoChange, NoRevNoUsers
  <1> QED
    BY <1>1 DEF SyncInv

\* The core and the tags are unchanged, or the core forgot its revisions.
LEMMA CoreKept ==
  ASSUME TypeOK, SyncInv, UNCHANGED <<hist, panelRev, cache>>, tags' \subseteq tags,
         NEW n \in Nodes,
         \/ coreRev'[n] = coreRev[n] /\ coreUsers'[n] = coreUsers[n]
         \/ coreRev'[n] = NoRev
  PROVE  CoreBehind(n)'
  BY Bounds DEF TypeOK, SyncInv, CoreBehind, Truthful, NoRev, SyncState

\* The memory of the loop starts over; the core keeps what it has or is gone.
LEMMA FreshSync ==
  ASSUME TypeOK, SyncInv, FreshLoop, UNCHANGED <<hist, panelRev, disk>>,
         UNCHANGED <<coreUsers, coreRev>> \/ CoreGone,
         pc' \in {"top", "down"}
  PROVE  SyncInv'
  <1>1. ASSUME NEW n \in Nodes PROVE CacheTrue(n)' /\ ChangeExact(n)'
    BY Bounds DEF FreshLoop, SyncInv, CacheTrue, ChangeExact, Truthful, Unloaded, NoChange,
       NoRevNoUsers, TypeOK
  <1>2. ASSUME NEW n \in Nodes PROVE CoreBehind(n)'
    BY Bounds DEF FreshLoop, CoreGone, SyncInv, CoreBehind, Truthful, NoRev, TypeOK
  <1>3. TickSets'
    BY DEF FreshLoop, TickSets
  <1> QED
    BY <1>1, <1>2, <1>3 DEF SyncInv

\* An entry that takes a revision the panel published, and that the core has
\* not passed, keeps the invariant.
LEMMA StoreSync ==
  ASSUME TypeOK, SyncInv, NEW n \in Nodes, NEW next \in SyncState, NEW c \in Change,
         StoreEntry(n, next, c), pc = "refresh", n \in todo,
         Truthful(n, next.rev, next.users), coreRev[n] <= next.rev,
         n \in LegacyPanel => next.rev = 0,
         n \notin LegacyPanel => NoRevNoUsers(next),
         c.kind = "delta" =>
           /\ c.base \in 1..panelRev[n]
           /\ c.rev = next.rev
           /\ c.rev > 0
           /\ Patch(hist[n][c.base], c.diff) = hist[n][c.rev]
  PROVE  SyncInv'
  <1>1. /\ UNCHANGED <<hist, panelRev, coreUsers, coreRev, pc, baseline>>
        /\ loaded' = loaded \cup {n}
        /\ cache' = [cache EXCEPT ![n] = next]
        /\ change' = [change EXCEPT ![n] = c]
        /\ disk' = disk \/ disk' = [disk EXCEPT ![n] = next]
        /\ tags \subseteq tags' /\ tags' \subseteq tags \cup {n}
        /\ todo' = todo \ {n}
    BY DEF StoreEntry, panelVars, coreVars
  <1>2. ASSUME NEW m \in Nodes PROVE CacheTrue(m)' /\ ChangeExact(m)'
    <2>1. CASE m = n
      BY <1>1, <2>1 DEF TypeOK, SyncInv, CacheTrue, ChangeExact, Truthful, NoRevNoUsers
    <2>2. CASE m # n
      BY <1>1, <2>2 DEF TypeOK, SyncInv, CacheTrue, ChangeExact, Truthful, NoRevNoUsers
    <2> QED
      BY <2>1, <2>2
  <1>3. ASSUME NEW m \in Nodes PROVE CoreBehind(m)'
    <2>1. CASE m = n
      BY <1>1, <2>1 DEF TypeOK, SyncInv, CoreBehind, Truthful
    <2>2. CASE m # n
      BY <1>1, <2>2 DEF TypeOK, SyncInv, CoreBehind, Truthful
    <2> QED
      BY <2>1, <2>2
  <1>4. TickSets'
    BY <1>1 DEF SyncInv, TickSets
  <1> QED
    BY <1>1, <1>2, <1>3, <1>4 DEF SyncInv

\* The entry of a node, in memory or on disk, is truthful.
LEMMA EntryTrue ==
  ASSUME TypeOK, SyncInv, NEW n \in Nodes
  PROVE  /\ Truthful(n, Entry(n).rev, Entry(n).users)
         /\ n \in LegacyPanel => Entry(n).rev = 0
         /\ n \notin LegacyPanel => NoRevNoUsers(Entry(n))
  BY DEF SyncInv, CacheTrue, Entry

\* Each answer of the panel leaves the entry at the panel's latest revision and
\* users, and records how it got there.
LEMMA RefreshSync == TypeOK /\ SyncInv /\ RefreshStep => SyncInv'
  <1> SUFFICES ASSUME TypeOK, SyncInv, RefreshStep PROVE SyncInv'
    OBVIOUS
  <1>1. ASSUME NEW k \in {"tick", "event"}, StartTick(k) PROVE SyncInv'
    <2>1. /\ UNCHANGED <<hist, panelRev, loaded, cache, disk, change, coreRev, coreUsers>>
          /\ tags' = {} /\ baseline' = {} /\ pc' = "refresh"
      BY <1>1 DEF StartTick, panelVars, cacheVars, coreVars
    <2>2. ASSUME NEW n \in Nodes PROVE CoreBehind(n)'
      BY <2>1, CoreKept
    <2>3. TickSets'
      BY <2>1 DEF TickSets
    <2> QED
      BY <2>1, <2>2, <2>3, CacheKept
  <1>2. ASSUME NEW n \in Nodes, RefreshFull(n) PROVE SyncInv'
    <2> DEFINE now == hist[n][panelRev[n]]
               next == [rev |-> panelRev[n],
                        users |-> IF now = NoUsers THEN Entry(n).users ELSE now]
               c == RuntimeUserDeltaChange(TRUE, Entry(n).rev, next.rev,
                                           UserDiff(Entry(n).users, next.users))
    <2>0. n \notin LegacyPanel /\ Entry(n).rev \in 0..MaxRev
      BY <1>2, EntryType DEF RefreshFull
    <2>1. /\ now \in Users /\ panelRev[n] \in 1..MaxRev
          /\ now = NoUsers => Entry(n).users = NoUsers
      <3>1. now \in Users /\ panelRev[n] \in 1..MaxRev
        BY Bounds DEF TypeOK
      <3>2. now = NoUsers => panelRev[n] = 1
        BY DEF SyncInv
      <3> QED
        BY <2>0, <3>1, <3>2, EntryTrue, Bounds DEF Truthful, NoRevNoUsers
    <2>2. /\ next \in SyncState /\ next.users = now /\ next.rev = panelRev[n]
          /\ next.users \in Users /\ next.rev \in 0..MaxRev
      BY <2>1, Bounds DEF SyncState
    <2>3. c \in Change
      BY <2>2, EntryType, UserDiffType, ChangeType
    <2>4. c.kind # "delta"
      BY DEF RuntimeUserDeltaChange, NoChange
    <2>5. /\ Truthful(n, next.rev, next.users) /\ coreRev[n] <= next.rev
          /\ NoRevNoUsers(next)
      BY <2>1, <2>2, Bounds DEF Truthful, SyncInv, CoreBehind, NoRevNoUsers
    <2>6. StoreEntry(n, next, c) /\ pc = "refresh" /\ n \in todo /\ n \notin LegacyPanel
      BY <1>2 DEF RefreshFull
    <2> HIDE DEF next, c
    <2> QED
      BY <2>2, <2>3, <2>4, <2>5, <2>6, StoreSync
  <1>3. ASSUME NEW n \in Nodes, RefreshDelta(n) PROVE SyncInv'
    <2> PICK extra \in SUBSET Uuid :
          LET edit == PanelEdit(n, Entry(n).rev, extra)
              next == [rev |-> panelRev[n], users |-> Patch(Entry(n).users, edit)]
              revisionOnly == edit = NoEdit /\ Entry(n).users # NoUsers
          IN  StoreEntry(n, next,
                IF revisionOnly /\ ~HasCorePlan
                  THEN NoChange
                  ELSE RuntimeUserDeltaChange(FALSE, Entry(n).rev, next.rev,
                                              UserDiff(Entry(n).users, next.users)))
      BY <1>3 DEF RefreshDelta
    <2> DEFINE edit == PanelEdit(n, Entry(n).rev, extra)
               next == [rev |-> panelRev[n], users |-> Patch(Entry(n).users, edit)]
               d == RuntimeUserDeltaChange(FALSE, Entry(n).rev, next.rev,
                                           UserDiff(Entry(n).users, next.users))
               c == IF (edit = NoEdit /\ Entry(n).users # NoUsers) /\ ~HasCorePlan
                      THEN NoChange ELSE d
               now == hist[n][panelRev[n]]
    <2>1. /\ Entry(n).rev \in 1..panelRev[n] /\ panelRev[n] \in 1..MaxRev
          /\ Entry(n).users \in Users /\ Entry(n).users = hist[n][Entry(n).rev]
          /\ now \in Users
      BY <1>3, EntryType, EntryTrue, Bounds DEF TypeOK, RefreshDelta, Truthful
    <2>2. edit \in Edit /\ Patch(Entry(n).users, edit) = now
      BY <2>1, PanelEditExact
    <2>3. /\ next \in SyncState /\ next.users = now /\ next.rev = panelRev[n]
          /\ next.users \in Users /\ next.rev \in 0..MaxRev
      BY <2>1, <2>2, Bounds DEF SyncState
    <2>4. c \in Change
      BY <2>3, EntryType, UserDiffType, ChangeType, NoChangeType
    <2>5. c.kind = "delta" =>
            /\ c.base = Entry(n).rev
            /\ c.rev = panelRev[n]
            /\ c.diff = UserDiff(Entry(n).users, now)
      BY <2>3 DEF RuntimeUserDeltaChange, NoChange
    <2>6. Patch(hist[n][Entry(n).rev], UserDiff(Entry(n).users, now)) = now
      BY <2>1, PatchUserDiff
    <2>7. /\ Truthful(n, next.rev, next.users) /\ coreRev[n] <= next.rev
          /\ NoRevNoUsers(next)
      BY <2>1, <2>3, Bounds DEF Truthful, SyncInv, CoreBehind, NoRevNoUsers
    <2>8. StoreEntry(n, next, c) /\ pc = "refresh" /\ n \in todo /\ n \notin LegacyPanel
      BY <1>3 DEF RefreshDelta
    <2>9. panelRev[n] > 0
      BY <2>1, Bounds
    <2> HIDE DEF next, c
    <2> QED
      BY <2>1, <2>3, <2>4, <2>5, <2>6, <2>7, <2>8, <2>9, StoreSync
  <1>4. ASSUME NEW n \in Nodes, RefreshList(n) PROVE SyncInv'
    <2> DEFINE now == hist[n][panelRev[n]]
               next == [Entry(n) EXCEPT !.users = IF now = NoUsers THEN @ ELSE now]
               c == RuntimeUserDeltaChange(TRUE, Entry(n).rev, Entry(n).rev,
                                           UserDiff(Entry(n).users, next.users))
    <2>1. now \in Users /\ panelRev[n] \in Nat
      BY Bounds DEF TypeOK
    <2>2. StoreEntry(n, next, c) /\ pc = "refresh" /\ n \in todo /\ n \in LegacyPanel
      BY <1>4 DEF RefreshList
    <2>3. next \in SyncState /\ next.users \in Users /\ next.rev = 0
      BY <2>1, <2>2, EntryType, EntryTrue DEF SyncState
    <2>4. c \in Change
      BY <2>3, EntryType, UserDiffType, ChangeType
    <2>5. c.kind # "delta"
      BY DEF RuntimeUserDeltaChange, NoChange
    <2>6. Truthful(n, next.rev, next.users) /\ coreRev[n] <= next.rev
      BY <2>1, <2>2, <2>3 DEF Truthful, SyncInv, CoreBehind
    <2> HIDE DEF next, c
    <2> QED
      BY <2>2, <2>3, <2>4, <2>5, <2>6, StoreSync
  <1> QED
    BY <1>1, <1>2, <1>3, <1>4 DEF RefreshStep

\* A step that touches neither the cache nor the core.
LEMMA QuietSync ==
  ASSUME TypeOK, SyncInv,
         UNCHANGED <<hist, panelRev, loaded, cache, disk, change, coreRev, coreUsers, tags>>,
         TickSets'
  PROVE  SyncInv'
  BY CoreKept, CacheKept

\* A step after which no inbound of the core has a revision.
LEMMA CoreRestarted ==
  ASSUME TypeOK, SyncInv,
         UNCHANGED <<hist, panelRev, loaded, cache, disk, change, tags>>,
         coreRev' = [n \in Nodes |-> NoRev],
         TickSets'
  PROVE  SyncInv'
  BY CoreKept, CacheKept

\* A snapshot of the cached entry on a node of this tick, or an increment from
\* the revision the core has.
LEMMA CoreTakesSync ==
  ASSUME TypeOK, SyncInv, NEW n \in Nodes,
         UNCHANGED <<hist, panelRev, loaded, cache, disk, change, tags>>,
         CoreTakes(n, cache[n].users, cache[n].rev),
         TickSets'
  PROVE  SyncInv'
  <1>1. ASSUME NEW m \in Nodes PROVE CoreBehind(m)'
    <2>1. CASE m = n
      BY <2>1 DEF TypeOK, CoreTakes, CoreBehind, SyncInv, CacheTrue, Truthful, SyncState
    <2>2. CASE m # n
      BY <2>2, CoreKept DEF CoreTakes, TypeOK
    <2> QED
      BY <2>1, <2>2
  <1> QED
    BY <1>1, CacheKept

\* apply_user_delta on a node of this tick keeps the invariant.
LEMMA CoreAppliesDeltaSync ==
  ASSUME TypeOK, SyncInv, NEW n \in tags, change[n].kind = "delta",
         CoreAppliesDelta(n),
         UNCHANGED <<hist, panelRev, loaded, cache, disk, change, tags>>,
         TickSets'
  PROVE  SyncInv'
  <1> n \in Nodes
    BY DEF TypeOK
  <1>1. CASE coreRev[n] = change[n].base
    <2>1. coreUsers[n] = hist[n][change[n].base]
      BY <1>1, Bounds DEF SyncInv, ChangeExact, CoreBehind, Truthful, TypeOK
    <2>2. Patch(coreUsers[n], change[n].diff) = cache[n].users
      BY <2>1 DEF SyncInv, ChangeExact, CacheTrue, Truthful
    <2>3. CoreTakes(n, cache[n].users, cache[n].rev)
      BY <1>1, <2>2 DEF CoreAppliesDelta, SyncInv, ChangeExact
    <2> QED
      BY <2>3, CoreTakesSync
  <1>2. CASE coreRev[n] # change[n].base
    BY <1>2, CoreTakesSync DEF CoreAppliesDelta
  <1> QED
    BY <1>1, <1>2

\* Handing the change to the core keeps the invariant, deferred or not.
LEMMA DeltaSync == TypeOK /\ SyncInv /\ DeltaStep => SyncInv'
  <1> SUFFICES ASSUME TypeOK, SyncInv, DeltaStep PROVE SyncInv'
    OBVIOUS
  <1>1. CASE RefreshDone
    <2>1. TickSets'
      BY <1>1 DEF RefreshDone, LoopTop, SyncInv, TickSets, cacheVars, tickVars
    <2> QED
      BY <1>1, <2>1, QuietSync DEF RefreshDone, panelVars, cacheVars, planVars, coreVars, tickVars
  <1>2. CASE NativeApplied
    <2>1. /\ UNCHANGED <<hist, panelRev, loaded, cache, disk, coreRev, coreUsers, tags>>
          /\ \A n \in Nodes : change'[n] = change[n] \/ change'[n] = NoChange
      BY <1>2 DEF NativeApplied, panelVars, coreVars
    <2>2. TickSets'
      BY <1>2 DEF NativeApplied, LoopTop, SyncInv, TickSets
    <2> QED
      BY <2>1, <2>2, CoreKept, CacheKept
  <1>3. CASE NativeDeferred
    <2>1. TickSets'
      BY <1>3 DEF NativeDeferred, LoopTop, SyncInv, TickSets, cacheVars, tickVars
    <2> QED
      BY <1>3, <2>1, QuietSync DEF NativeDeferred, panelVars, cacheVars, planVars, coreVars, tickVars
  <1>4. CASE Rebuild
    <2>1. TickSets'
      BY <1>4 DEF Rebuild, SyncInv, TickSets, cacheVars, tickVars
    <2> QED
      BY <1>4, <2>1, QuietSync DEF Rebuild, panelVars, cacheVars, planVars, coreVars, tickVars
  <1>5. ASSUME NEW n \in Nodes, NativeDelta(n) PROVE SyncInv'
    <2>1. TickSets'
      BY <1>5 DEF NativeDelta, SyncInv, TickSets, cacheVars
    <2>2. n \in tags /\ change[n].kind = "delta"
      BY <1>5 DEF NativeDelta, SyncInv, TickSets
    <2> QED
      BY <1>5, <2>1, <2>2, CoreAppliesDeltaSync DEF NativeDelta, panelVars, cacheVars
  <1>6. ASSUME NEW n \in Nodes, NativeMissingInbound(n) PROVE SyncInv'
    <2>1. TickSets'
      BY <1>6 DEF NativeMissingInbound, SyncInv, TickSets, cacheVars, tickVars
    <2> QED
      BY <1>6, <2>1, QuietSync DEF NativeMissingInbound, panelVars, cacheVars, planVars, coreVars, tickVars
  <1>7. ASSUME NEW n \in Nodes, NativeCallFails(n) PROVE SyncInv'
    <2>1. TickSets'
      BY <1>7 DEF NativeCallFails, SyncInv, TickSets, tickVars
    <2>2. n \in tags /\ change[n].kind = "delta"
      BY <1>7 DEF NativeCallFails, SyncInv, TickSets
    <2>3. CASE UNCHANGED coreVars
      BY <1>7, <2>1, <2>3, QuietSync DEF NativeCallFails, panelVars, cacheVars, planVars, coreVars, tickVars
    <2>4. CASE CoreAppliesDelta(n)
      BY <1>7, <2>1, <2>2, <2>4, CoreAppliesDeltaSync
         DEF NativeCallFails, panelVars, cacheVars, tickVars
    <2> QED
      BY <1>7, <2>3, <2>4 DEF NativeCallFails
  <1> QED
    BY <1>1, <1>2, <1>3, <1>4, <1>5, <1>6, <1>7 DEF DeltaStep

\* Applying the plan and sending the baseline keep the invariant.
LEMMA ApplySync == TypeOK /\ SyncInv /\ ApplyStep => SyncInv'
  <1> SUFFICES ASSUME TypeOK, SyncInv, ApplyStep PROVE SyncInv'
    OBVIOUS
  <1>1. CASE EnsureRestartUsesLatestUsers
    <2>1. TickSets'
      BY <1>1 DEF EnsureRestartUsesLatestUsers, SyncInv, TickSets, cacheVars, tickVars
    <2> QED
      BY <1>1, <2>1, QuietSync DEF EnsureRestartUsesLatestUsers, panelVars, cacheVars, planVars, coreVars, tickVars
  <1>2. CASE ApplyWithoutCore
    <2>1. TickSets'
      BY <1>2 DEF ApplyWithoutCore, SyncInv, TickSets, cacheVars, tickVars
    <2>2. coreRev' = [n \in Nodes |-> NoRev]
      BY <1>2 DEF ApplyWithoutCore, CoreGone, CoreRuns
    <2> QED
      BY <1>2, <2>1, <2>2, CoreRestarted DEF ApplyWithoutCore, panelVars, cacheVars, planVars, coreVars, tickVars
  <1>3. CASE ApplyNothingLeft
    <2>1. TickSets'
      BY <1>3 DEF ApplyNothingLeft, SyncInv, TickSets, cacheVars, tickVars
    <2> QED
      BY <1>3, <2>1, QuietSync DEF ApplyNothingLeft, panelVars, cacheVars, planVars, coreVars, tickVars
  <1>4. CASE ApplyStart
    <2>1. TickSets'
      BY <1>4 DEF ApplyStart, SyncInv, TickSets, cacheVars, tickVars
    <2>2. coreRev' = [n \in Nodes |-> NoRev]
      BY <1>4 DEF ApplyStart, CoreGone, CoreRuns
    <2> QED
      BY <1>4, <2>1, <2>2, CoreRestarted DEF ApplyStart, panelVars, cacheVars, planVars, coreVars, tickVars
  <1>5. CASE ApplyKeepRunning
    <2>1. TickSets'
      BY <1>5 DEF ApplyKeepRunning, SyncInv, TickSets, cacheVars, tickVars
    <2> QED
      BY <1>5, <2>1, QuietSync DEF ApplyKeepRunning, panelVars, cacheVars, planVars, coreVars, tickVars
  <1>6. CASE HotApplyRoutes
    <2>1. TickSets'
      BY <1>6 DEF HotApplyRoutes, SyncInv, TickSets, cacheVars, tickVars
    <2> QED
      BY <1>6, <2>1, QuietSync DEF HotApplyRoutes, panelVars, cacheVars, planVars, coreVars, tickVars
  <1>7. CASE HotApplyConfig
    <2>1. TickSets'
      BY <1>7 DEF HotApplyConfig, SyncInv, TickSets, cacheVars, tickVars
    <2>2. coreRev' = [n \in Nodes |-> NoRev]
      BY <1>7 DEF HotApplyConfig, CoreGone, CoreRuns
    <2> QED
      BY <1>7, <2>1, <2>2, CoreRestarted DEF HotApplyConfig, panelVars, cacheVars, planVars, coreVars, tickVars
  <1>8. CASE HotApplyRejected
    BY <1>8, FreshSync DEF HotApplyRejected, AgentEnds, panelVars
  <1>9. CASE TickDone
    <2>1. TickSets'
      BY <1>9 DEF TickDone, LoopTop, SyncInv, TickSets, cacheVars, tickVars
    <2> QED
      BY <1>9, <2>1, QuietSync DEF TickDone, panelVars, cacheVars, planVars, coreVars, tickVars
  <1>10. ASSUME NEW n \in Nodes, BaselineSnapshot(n) PROVE SyncInv'
    <2>1. TickSets'
      BY <1>10 DEF BaselineSnapshot, SyncInv, TickSets
    <2> QED
      BY <1>10, <2>1, CoreTakesSync DEF BaselineSnapshot, panelVars, cacheVars
  <1>11. ASSUME NEW n \in Nodes, BaselineSkips(n) PROVE SyncInv'
    <2>1. TickSets'
      BY <1>11 DEF BaselineSkips, SyncInv, TickSets, cacheVars, tickVars
    <2> QED
      BY <1>11, <2>1, QuietSync DEF BaselineSkips, panelVars, cacheVars, planVars, coreVars, tickVars
  <1>12. ASSUME NEW n \in Nodes, BaselineFails(n) PROVE SyncInv'
    <2>1. TickSets'
      BY <1>12 DEF BaselineFails, SyncInv, TickSets, cacheVars, tickVars
    <2> QED
      BY <1>12, <2>1, QuietSync DEF BaselineFails, panelVars, cacheVars, planVars, coreVars, tickVars
  <1>13. CASE ApplyStartFails
    BY <1>13, FreshSync DEF ApplyStartFails, AgentEnds, panelVars
  <1> QED
    BY <1>1, <1>2, <1>3, <1>4, <1>5, <1>6, <1>7, <1>8, <1>9, <1>10, <1>11, <1>12, <1>13
       DEF ApplyStep

\* Faults keep the invariant: what is skipped or lost gives nothing a revision.
LEMMA FaultSync == TypeOK /\ SyncInv /\ FaultStep => SyncInv'
  <1> SUFFICES ASSUME TypeOK, SyncInv, FaultStep PROVE SyncInv'
    OBVIOUS
  <1>1. CASE ForcedReload
    BY <1>1, FreshSync DEF ForcedReload, RestartLoop, panelVars, coreVars
  <1>2. CASE CoreCrash
    <2>1. TickSets'
      BY <1>2 DEF CoreCrash, SyncInv, TickSets, cacheVars, tickVars
    <2>2. coreRev' = [n \in Nodes |-> NoRev]
      BY <1>2 DEF CoreCrash, CoreGone, CoreRuns
    <2> QED
      BY <1>2, <2>1, <2>2, CoreRestarted DEF CoreCrash, panelVars, cacheVars, planVars, coreVars, tickVars
  <1>3. CASE AgentCrash
    BY <1>3, FreshSync DEF AgentCrash, AgentEnds, panelVars
  <1>4. ASSUME NEW n \in Nodes, RefreshFails(n) PROVE SyncInv'
    <2>1. CASE ContinueOnError
      <3>1. /\ UNCHANGED <<hist, panelRev, disk, change, coreRev, coreUsers, tags, pc, baseline>>
            /\ loaded' = loaded \cup {n}
            /\ cache' = [cache EXCEPT ![n] = Entry(n)]
            /\ todo' = todo \ {n}
            /\ n \in todo /\ pc = "refresh"
        BY <1>4, <2>1 DEF RefreshFails, panelVars, coreVars
      <3>2. n \notin tags
        BY <3>1 DEF SyncInv, TickSets
      <3>3. TickSets'
        BY <3>1 DEF SyncInv, TickSets
      <3>4. ASSUME NEW m \in Nodes PROVE CacheTrue(m)' /\ ChangeExact(m)'
        <4>1. CASE m \in loaded \/ m # n
          BY <3>1, <4>1 DEF TypeOK, SyncInv, CacheTrue, ChangeExact, Truthful, Entry
        <4>2. CASE m \notin loaded /\ m = n
          BY <3>1, <4>2
             DEF TypeOK, SyncInv, CacheTrue, ChangeExact, Truthful, Entry, NoChange
        <4> QED
          BY <4>1, <4>2
      <3>5. ASSUME NEW m \in Nodes PROVE CoreBehind(m)'
        BY <3>1, <3>2 DEF TypeOK, SyncInv, CoreBehind, Truthful
      <3> QED
        BY <3>1, <3>3, <3>4, <3>5 DEF SyncInv
    <2>2. CASE ~ContinueOnError
      BY <1>4, <2>2, FreshSync DEF RefreshFails, AgentEnds, panelVars
    <2> QED
      BY <2>1, <2>2
  <1> QED
    BY <1>1, <1>2, <1>3, <1>4 DEF FaultStep

\* Every step keeps the invariant.
LEMMA NextSync ==
  NoUsers \notin PanelUsers /\ TypeOK /\ SyncInv /\ [Next]_vars => SyncInv'
  <1> SUFFICES ASSUME NoUsers \notin PanelUsers, TypeOK, SyncInv, [Next]_vars
               PROVE  SyncInv'
    OBVIOUS
  <1>1. CASE Boot
    BY <1>1, FreshSync DEF Boot, panelVars, coreVars
  <1>2. CASE Reload
    BY <1>2, FreshSync DEF Reload, RestartLoop, panelVars, coreVars
  <1>3. CASE UNCHANGED vars
    <2>1. TickSets'
      BY <1>3 DEF SyncInv, TickSets, vars, cacheVars, tickVars
    <2> QED
      BY <1>3, <2>1, QuietSync DEF vars, panelVars, cacheVars, planVars, coreVars, tickVars
  <1> QED
    BY <1>1, <1>2, <1>3, PublishSync, RefreshSync, DeltaSync, ApplySync, FaultSync
       DEF Next, LoopStep

\* As long as the panel takes no node back to an empty set, the invariant holds in every
\* state of the runtime loop.
THEOREM SyncInvariant == NoUsers \notin PanelUsers => (Spec => []SyncInv)
  <1> SUFFICES ASSUME NoUsers \notin PanelUsers PROVE Spec => []SyncInv
    OBVIOUS
  <1>1. Init => TypeOK /\ SyncInv
    BY InitType, InitSync
  <1>2. TypeOK /\ SyncInv /\ [Next]_vars => (TypeOK /\ SyncInv)'
    BY NextType, NextSync
  <1> QED
    BY <1>1, <1>2, PTL DEF Spec

\* Every revision the agent or the core keeps names the users kept beside it
\* (load_users_for_node, try_apply_keli_core_rs_user_deltas).
THEOREM RevisionsNameUsers == NoUsers \notin PanelUsers => (Spec => []RevisionNamesUsers)
  <1>1. TypeOK /\ SyncInv => RevisionNamesUsers
    BY DEF SyncInv, CacheTrue, CoreBehind, Truthful, RevisionNamesUsers
  <1> QED
    BY <1>1, TypeCorrect, SyncInvariant, PTL

\* Every delta on its way to the core leads from its base revision to the
\* users of the cached entry (runtime_user_delta_change).
THEOREM PendingChangesExact == NoUsers \notin PanelUsers => (Spec => []PendingChangeIsExact)
  <1>1. ASSUME TypeOK, SyncInv PROVE PendingChangeIsExact
    <2> SUFFICES ASSUME NEW n \in tags, change[n].kind = "delta"
                 PROVE  /\ change[n].rev = cache[n].rev
                        /\ change[n].base > 0
                        /\ Patch(hist[n][change[n].base], change[n].diff) = cache[n].users
      BY DEF PendingChangeIsExact
    <2>1. n \in Nodes /\ panelRev[n] \in Nat
      BY <1>1, Bounds DEF TypeOK
    <2>2. ChangeExact(n) /\ Truthful(n, cache[n].rev, cache[n].users)
      BY <1>1, <2>1 DEF SyncInv, CacheTrue
    <2> QED
      BY <2>1, <2>2 DEF ChangeExact, Truthful
  <1> QED
    BY <1>1, TypeCorrect, SyncInvariant, PTL

\* What a step can do to the revisions of the core: nothing, forget them all,
\* or set the one of a node that takes part in the tick to its cached one.
LEMMA CoreRevisionSteps ==
  ASSUME TypeOK, SyncInv, [Next]_vars
  PROVE  \/ coreRev' = coreRev
         \/ coreRev' = [n \in Nodes |-> NoRev]
         \/ \E n \in tags : coreRev' = [coreRev EXCEPT ![n] = cache[n].rev]
  <1>1. ASSUME NEW n \in Nodes, n \in tags, change[n].kind = "delta", CoreAppliesDelta(n)
        PROVE  coreRev' = [coreRev EXCEPT ![n] = cache[n].rev]
    BY <1>1 DEF CoreAppliesDelta, CoreTakes, SyncInv, ChangeExact
  <1>2. CASE UNCHANGED coreVars
    BY <1>2 DEF coreVars
  <1>3. CASE CoreGone \/ \E c : CoreRuns(c)
    BY <1>3 DEF CoreGone, CoreRuns
  <1>4. ASSUME NEW n \in Nodes, NativeDelta(n) \/ NativeCallFails(n) PROVE
             UNCHANGED coreVars \/ (n \in tags /\ change[n].kind = "delta" /\ CoreAppliesDelta(n))
    BY <1>4 DEF NativeDelta, NativeCallFails, SyncInv, TickSets
  <1>5. ASSUME NEW n \in Nodes, BaselineSnapshot(n)
        PROVE  n \in tags /\ coreRev' = [coreRev EXCEPT ![n] = cache[n].rev]
    BY <1>5 DEF BaselineSnapshot, CoreTakes, SyncInv, TickSets
  <1>6. CASE HotApplyRoutes
    BY <1>6 DEF HotApplyRoutes
  <1>7. CASE PanelStep \/ RefreshStep
    <2>1. ASSUME NEW n \in Nodes, PanelPublish(n) \/ PanelReconfigure PROVE UNCHANGED coreVars
      BY <2>1 DEF PanelPublish, PanelReconfigure
    <2>2. ASSUME NEW k \in {"tick", "event"}, StartTick(k) PROVE UNCHANGED coreVars
      BY <2>2 DEF StartTick
    <2>3. ASSUME NEW n \in Nodes, NEW now, NEW c, StoreEntry(n, now, c)
          PROVE  UNCHANGED coreVars
      BY <2>3 DEF StoreEntry
    <2>4. ASSUME NEW n \in Nodes, RefreshFull(n) PROVE UNCHANGED coreVars
      BY <2>3, <2>4, Zenon DEF RefreshFull
    <2>5. ASSUME NEW n \in Nodes, RefreshDelta(n) PROVE UNCHANGED coreVars
      BY <2>3, <2>5, Zenon DEF RefreshDelta
    <2>6. ASSUME NEW n \in Nodes, RefreshList(n) PROVE UNCHANGED coreVars
      BY <2>3, <2>6, Zenon DEF RefreshList
    <2>7. UNCHANGED coreVars
      <3>1. PanelReconfigure => UNCHANGED coreVars
        BY DEF PanelReconfigure
      <3> QED
        BY <1>7, <2>1, <2>2, <2>4, <2>5, <2>6, <3>1, Zenon DEF PanelStep, RefreshStep
    <2> QED
      BY <1>2, <2>7
  <1>8. CASE DeltaStep
    BY <1>1, <1>2, <1>4, <1>8 DEF DeltaStep, RefreshDone, NativeApplied, NativeDeferred,
       Rebuild, NativeMissingInbound
  <1>9. CASE ApplyStep
    BY <1>2, <1>3, <1>5, <1>6, <1>9 DEF ApplyStep, EnsureRestartUsesLatestUsers,
       ApplyWithoutCore, ApplyNothingLeft, ApplyStart, ApplyKeepRunning, HotApplyConfig,
       HotApplyRejected, ApplyStartFails, AgentEnds, TickDone, BaselineSkips, BaselineFails
  <1>10. CASE FaultStep
    BY <1>2, <1>3, <1>10 DEF FaultStep, ForcedReload, RestartLoop, CoreCrash, AgentCrash,
       AgentEnds, RefreshFails
  <1>11. CASE Boot \/ Reload \/ UNCHANGED vars
    BY <1>2, <1>11 DEF Boot, Reload, RestartLoop, vars, coreVars
  <1> QED
    BY <1>7, <1>8, <1>9, <1>10, <1>11 DEF Next, LoopStep

\* The core never goes back to an older revision on an inbound that keeps one:
\* whatever the agent lost, it asks the panel before it sends a revision
\* (run_tick, try_establish_keli_core_rs_revision_baseline).
THEOREM CoreRevisionsAdvance == NoUsers \notin PanelUsers => (Spec => CoreRevisionAdvances)
  <1>1. TypeOK /\ SyncInv /\ [Next]_vars =>
          [\A n \in Nodes : coreRev[n] >= 0 /\ coreRev'[n] >= 0
                             => coreRev'[n] >= coreRev[n]]_vars
    <2> SUFFICES ASSUME TypeOK, SyncInv, [Next]_vars, NEW n \in Nodes,
                        coreRev[n] >= 0, coreRev'[n] >= 0
                 PROVE  coreRev'[n] >= coreRev[n]
      OBVIOUS
    <2>1. /\ coreRev \in [Nodes -> {NoRev} \cup 0..MaxRev]
          /\ tags \subseteq Nodes
          /\ \A m \in tags : coreRev[m] <= cache[m].rev
          /\ \A m \in Nodes : coreRev[m] \in Int
      BY Bounds DEF TypeOK, SyncInv, CoreBehind, NoRev
    <2>2. CASE coreRev' = coreRev
      BY <2>1, <2>2
    <2>3. CASE coreRev' = [m \in Nodes |-> NoRev]
      BY <2>3 DEF NoRev
    <2>4. CASE \E m \in tags : coreRev' = [coreRev EXCEPT ![m] = cache[m].rev]
      BY <2>1, <2>4
    <2> QED
      BY <2>2, <2>3, <2>4, CoreRevisionSteps
  <1> QED
    BY <1>1, TypeCorrect, SyncInvariant, PTL DEF Spec, CoreRevisionAdvances

-----------------------------------------------------------------------------
(* The users a running core serves.  An error ends the agent here: one that   *)
(* continues on errors may apply a plan that never got a node's users.        *)

\* Whatever form the panel's answer has, the entry has users afterwards just
\* when the panel has.
LEMMA RefreshedEntry ==
  ASSUME TypeOK, SyncInv, NEW n \in Nodes, NoneAhead(n),
         RefreshFull(n) \/ RefreshDelta(n) \/ RefreshList(n)
  PROVE  /\ pc = "refresh" /\ n \in todo
         /\ \E next, c : /\ StoreEntry(n, next, c)
                         /\ (next.users # NoUsers) <=> Populated(n)
  <1> DEFINE now == hist[n][panelRev[n]]
  <1>1. Entry(n).users # NoUsers => now # NoUsers
    BY DEF Entry, NoneAhead, Populated
  <1>2. Entry(n) \in SyncState
    BY EntryType
  <1>3. CASE RefreshFull(n)
    <2> DEFINE next == [rev |-> panelRev[n],
                        users |-> IF now = NoUsers THEN Entry(n).users ELSE now]
               c == RuntimeUserDeltaChange(TRUE, Entry(n).rev, next.rev,
                                           UserDiff(Entry(n).users, next.users))
    <2>1. StoreEntry(n, next, c) /\ pc = "refresh" /\ n \in todo
      BY <1>3 DEF RefreshFull
    <2>2. (next.users # NoUsers) <=> Populated(n)
      BY <1>1 DEF Populated
    <2> HIDE DEF next, c
    <2> QED
      BY <2>1, <2>2
  <1>4. CASE RefreshDelta(n)
    <2> PICK extra \in SUBSET Uuid :
          LET edit == PanelEdit(n, Entry(n).rev, extra)
              next == [rev |-> panelRev[n], users |-> Patch(Entry(n).users, edit)]
              revisionOnly == edit = NoEdit /\ Entry(n).users # NoUsers
          IN  StoreEntry(n, next,
                IF revisionOnly /\ ~HasCorePlan
                  THEN NoChange
                  ELSE RuntimeUserDeltaChange(FALSE, Entry(n).rev, next.rev,
                                              UserDiff(Entry(n).users, next.users)))
      BY <1>4 DEF RefreshDelta
    <2> DEFINE edit == PanelEdit(n, Entry(n).rev, extra)
               next == [rev |-> panelRev[n], users |-> Patch(Entry(n).users, edit)]
               c == IF (edit = NoEdit /\ Entry(n).users # NoUsers) /\ ~HasCorePlan
                      THEN NoChange
                      ELSE RuntimeUserDeltaChange(FALSE, Entry(n).rev, next.rev,
                                                  UserDiff(Entry(n).users, next.users))
    <2>1. /\ Entry(n).rev \in 1..panelRev[n]
          /\ Entry(n).users = hist[n][Entry(n).rev]
      BY <1>4, EntryType, EntryTrue, Bounds DEF TypeOK, RefreshDelta, Truthful
    <2>2. next.users = now
      BY <2>1, PanelEditExact
    <2>3. StoreEntry(n, next, c) /\ pc = "refresh" /\ n \in todo
      BY <1>4 DEF RefreshDelta
    <2>4. (next.users # NoUsers) <=> Populated(n)
      BY <2>2 DEF Populated
    <2> HIDE DEF next, c
    <2> QED
      BY <2>3, <2>4
  <1>5. CASE RefreshList(n)
    <2> DEFINE next == [Entry(n) EXCEPT !.users = IF now = NoUsers THEN @ ELSE now]
               c == RuntimeUserDeltaChange(TRUE, Entry(n).rev, Entry(n).rev,
                                           UserDiff(Entry(n).users, next.users))
    <2>1. StoreEntry(n, next, c) /\ pc = "refresh" /\ n \in todo
      BY <1>5 DEF RefreshList
    <2>2. (next.users # NoUsers) <=> Populated(n)
      BY <1>1, <1>2 DEF Populated, SyncState
    <2> HIDE DEF next, c
    <2> QED
      BY <2>1, <2>2
  <1> QED
    BY <1>3, <1>4, <1>5

\* An answer of the panel keeps the served nodes supplied.
LEMMA RefreshSupplied ==
  ASSUME TypeOK, SyncInv, SuppliedInv, NEW n \in Nodes,
         RefreshFull(n) \/ RefreshDelta(n) \/ RefreshList(n)
  PROVE  SuppliedInv'
  <1>1. PICK next, c : StoreEntry(n, next, c) /\ ((next.users # NoUsers) <=> Populated(n))
    BY RefreshedEntry DEF SuppliedInv
  <1>2. pc = "refresh" /\ n \in todo
    BY RefreshedEntry DEF SuppliedInv
  <1>3. /\ UNCHANGED <<hist, panelRev, coreUsers, planUsers, pc>>
        /\ cache' = [cache EXCEPT ![n] = next]
        /\ disk' = disk \/ disk' = [disk EXCEPT ![n] = next]
        /\ tags \subseteq tags'
        /\ next.users # NoUsers /\ planUsers[n] = NoUsers => n \in tags'
        /\ todo' = todo \ {n}
    BY <1>1 DEF StoreEntry, panelVars, planVars, coreVars
  <1>4. cache \in [Nodes -> SyncState] /\ disk \in [Nodes -> SyncState]
    BY DEF TypeOK
  <1>5. ASSUME NEW m \in Nodes PROVE (NoneAhead(m) /\ PlanFromCache(m) /\ ServedSupplied(m))'
    <2>1. NoneAhead(m) /\ PlanFromCache(m) /\ ServedSupplied(m)
      BY DEF SuppliedInv
    <2>2. CASE m = n
      BY <1>1, <1>2, <1>3, <1>4, <2>1, <2>2
         DEF NoneAhead, PlanFromCache, ServedSupplied, Supplied, Populated
    <2>3. CASE m # n
      <3>1. cache'[m] = cache[m] /\ disk'[m] = disk[m]
        BY <1>3, <1>4, <2>3
      <3> QED
        BY <1>2, <1>3, <2>1, <2>3, <3>1
           DEF NoneAhead, PlanFromCache, ServedSupplied, Supplied, Populated
    <2> QED
      BY <2>2, <2>3
  <1> QED
    BY <1>2, <1>3, <1>5 DEF SuppliedInv

\* The panel never takes the users of a node away.
LEMMA PublishSupplied ==
  ASSUME NoUsers \notin PanelUsers, TypeOK, SuppliedInv, PanelStep
  PROVE  SuppliedInv'
  <1>1. UNCHANGED <<coreUsers, planUsers, cache, disk, pc, todo, tags, outcome>>
    BY DEF PanelStep, PanelReconfigure, PanelPublish, cacheVars, planVars, coreVars, tickVars
  <1>2. ASSUME NEW m \in Nodes, Populated(m) PROVE Populated(m)'
    <2>1. CASE PanelReconfigure
      BY <1>2, <2>1 DEF PanelReconfigure, Populated
    <2>2. ASSUME NEW n \in Nodes, PanelPublish(n) PROVE Populated(m)'
      <3>1. PICK us \in PanelUsers : hist' = [hist EXCEPT ![n][panelRev[n] + 1] = us]
        BY <2>2 DEF PanelPublish
      <3>2. /\ panelRev' = [panelRev EXCEPT ![n] = @ + 1]
            /\ panelRev[n] + 1 \in 1..MaxRev
        BY <2>2, Bounds DEF PanelPublish, TypeOK
      <3>3. CASE m = n
        BY <3>1, <3>2, <3>3, Bounds DEF TypeOK, Populated
      <3>4. CASE m # n
        BY <1>2, <3>1, <3>2, <3>4, Bounds DEF TypeOK, Populated
      <3> QED
        BY <3>3, <3>4
    <2> QED
      BY <2>1, <2>2 DEF PanelStep
  <1>3. ASSUME NEW m \in Nodes PROVE (NoneAhead(m) /\ PlanFromCache(m) /\ ServedSupplied(m))'
    BY <1>1, <1>2 DEF SuppliedInv, NoneAhead, PlanFromCache, ServedSupplied, Supplied
  <1> QED
    BY <1>1, <1>3 DEF SuppliedInv

\* A step of the tick after the refresh moves users from the cache to the plan
\* and from either to the core: only the supply of the core is left to show.
LEMMA PhaseSupplied ==
  ASSUME SuppliedInv, UNCHANGED <<hist, panelRev, cache, disk>>, pc' # "deferred",
         \A m \in Nodes : planUsers'[m] # NoUsers => cache[m].users # NoUsers,
         \A m \in Nodes :
           coreUsers'[m] # NoUsers => coreUsers[m] # NoUsers \/ cache[m].users # NoUsers,
         \A m \in Nodes : ServedSupplied(m)'
  PROVE  SuppliedInv'
  BY DEF SuppliedInv, NoneAhead, PlanFromCache, Populated

\* The memory of the loop starts over, with no tick under way.
LEMMA FreshSupplied ==
  ASSUME SuppliedInv, FreshLoop, UNCHANGED <<hist, panelRev, disk>>,
         UNCHANGED coreUsers \/ CoreGone,
         pc' \in {"top", "down"}
  PROVE  SuppliedInv'
  <1>1. ASSUME NEW m \in Nodes PROVE (NoneAhead(m) /\ PlanFromCache(m) /\ ServedSupplied(m))'
    BY DEF SuppliedInv, FreshLoop, CoreGone, Unloaded, NoneAhead, PlanFromCache,
           ServedSupplied, Populated
  <1> QED
    BY <1>1 DEF SuppliedInv

\* An increment that fits, or the snapshot in its place, leaves the core with
\* the cached users.
LEMMA DeltaGivesCached ==
  ASSUME TypeOK, SyncInv, NEW n \in tags, change[n].kind = "delta", CoreAppliesDelta(n)
  PROVE  CoreTakes(n, cache[n].users, cache[n].rev)
  <1> n \in Nodes
    BY DEF TypeOK
  <1>1. CASE coreRev[n] = change[n].base
    <2>1. coreUsers[n] = hist[n][change[n].base]
      BY <1>1, Bounds DEF SyncInv, ChangeExact, CoreBehind, Truthful, TypeOK
    <2>2. Patch(coreUsers[n], change[n].diff) = cache[n].users
      BY <2>1 DEF SyncInv, ChangeExact, CacheTrue, Truthful
    <2> QED
      BY <1>1, <2>2 DEF CoreAppliesDelta, SyncInv, ChangeExact
  <1>2. CASE coreRev[n] # change[n].base
    BY <1>2 DEF CoreAppliesDelta
  <1> QED
    BY <1>1, <1>2

\* The core takes the cached users of a node of this tick.
LEMMA TakesSupplied ==
  ASSUME TypeOK, SuppliedInv, NEW n \in Nodes, CoreTakes(n, cache[n].users, cache[n].rev),
         UNCHANGED <<hist, panelRev, cache, disk, planUsers, tags>>,
         \/ pc = "native" /\ n \in tags /\ pc' \in {"native", "rebuild"}
         \/ pc = "baseline" /\ pc' = "baseline"
  PROVE  SuppliedInv'
  <1>1. /\ coreUsers'[n] = cache[n].users
        /\ \A m \in Nodes : m # n => coreUsers'[m] = coreUsers[m]
    BY DEF CoreTakes, TypeOK
  <1>2. ASSUME NEW m \in Nodes PROVE ServedSupplied(m)'
    BY <1>1 DEF SuppliedInv, ServedSupplied, Supplied
  <1>3. \A m \in Nodes : planUsers'[m] # NoUsers => cache[m].users # NoUsers
    BY DEF SuppliedInv, PlanFromCache
  <1> QED
    BY <1>1, <1>2, <1>3, PhaseSupplied

\* Handing the change to the core, or rebuilding the plan, keeps the supply.
LEMMA DeltaSupplied ==
  ASSUME ~ContinueOnError, TypeOK, SyncInv, SuppliedInv, DeltaStep
  PROVE  SuppliedInv'
  <1>0. \A m \in Nodes : planUsers[m] # NoUsers => cache[m].users # NoUsers
    BY DEF SuppliedInv, PlanFromCache
  <1>1. CASE RefreshDone
    <2>1. /\ UNCHANGED <<hist, panelRev, cache, disk, planUsers, coreUsers, tags, outcome>>
          /\ pc = "refresh" /\ todo = {}
          /\ pc' \in {"top", "idle", "ensure", "native", "rebuild"}
          /\ pc' = "ensure" => tags = {}
      BY <1>1 DEF RefreshDone, LoopTop, panelVars, cacheVars, planVars, coreVars
    <2>2. ASSUME NEW m \in Nodes PROVE ServedSupplied(m)'
      BY <2>1 DEF SuppliedInv, ServedSupplied, Supplied
    <2> QED
      BY <1>0, <2>1, <2>2, PhaseSupplied
  <1>2. CASE NativeApplied
    <2>1. /\ UNCHANGED <<hist, panelRev, cache, disk, planUsers, coreUsers>>
          /\ pc = "native" /\ outcome' = "applied"
          /\ pc' \in {"top", "idle", "ensure"}
      BY <1>2 DEF NativeApplied, LoopTop, panelVars, planVars, coreVars
    <2>2. ASSUME NEW m \in Nodes PROVE ServedSupplied(m)'
      BY <2>1 DEF SuppliedInv, ServedSupplied, Supplied
    <2> QED
      BY <1>0, <2>1, <2>2, PhaseSupplied
  <1>3. CASE NativeDeferred
    BY <1>3 DEF NativeDeferred, SuppliedInv
  <1>4. CASE Rebuild
    <2>1. /\ UNCHANGED <<hist, panelRev, cache, disk, coreUsers>>
          /\ pc = "rebuild" /\ pc' = "ensure"
          /\ \A m \in Nodes : planUsers'[m] = IF m \in tags THEN cache[m].users
                                                            ELSE LatestUsers(m)
      BY <1>4 DEF Rebuild, panelVars, cacheVars, coreVars
    <2>2. \A m \in Nodes : planUsers'[m] # NoUsers => cache[m].users # NoUsers
      BY <1>0, <2>1 DEF LatestUsers
    <2>3. ASSUME NEW m \in Nodes PROVE ServedSupplied(m)'
      BY <2>1 DEF SuppliedInv, ServedSupplied, Supplied, LatestUsers
    <2> QED
      BY <2>1, <2>2, <2>3, PhaseSupplied
  <1>5. ASSUME NEW n \in Nodes, NativeDelta(n) PROVE SuppliedInv'
    <2>1. n \in tags /\ change[n].kind = "delta"
      BY <1>5 DEF NativeDelta, SyncInv, TickSets
    <2>2. CoreTakes(n, cache[n].users, cache[n].rev)
      BY <1>5, <2>1, DeltaGivesCached DEF NativeDelta
    <2> QED
      BY <1>5, <2>1, <2>2, TakesSupplied DEF NativeDelta, panelVars, cacheVars, planVars
  <1>6. ASSUME NEW n \in Nodes, NativeMissingInbound(n) PROVE SuppliedInv'
    <2>1. /\ UNCHANGED <<hist, panelRev, cache, disk, planUsers, coreUsers, tags>>
          /\ pc = "native" /\ pc' = "rebuild"
      BY <1>6 DEF NativeMissingInbound, panelVars, cacheVars, planVars, coreVars, tickVars
    <2>2. ASSUME NEW m \in Nodes PROVE ServedSupplied(m)'
      BY <2>1 DEF SuppliedInv, ServedSupplied, Supplied
    <2> QED
      BY <1>0, <2>1, <2>2, PhaseSupplied
  <1>7. ASSUME NEW n \in Nodes, NativeCallFails(n) PROVE SuppliedInv'
    <2>1. /\ n \in tags /\ change[n].kind = "delta"
          /\ UNCHANGED <<hist, panelRev, cache, disk, planUsers, tags>>
          /\ pc = "native" /\ pc' = "rebuild"
      BY <1>7 DEF NativeCallFails, SyncInv, TickSets, panelVars, cacheVars, planVars, tickVars
    <2>2. CASE UNCHANGED coreVars
      <3>1. ASSUME NEW m \in Nodes PROVE ServedSupplied(m)'
        BY <2>1, <2>2 DEF SuppliedInv, ServedSupplied, Supplied, coreVars
      <3> QED
        BY <1>0, <2>1, <2>2, <3>1, PhaseSupplied DEF coreVars
    <2>3. CASE CoreAppliesDelta(n)
      BY <2>1, <2>3, DeltaGivesCached, TakesSupplied
    <2> QED
      BY <1>7, <2>2, <2>3 DEF NativeCallFails
  <1> QED
    BY <1>1, <1>2, <1>3, <1>4, <1>5, <1>6, <1>7 DEF DeltaStep

\* A step after which the core serves the plan's users, or none.
LEMMA CoreFromPlanSupplied ==
  ASSUME SuppliedInv, UNCHANGED <<hist, panelRev, cache, disk, planUsers>>,
         \A m \in Nodes : coreUsers'[m] # NoUsers => planUsers[m] # NoUsers,
         pc' # "deferred", pc' # "refresh", pc' \in {"native", "rebuild"} => UNCHANGED tags
  PROVE  SuppliedInv'
  <1>0. \A m \in Nodes : planUsers[m] # NoUsers => cache[m].users # NoUsers
    BY DEF SuppliedInv, PlanFromCache
  <1>1. ASSUME NEW m \in Nodes PROVE ServedSupplied(m)'
    BY <1>0 DEF ServedSupplied, Supplied
  <1> QED
    BY <1>0, <1>1, PhaseSupplied

\* What is rendered for a node are the users of the plan.
LEMMA RenderedUsers ==
  ASSUME NEW skipped, NEW m \in Nodes
  PROVE  /\ Rendered(skipped).users[m] # NoUsers => planUsers[m] # NoUsers
         /\ planUsers[m] # NoUsers =>
              Rendered({}).users[m] = planUsers[m] /\ m \in Rendered({}).inb
  BY DEF Rendered, PlanInbounds

\* Applying the plan and sending the baseline keep the supply.
LEMMA ApplySupplied ==
  ASSUME TypeOK, SyncInv, SuppliedInv, ApplyStep
  PROVE  SuppliedInv'
  <1>0. \A m \in Nodes : planUsers[m] # NoUsers => cache[m].users # NoUsers
    BY DEF SuppliedInv, PlanFromCache
  <1>1. CASE EnsureRestartUsesLatestUsers
    <2>1. /\ UNCHANGED <<hist, panelRev, cache, disk, coreUsers, outcome>>
          /\ pc = "ensure" /\ pc' = "apply"
          /\ \A m \in Nodes : planUsers'[m] \in {planUsers[m], LatestUsers(m)}
      BY <1>1 DEF EnsureRestartUsesLatestUsers, panelVars, cacheVars, coreVars, tickVars
    <2>2. \A m \in Nodes : planUsers'[m] # NoUsers => cache[m].users # NoUsers
      BY <1>0, <2>1 DEF LatestUsers
    <2>3. ASSUME NEW m \in Nodes PROVE ServedSupplied(m)'
      BY <2>1 DEF SuppliedInv, ServedSupplied, LatestUsers
    <2> QED
      BY <2>1, <2>2, <2>3, PhaseSupplied
  <1>2. ASSUME UNCHANGED <<hist, panelRev, cache, disk, planUsers, coreUsers>>,
               pc \in {"apply", "baseline"}, pc' \in {"baseline", "top", "idle"}
        PROVE  SuppliedInv'
    <2>1. ASSUME NEW m \in Nodes PROVE ServedSupplied(m)'
      BY <1>2 DEF SuppliedInv, ServedSupplied
    <2> QED
      BY <1>0, <1>2, <2>1, PhaseSupplied
  <1>3. CASE ApplyNothingLeft \/ ApplyKeepRunning \/ HotApplyRoutes \/ TickDone
    BY <1>2, <1>3 DEF ApplyNothingLeft, ApplyKeepRunning, HotApplyRoutes, HotApplyNeeded,
       TickDone, LoopTop, panelVars, cacheVars, planVars, coreVars
  <1>4. ASSUME NEW n \in Nodes, BaselineSkips(n) \/ BaselineFails(n) PROVE SuppliedInv'
    BY <1>2, <1>4 DEF BaselineSkips, BaselineFails, panelVars, cacheVars, planVars, coreVars
  <1>5. ASSUME NEW n \in Nodes, BaselineSnapshot(n) PROVE SuppliedInv'
    BY <1>5, TakesSupplied DEF BaselineSnapshot, panelVars, cacheVars, planVars
  <1>6. CASE ApplyWithoutCore
    BY <1>6, CoreFromPlanSupplied DEF ApplyWithoutCore, CoreGone, panelVars, cacheVars, planVars
  <1>7. CASE ApplyStart \/ HotApplyConfig
    <2>1. PICK skipped : CoreRuns(Rendered(skipped))
      BY <1>7 DEF ApplyStart, HotApplyConfig
    <2>2. \A m \in Nodes : coreUsers'[m] # NoUsers => planUsers[m] # NoUsers
      BY <2>1, RenderedUsers DEF CoreRuns
    <2> QED
      BY <1>7, <2>2, CoreFromPlanSupplied
         DEF ApplyStart, HotApplyConfig, panelVars, cacheVars, planVars
  <1>8. CASE ApplyStartFails \/ HotApplyRejected
    BY <1>8, FreshSupplied DEF ApplyStartFails, HotApplyRejected, AgentEnds, panelVars
  <1> QED
    BY <1>1, <1>3, <1>4, <1>5, <1>6, <1>7, <1>8 DEF ApplyStep

\* So does every step of an agent that an error ends.
LEMMA NextSupplied ==
  NoUsers \notin PanelUsers /\ ~ContinueOnError /\ TypeOK /\ SyncInv /\ SuppliedInv /\ [Next]_vars
    => SuppliedInv'
  <1> SUFFICES ASSUME NoUsers \notin PanelUsers, ~ContinueOnError, TypeOK, SyncInv,
                      SuppliedInv, [Next]_vars
               PROVE  SuppliedInv'
    OBVIOUS
  <1>1. CASE Boot \/ Reload \/ ForcedReload
    BY <1>1, FreshSupplied DEF Boot, Reload, ForcedReload, RestartLoop, panelVars, coreVars
  <1>2. CASE AgentCrash \/ \E n \in Nodes : RefreshFails(n)
    BY <1>2, FreshSupplied DEF AgentCrash, RefreshFails, AgentEnds, panelVars
  <1>3. CASE CoreCrash
    <2>1. /\ UNCHANGED <<hist, panelRev, cache, disk, planUsers, tags, pc>>
          /\ \A m \in Nodes : coreUsers'[m] = NoUsers
      BY <1>3 DEF CoreCrash, CoreGone, panelVars, cacheVars, planVars, tickVars
    <2>2. ASSUME NEW m \in Nodes PROVE (NoneAhead(m) /\ PlanFromCache(m) /\ ServedSupplied(m))'
      BY <2>1 DEF SuppliedInv, NoneAhead, PlanFromCache, ServedSupplied, Populated
    <2> QED
      BY <2>1, <2>2 DEF SuppliedInv
  <1>4. CASE RefreshStep
    <2>1. ASSUME NEW k \in {"tick", "event"}, StartTick(k) PROVE SuppliedInv'
      <3>1. /\ UNCHANGED <<hist, panelRev, cache, disk, planUsers, coreUsers>>
            /\ todo' = Nodes /\ pc' = "refresh"
        BY <2>1 DEF StartTick, panelVars, cacheVars, planVars, coreVars
      <3>2. ASSUME NEW m \in Nodes
            PROVE  (NoneAhead(m) /\ PlanFromCache(m) /\ ServedSupplied(m))'
        BY <3>1 DEF SuppliedInv, NoneAhead, PlanFromCache, ServedSupplied, Populated
      <3> QED
        BY <3>1, <3>2 DEF SuppliedInv
    <2> QED
      BY <1>4, <2>1, RefreshSupplied DEF RefreshStep
  <1>5. CASE UNCHANGED vars
    <2>1. ASSUME NEW m \in Nodes PROVE (NoneAhead(m) /\ PlanFromCache(m) /\ ServedSupplied(m))'
      BY <1>5 DEF vars, panelVars, cacheVars, planVars, coreVars, tickVars,
         SuppliedInv, NoneAhead, PlanFromCache, ServedSupplied, Supplied, Populated
    <2> QED
      BY <1>5, <2>1 DEF vars, SuppliedInv
  <1> QED
    BY <1>1, <1>2, <1>3, <1>4, <1>5, PublishSupplied, DeltaSupplied, ApplySupplied
       DEF Next, LoopStep, FaultStep

\* What a step does to the users of a served inbound of a core that stays up.
LEMMA StepKeepsServed ==
  ASSUME NoUsers \notin PanelUsers, ~ContinueOnError, TypeOK, SyncInv, SuppliedInv,
         [Next]_vars, NEW n \in Nodes,
         coreUp, coreUp', n \in coreIn, coreUsers[n] # NoUsers
  PROVE  n \in coreIn' /\ coreUsers'[n] # NoUsers
  <1>1. CASE UNCHANGED <<coreIn, coreUsers>>
    BY <1>1
  <1>2. ~CoreGone /\ ~AgentEnds
    BY DEF CoreGone, AgentEnds
  <1>3. ASSUME NEW m \in Nodes, CoreTakes(m, cache[m].users, cache[m].rev),
               pc \in {"native", "baseline"}
        PROVE  n \in coreIn' /\ coreUsers'[n] # NoUsers
    <2>1. cache[n].users # NoUsers
      BY <1>3 DEF SuppliedInv, ServedSupplied, Supplied
    <2> QED
      BY <1>3, <2>1 DEF CoreTakes, TypeOK
  <1>4. CASE PanelStep \/ Boot \/ Reload \/ ForcedReload \/ UNCHANGED vars
    BY <1>1, <1>4 DEF PanelStep, PanelPublish, PanelReconfigure, Boot, Reload, ForcedReload,
       RestartLoop, vars, coreVars
  <1>5. CASE CoreCrash \/ AgentCrash \/ \E m \in Nodes : RefreshFails(m)
    BY <1>2, <1>5 DEF CoreCrash, AgentCrash, RefreshFails
  <1>6. CASE RefreshStep
    <2>1. ASSUME NEW k \in {"tick", "event"}, StartTick(k) PROVE UNCHANGED coreVars
      BY <2>1 DEF StartTick
    <2>2. ASSUME NEW m \in Nodes, RefreshFull(m) \/ RefreshDelta(m) \/ RefreshList(m)
          PROVE  UNCHANGED coreVars
      <3>1. PICK next, c : StoreEntry(m, next, c)
        BY <2>2, RefreshedEntry DEF SuppliedInv
      <3> QED
        BY <3>1 DEF StoreEntry
    <2> QED
      BY <1>1, <1>6, <2>1, <2>2 DEF RefreshStep, coreVars
  <1>7. CASE DeltaStep
    <2>1. ASSUME NEW m \in Nodes, NativeDelta(m) \/ NativeCallFails(m), CoreAppliesDelta(m)
          PROVE  n \in coreIn' /\ coreUsers'[n] # NoUsers
      <3>1. m \in tags /\ change[m].kind = "delta" /\ pc = "native"
        BY <2>1 DEF NativeDelta, NativeCallFails, SyncInv, TickSets
      <3> QED
        BY <1>3, <2>1, <3>1, DeltaGivesCached
    <2> QED
      BY <1>1, <1>7, <2>1 DEF DeltaStep, RefreshDone, NativeApplied, NativeDeferred, Rebuild,
         NativeDelta, NativeMissingInbound, NativeCallFails, coreVars
  <1>8. CASE HotApplyConfig
    <2>1. planUsers[n] # NoUsers
      BY <1>8 DEF HotApplyConfig, HotApplyNeeded, SuppliedInv, ServedSupplied
    <2> QED
      BY <1>8, <2>1, RenderedUsers DEF HotApplyConfig, CoreRuns
  <1>9. CASE ApplyStep /\ ~HotApplyConfig
    BY <1>1, <1>2, <1>3, <1>9 DEF ApplyStep, EnsureRestartUsesLatestUsers, ApplyWithoutCore,
       ApplyNothingLeft, ApplyStart, ApplyStartFails, ApplyKeepRunning, HotApplyRoutes,
       HotApplyRejected, TickDone, BaselineSnapshot, BaselineSkips, BaselineFails, coreVars
  <1> QED
    BY <1>4, <1>5, <1>6, <1>7, <1>8, <1>9 DEF Next, LoopStep, FaultStep

\* An agent that an error ends never takes the users of a served inbound from a
\* core that stays up, whatever the faults and the reloads (run_tick,
\* apply_core_process).
THEOREM ServedUsersStay ==
  NoUsers \notin PanelUsers /\ ~ContinueOnError => (Spec => ServedUsersKept)
  <1> SUFFICES ASSUME NoUsers \notin PanelUsers, ~ContinueOnError
               PROVE  Spec => ServedUsersKept
    OBVIOUS
  <1>1. Init => SuppliedInv
    BY DEF Init, SuppliedInv, NoneAhead, PlanFromCache, ServedSupplied, Unloaded
  <1>2. TypeOK /\ SyncInv /\ SuppliedInv /\ [Next]_vars => SuppliedInv'
    BY NextSupplied
  <1>3. TypeOK /\ SyncInv /\ SuppliedInv /\ [Next]_vars =>
          [\A n \in Nodes :
             coreUp /\ coreUp' /\ n \in coreIn /\ coreUsers[n] # NoUsers
               => n \in coreIn' /\ coreUsers'[n] # NoUsers]_vars
    BY StepKeepsServed
  <1> QED
    BY <1>1, <1>2, <1>3, TypeCorrect, SyncInvariant, PTL DEF Spec, ServedUsersKept

-----------------------------------------------------------------------------
(* The promise of UserFeed.  What the core serves comes from the cache or    *)
(* from the plan, and the plan may be older than the cache: so every place   *)
(* that keeps users has to hold a published set, with or without a revision. *)

\* A set the panel published for n, as a whole, or nobody.
Known(n, us) == us \in PublishedSets(n) \cup {NoUsers}

FeedInv ==
  \A n \in Nodes :
    /\ Known(n, cache[n].users)
    /\ Known(n, disk[n].users)
    /\ Known(n, planUsers[n])
    /\ Known(n, coreUsers[n])

\* What a step of the agent may do to the users it keeps ...
MemoryFed ==
  /\ UNCHANGED <<hist, panelRev>>
  /\ \A n \in Nodes : /\ Known(n, cache'[n].users)
                      /\ Known(n, disk'[n].users)
                      /\ Known(n, planUsers'[n])

\* ... and to the ones the core serves.
CoreFed ==
  \/ UNCHANGED <<coreUp, coreUsers>>
  \/ CoreGone
  \/ coreUp' = TRUE /\ \A n \in Nodes : Known(n, coreUsers'[n])

\* The panel's latest users are among the published ones.
LEMMA LatestPublished ==
  ASSUME TypeOK, NEW n \in Nodes
  PROVE  hist[n][panelRev[n]] \in PublishedSets(n)
  <1>1. panelRev[n] \in 1..panelRev[n]
    BY Bounds DEF TypeOK
  <1> QED
    BY <1>1 DEF PublishedSets

\* Publishing adds one set, for one node.
LEMMA PublishAddsOne ==
  ASSUME TypeOK, NEW n \in Nodes, PanelPublish(n)
  PROVE  \E us \in Users : \A m \in Nodes :
           PublishedSets(m)' = IF m = n THEN PublishedSets(m) \cup {us} ELSE PublishedSets(m)
  <1>1. PICK us \in PanelUsers : hist' = [hist EXCEPT ![n][panelRev[n] + 1] = us]
    BY DEF PanelPublish
  <1>2. /\ panelRev' = [panelRev EXCEPT ![n] = @ + 1]
        /\ panelRev[n] \in Nat
        /\ panelRev[n] + 1 \in 1..MaxRev
    BY Bounds DEF PanelPublish, TypeOK
  <1>3. /\ panelRev'[n] = panelRev[n] + 1
        /\ hist'[n][panelRev[n] + 1] = us
        /\ \A r \in 1..panelRev[n] : hist'[n][r] = hist[n][r]
    BY <1>1, <1>2, Bounds DEF TypeOK
  <1>4. PublishedSets(n)' = PublishedSets(n) \cup {us}
    <2>1. 1..(panelRev[n] + 1) = (1..panelRev[n]) \cup {panelRev[n] + 1}
      BY <1>2
    <2> QED
      BY <1>3, <2>1 DEF PublishedSets
  <1>5. ASSUME NEW m \in Nodes, m # n PROVE PublishedSets(m)' = PublishedSets(m)
    <2>1. panelRev'[m] = panelRev[m] /\ hist'[m] = hist[m]
      BY <1>1, <1>2, <1>5 DEF TypeOK
    <2> QED
      BY <2>1 DEF PublishedSets
  <1> QED
    BY <1>4, <1>5, Bounds

\* No other step changes what is published.
LEMMA PublishedKept ==
  ASSUME UNCHANGED <<hist, panelRev>>
  PROVE  \A m \in Nodes : PublishedSets(m)' = PublishedSets(m)
  BY DEF PublishedSets

\* An answer of the panel leaves the entry with a published set, or with the
\* users it had.
LEMMA RefreshedKnown ==
  ASSUME TypeOK, SyncInv, FeedInv, NEW n \in Nodes,
         RefreshFull(n) \/ RefreshDelta(n) \/ RefreshList(n)
  PROVE  \E next, c : StoreEntry(n, next, c) /\ Known(n, next.users)
  <1> DEFINE now == hist[n][panelRev[n]]
  <1>1. Known(n, now)
    BY LatestPublished DEF Known
  <1>2. Known(n, Entry(n).users)
    BY DEF FeedInv, Entry
  <1> HIDE DEF now
  <1>3. CASE RefreshFull(n)
    <2> DEFINE next == [rev |-> panelRev[n],
                        users |-> IF now = NoUsers THEN Entry(n).users ELSE now]
               c == RuntimeUserDeltaChange(TRUE, Entry(n).rev, next.rev,
                                           UserDiff(Entry(n).users, next.users))
    <2>1. StoreEntry(n, next, c)
      BY <1>3 DEF RefreshFull, now
    <2>2. next.users = IF now = NoUsers THEN Entry(n).users ELSE now
      OBVIOUS
    <2> HIDE DEF next, c
    <2> QED
      BY <1>1, <1>2, <2>1, <2>2
  <1>4. CASE RefreshDelta(n)
    <2> PICK extra \in SUBSET Uuid :
          LET edit == PanelEdit(n, Entry(n).rev, extra)
              next == [rev |-> panelRev[n], users |-> Patch(Entry(n).users, edit)]
              revisionOnly == edit = NoEdit /\ Entry(n).users # NoUsers
          IN  StoreEntry(n, next,
                IF revisionOnly /\ ~HasCorePlan
                  THEN NoChange
                  ELSE RuntimeUserDeltaChange(FALSE, Entry(n).rev, next.rev,
                                              UserDiff(Entry(n).users, next.users)))
      BY <1>4 DEF RefreshDelta
    <2> DEFINE edit == PanelEdit(n, Entry(n).rev, extra)
               next == [rev |-> panelRev[n], users |-> Patch(Entry(n).users, edit)]
               c == IF (edit = NoEdit /\ Entry(n).users # NoUsers) /\ ~HasCorePlan
                      THEN NoChange
                      ELSE RuntimeUserDeltaChange(FALSE, Entry(n).rev, next.rev,
                                                  UserDiff(Entry(n).users, next.users))
    <2>1. /\ Entry(n).rev \in 1..panelRev[n]
          /\ Entry(n).users = hist[n][Entry(n).rev]
      BY <1>4, EntryType, EntryTrue, Bounds DEF TypeOK, RefreshDelta, Truthful
    <2>2. next.users = now
      BY <2>1, PanelEditExact DEF now
    <2>3. StoreEntry(n, next, c)
      OBVIOUS
    <2> HIDE DEF next, c
    <2> QED
      BY <1>1, <2>2, <2>3
  <1>5. CASE RefreshList(n)
    <2> DEFINE next == [Entry(n) EXCEPT !.users = IF now = NoUsers THEN @ ELSE now]
               c == RuntimeUserDeltaChange(TRUE, Entry(n).rev, Entry(n).rev,
                                           UserDiff(Entry(n).users, next.users))
    <2>1. StoreEntry(n, next, c)
      BY <1>5 DEF RefreshList, now
    <2>2. next.users = IF now = NoUsers THEN Entry(n).users ELSE now
      BY EntryType DEF SyncState
    <2> HIDE DEF next, c
    <2> QED
      BY <1>1, <1>2, <2>1, <2>2
  <1> QED
    BY <1>3, <1>4, <1>5

\* Refreshing puts known users into the cache and on disk.
LEMMA RefreshFed ==
  ASSUME TypeOK, SyncInv, FeedInv, RefreshStep
  PROVE  MemoryFed /\ CoreFed
  <1>1. ASSUME NEW k \in {"tick", "event"}, StartTick(k) PROVE MemoryFed /\ CoreFed
    BY <1>1 DEF StartTick, FeedInv, MemoryFed, CoreFed, panelVars, cacheVars, planVars, coreVars
  <1>2. ASSUME NEW n \in Nodes, RefreshFull(n) \/ RefreshDelta(n) \/ RefreshList(n)
        PROVE  MemoryFed /\ CoreFed
    <2>1. PICK next, c : StoreEntry(n, next, c) /\ Known(n, next.users)
      BY <1>2, RefreshedKnown
    <2>2. /\ UNCHANGED <<hist, panelRev, coreUp, coreUsers, planUsers>>
          /\ cache' = [cache EXCEPT ![n] = next]
          /\ disk' = disk \/ disk' = [disk EXCEPT ![n] = next]
      BY <2>1 DEF StoreEntry, panelVars, planVars, coreVars
    <2>3. cache \in [Nodes -> SyncState] /\ disk \in [Nodes -> SyncState]
      BY DEF TypeOK
    <2>4. ASSUME NEW m \in Nodes
          PROVE  cache'[m] \in {cache[m], next} /\ disk'[m] \in {disk[m], next}
                 /\ (m # n => cache'[m] = cache[m] /\ disk'[m] = disk[m])
      BY <2>2, <2>3
    <2> QED
      BY <2>1, <2>2, <2>4 DEF FeedInv, MemoryFed, CoreFed
  <1> QED
    BY <1>1, <1>2 DEF RefreshStep

\* The core takes the cached users of a node.
LEMMA TakesFed ==
  ASSUME TypeOK, FeedInv, coreUp, NEW n \in Nodes,
         CoreTakes(n, cache[n].users, cache[n].rev)
  PROVE  CoreFed
  <1>1. \A m \in Nodes : coreUsers'[m] = IF m = n THEN cache[n].users ELSE coreUsers[m]
    BY DEF CoreTakes, TypeOK
  <1>2. coreUp' = TRUE
    BY DEF CoreTakes, TypeOK
  <1> QED
    BY <1>1, <1>2 DEF FeedInv, CoreFed

\* Handing the change to the core, or rebuilding the plan, moves known users.
LEMMA DeltaFed ==
  ASSUME TypeOK, SyncInv, FeedInv, DeltaStep
  PROVE  MemoryFed /\ CoreFed
  <1>1. CASE RefreshDone \/ NativeApplied \/ NativeDeferred
    BY <1>1 DEF RefreshDone, NativeApplied, NativeDeferred, FeedInv, MemoryFed, CoreFed,
       panelVars, cacheVars, planVars, coreVars
  <1>2. CASE Rebuild
    <2>1. /\ UNCHANGED <<hist, panelRev, cache, disk, coreUp, coreUsers>>
          /\ \A m \in Nodes : planUsers'[m] \in {cache[m].users, planUsers[m]}
      BY <1>2 DEF Rebuild, LatestUsers, panelVars, cacheVars, coreVars
    <2> QED
      BY <2>1 DEF FeedInv, MemoryFed, CoreFed
  <1>3. ASSUME NEW n \in Nodes, NativeMissingInbound(n) PROVE MemoryFed /\ CoreFed
    BY <1>3 DEF NativeMissingInbound, FeedInv, MemoryFed, CoreFed, panelVars, cacheVars,
       planVars, coreVars
  <1>4. ASSUME NEW n \in Nodes, NativeDelta(n) \/ NativeCallFails(n) PROVE MemoryFed /\ CoreFed
    <2>1. n \in tags /\ change[n].kind = "delta"
      BY <1>4 DEF NativeDelta, NativeCallFails, SyncInv, TickSets
    <2>2. MemoryFed
      BY <1>4 DEF NativeDelta, NativeCallFails, FeedInv, MemoryFed, panelVars, cacheVars, planVars
    <2>3. CASE UNCHANGED coreVars
      BY <2>2, <2>3 DEF CoreFed, coreVars
    <2>4. CASE CoreAppliesDelta(n)
      <3>1. coreUp /\ CoreTakes(n, cache[n].users, cache[n].rev)
        BY <2>1, <2>4, DeltaGivesCached DEF CoreAppliesDelta
      <3> QED
        BY <2>2, <3>1, TakesFed
    <2> QED
      BY <1>4, <2>3, <2>4 DEF NativeDelta, NativeCallFails
  <1> QED
    BY <1>1, <1>2, <1>3, <1>4 DEF DeltaStep

\* A loop that starts over holds nobody, and the core is as it was, or gone.
LEMMA FreshFed ==
  ASSUME FeedInv, FreshLoop, UNCHANGED <<hist, panelRev, disk>>,
         UNCHANGED <<coreUp, coreUsers>> \/ CoreGone
  PROVE  MemoryFed /\ CoreFed
  <1>1. \A m \in Nodes : Known(m, cache'[m].users) /\ Known(m, planUsers'[m])
    BY DEF FreshLoop, Unloaded, Known
  <1> QED
    BY <1>1 DEF FeedInv, MemoryFed, CoreFed

\* Applying the plan and sending the baseline move known users.
LEMMA ApplyFed ==
  ASSUME TypeOK, FeedInv, ApplyStep
  PROVE  MemoryFed /\ CoreFed
  <1>1. CASE EnsureRestartUsesLatestUsers
    <2>1. /\ UNCHANGED <<hist, panelRev, cache, disk, coreUp, coreUsers>>
          /\ \A m \in Nodes : planUsers'[m] \in {cache[m].users, planUsers[m]}
      BY <1>1 DEF EnsureRestartUsesLatestUsers, LatestUsers, panelVars, cacheVars, coreVars
    <2> QED
      BY <2>1 DEF FeedInv, MemoryFed, CoreFed
  <1>2. CASE ApplyNothingLeft \/ ApplyKeepRunning \/ HotApplyRoutes \/ TickDone
    BY <1>2 DEF ApplyNothingLeft, ApplyKeepRunning, HotApplyRoutes, TickDone, FeedInv,
       MemoryFed, CoreFed, panelVars, cacheVars, planVars, coreVars
  <1>3. ASSUME NEW n \in Nodes, BaselineSkips(n) \/ BaselineFails(n) PROVE MemoryFed /\ CoreFed
    BY <1>3 DEF BaselineSkips, BaselineFails, FeedInv, MemoryFed, CoreFed, panelVars,
       cacheVars, planVars, coreVars
  <1>4. ASSUME NEW n \in Nodes, BaselineSnapshot(n) PROVE MemoryFed /\ CoreFed
    <2>1. MemoryFed
      BY <1>4 DEF BaselineSnapshot, FeedInv, MemoryFed, panelVars, cacheVars, planVars
    <2> QED
      BY <1>4, <2>1, TakesFed DEF BaselineSnapshot
  <1>5. CASE ApplyWithoutCore
    BY <1>5 DEF ApplyWithoutCore, FeedInv, MemoryFed, CoreFed, panelVars, cacheVars, planVars
  <1>6. CASE ApplyStart \/ HotApplyConfig
    <2>1. MemoryFed
      BY <1>6 DEF ApplyStart, HotApplyConfig, FeedInv, MemoryFed, panelVars, cacheVars, planVars
    <2>2. PICK skipped : CoreRuns(Rendered(skipped))
      BY <1>6 DEF ApplyStart, HotApplyConfig
    <2>3. coreUp' = TRUE /\ \A m \in Nodes : coreUsers'[m] \in {planUsers[m], NoUsers}
      BY <2>2 DEF CoreRuns, Rendered
    <2>4. \A m \in Nodes : Known(m, coreUsers'[m])
      BY <2>3 DEF FeedInv, Known
    <2> QED
      BY <2>1, <2>3, <2>4 DEF CoreFed
  <1>7. CASE ApplyStartFails \/ HotApplyRejected
    BY <1>7, FreshFed DEF ApplyStartFails, HotApplyRejected, AgentEnds, panelVars
  <1> QED
    BY <1>1, <1>2, <1>3, <1>4, <1>5, <1>6, <1>7 DEF ApplyStep

\* Crashes, reloads and failed requests move known users, or drop them.
LEMMA FaultFed ==
  ASSUME TypeOK, FeedInv, Boot \/ Reload \/ FaultStep
  PROVE  MemoryFed /\ CoreFed
  <1>1. CASE Boot \/ Reload \/ ForcedReload
    BY <1>1, FreshFed DEF Boot, Reload, ForcedReload, RestartLoop, panelVars, coreVars
  <1>2. CASE AgentCrash
    BY <1>2, FreshFed DEF AgentCrash, AgentEnds, panelVars
  <1>3. CASE CoreCrash
    BY <1>3 DEF CoreCrash, FeedInv, MemoryFed, CoreFed, panelVars, cacheVars, planVars
  <1>4. ASSUME NEW n \in Nodes, RefreshFails(n) PROVE MemoryFed /\ CoreFed
    <2>1. CASE ContinueOnError
      <3>1. /\ UNCHANGED <<hist, panelRev, disk, planUsers, coreUp, coreUsers>>
            /\ cache' = [cache EXCEPT ![n] = Entry(n)]
        BY <1>4, <2>1 DEF RefreshFails, panelVars, planVars, coreVars
      <3>2. \A m \in Nodes : cache'[m] \in {cache[m], disk[m]}
        BY <3>1 DEF TypeOK, Entry
      <3> QED
        BY <3>1, <3>2 DEF FeedInv, MemoryFed, CoreFed
    <2>2. CASE ~ContinueOnError
      BY <1>4, <2>2, FreshFed DEF RefreshFails, AgentEnds, panelVars
    <2> QED
      BY <2>1, <2>2
  <1> QED
    BY <1>1, <1>2, <1>3, <1>4 DEF FaultStep

\* Every step but a publication moves known users, or drops them.
LEMMA StepFed ==
  ASSUME TypeOK, SyncInv, FeedInv, [Next]_vars, ~(\E n \in Nodes : PanelPublish(n))
  PROVE  MemoryFed /\ CoreFed
  <1>1. CASE PanelReconfigure \/ UNCHANGED vars
    BY <1>1 DEF PanelReconfigure, FeedInv, MemoryFed, CoreFed, vars, panelVars, cacheVars,
       planVars, coreVars
  <1> QED
    BY <1>1, RefreshFed, DeltaFed, ApplyFed, FaultFed DEF Next, PanelStep, LoopStep

\* Published users stay known when more are published.
LEMMA PublishKeepsFeed ==
  ASSUME TypeOK, FeedInv, NEW n \in Nodes, PanelPublish(n)
  PROVE  FeedInv'
  <1>1. \A m \in Nodes : PublishedSets(m) \subseteq PublishedSets(m)'
    BY PublishAddsOne
  <1>2. UNCHANGED <<cache, disk, planUsers, coreUsers>>
    BY DEF PanelPublish, cacheVars, planVars, coreVars
  <1> QED
    BY <1>1, <1>2 DEF FeedInv, Known

\* Every place keeps known users.
LEMMA NextFeed ==
  ASSUME TypeOK, SyncInv, FeedInv, [Next]_vars
  PROVE  FeedInv'
  <1>1. CASE \E n \in Nodes : PanelPublish(n)
    BY <1>1, PublishKeepsFeed
  <1>2. CASE ~(\E n \in Nodes : PanelPublish(n))
    <2>1. MemoryFed /\ CoreFed
      BY <1>2, StepFed
    <2>2. \A m \in Nodes : PublishedSets(m)' = PublishedSets(m)
      BY <2>1, PublishedKept DEF MemoryFed
    <2>3. \A m \in Nodes : Known(m, coreUsers'[m])
      BY <2>1 DEF CoreFed, CoreGone, FeedInv, Known
    <2> QED
      BY <2>1, <2>2, <2>3 DEF MemoryFed, FeedInv, Known
  <1> QED
    BY <1>1, <1>2

\* A fresh install is an initial state of the feed.
LEMMA InitFeed == Init => Feed!Init /\ FeedInv
  <1> SUFFICES ASSUME Init PROVE Feed!Init /\ FeedInv
    OBVIOUS
  <1>1. ASSUME NEW n \in Nodes PROVE PublishedSets(n) \in {{us} : us \in Users}
    <2>1. PICK us \in PanelUsers \cup {NoUsers} : hist[n] = [r \in 1..MaxRev |-> us]
      BY DEF Init
    <2>2. panelRev[n] = 1 /\ 1 \in 1..MaxRev
      BY Bounds DEF Init
    <2>3. us \in Users
      BY Bounds, NoUsersType
    <2>4. 1..1 = {1}
      OBVIOUS
    <2>5. PublishedSets(n) = {us}
      BY <2>1, <2>2, <2>4 DEF PublishedSets
    <2> QED
      BY <2>3, <2>5
  <1>2. Feed!Init
    BY <1>1 DEF Feed!Init, Init
  <1>3. FeedInv
    BY DEF Init, FeedInv, Known, Unloaded
  <1> QED
    BY <1>2, <1>3

\* Every step of the agent, the panel and the faults is a step of the feed, or
\* changes nothing of it.
LEMMA StepFeeds ==
  ASSUME TypeOK, TypeOK', SyncInv, FeedInv, [Next]_vars
  PROVE  [Feed!Next]_(Feed!vars)
  <1> DEFINE published == [n \in Nodes |-> PublishedSets(n)]
  <1>1. ASSUME NEW n \in Nodes, PanelPublish(n) PROVE Feed!Publish(n)
    <2>1. PICK us \in Users : \A m \in Nodes :
            PublishedSets(m)' = IF m = n THEN PublishedSets(m) \cup {us} ELSE PublishedSets(m)
      BY <1>1, PublishAddsOne
    <2>2. published' = [published EXCEPT ![n] = @ \cup {us}]
      BY <2>1
    <2>3. UNCHANGED <<coreUp, coreUsers>>
      BY <1>1 DEF PanelPublish, coreVars
    <2> QED
      BY <2>2, <2>3 DEF Feed!Publish
  <1>2. CASE ~(\E n \in Nodes : PanelPublish(n))
    <2>1. MemoryFed /\ CoreFed
      BY <1>2, StepFed
    <2>2. published' = published
      BY <2>1, PublishedKept DEF MemoryFed
    <2>3. CASE UNCHANGED <<coreUp, coreUsers>>
      BY <2>2, <2>3 DEF Feed!vars
    <2>4. CASE CoreGone
      BY <2>2, <2>4 DEF CoreGone, Feed!Next, Feed!Stop
    <2>5. CASE coreUp' = TRUE /\ \A n \in Nodes : Known(n, coreUsers'[n])
      <3>1. coreUsers' \in [Nodes -> Users]
        BY DEF TypeOK
      <3>2. \A n \in Nodes : coreUsers'[n] \in published[n] \cup {NoUsers}
        BY <2>5 DEF Known
      <3> QED
        BY <2>2, <2>5, <3>1, <3>2 DEF Feed!Next, Feed!Serve
    <2> QED
      BY <2>1, <2>3, <2>4, <2>5 DEF CoreFed
  <1> QED
    BY <1>1, <1>2 DEF Feed!Next

\* As long as the panel takes no node back to an empty set, the agent keeps the promise of
\* UserFeed: the core serves, on each node, a set the panel published for it,
\* as a whole, or nobody (try_apply_keli_core_rs_user_deltas,
\* latest_users_by_node_tag_for_core_plan).
THEOREM FeedKept == NoUsers \notin PanelUsers => (Spec => ImplementsFeed)
  <1> SUFFICES ASSUME NoUsers \notin PanelUsers PROVE Spec => ImplementsFeed
    OBVIOUS
  <1>1. Init => Feed!Init /\ FeedInv
    BY InitFeed
  <1>2. TypeOK /\ SyncInv /\ FeedInv /\ [Next]_vars => FeedInv'
    BY NextFeed
  <1>3. TypeOK /\ TypeOK' /\ SyncInv /\ FeedInv /\ [Next]_vars => [Feed!Next]_(Feed!vars)
    BY StepFeeds
  <1> QED
    BY <1>1, <1>2, <1>3, TypeCorrect, SyncInvariant, PTL DEF Spec, ImplementsFeed, Feed!Spec

=============================================================================
