---------------------------- MODULE Upgrade_proofs ----------------------------
(***************************************************************************)
(* Theorems about Upgrade, for any releases, commands and faults: types,   *)
(* what the panel is told, and what a script that had the install          *)
(* directory for itself leaves behind.                                     *)
(***************************************************************************)
EXTENDS Upgrade, TLAPS

\* No directory is the missing one.
LEMMA AbsentIsNoDirectory == Absent \notin Directory
  <1>1. ASSUME Absent \in Directory PROVE FALSE
    <2>1. DOMAIN Absent = {"bin", "mark"}  BY <1>1 DEF Directory
    <2>2. DOMAIN Absent = {"bin"}  BY DEF Absent
    <2> QED  BY <2>1, <2>2
  <1> QED  BY <1>1

\* A binary or a marker is replaced in a directory.
LEMMA DirectoryTypes ==
  ASSUME NEW d \in Directory, NEW c \in Components, NEW v \in Binary
  PROVE  /\ WithBinary(d, c, v) \in Directory
         /\ [d EXCEPT !.mark[c] = v] \in Directory
  BY DEF Directory, WithBinary

LEMMA InitialDirectories == Empty \in Directory /\ Installed(First) \in Directory
  BY ConstantsAssumption DEF Empty, Installed, Directory, Binary

LEMMA JobParts == ASSUME NEW j \in Jobs PROVE j[1] \in Components /\ j[2] \in Versions
  BY DEF Jobs

LEMMA StatusTypes == NoStatus \in Status
  BY ConstantsAssumption DEF NoStatus, Status, Jobs, Components

\* The script of j goes to l, whether or not its unit is left behind.
To(j, l) == pc' = [pc EXCEPT ![j] = l]

LEMMA GoesTo == \A j, l : (Goto(j, l) => To(j, l)) /\ (ExitError(j) => To(j, "idle"))
  BY DEF Goto, ExitError, To

---------------------------------------------------------------------------
(* Types                                                                   *)

LEMMA InitTypes == Init => TypeOK
  <1> SUFFICES ASSUME Init PROVE TypeOK  OBVIOUS
  <1>1. want \in Command
    BY ConstantsAssumption DEF Init, Command, NoStatus, Jobs, Components
  <1>2. /\ held \in BOOLEAN /\ locked \in BOOLEAN /\ clean \in BOOLEAN /\ cut \in BOOLEAN
        /\ smooth \in BOOLEAN
    BY Zenon DEF Init
  <1>4. agent \in Versions \cup {Down} /\ status \in Status /\ faults \in 0..MaxFaults
    BY ConstantsAssumption, StatusTypes DEF Init
  <1>3. /\ pc \in [Jobs -> ScriptPcs] /\ backup \in [Jobs -> Directory \cup {Absent}]
        /\ before \in Directory \cup {Absent} /\ dir \in Directory \cup {Absent}
        /\ stuck \in SUBSET Jobs
    BY InitialDirectories DEF Init, ScriptPcs
  <1> QED
    BY <1>1, <1>2, <1>3, <1>4, Zenon DEF TypeOK

\* The agent that a restart brings up.
LEMMA RestartTypes ==
  ASSUME TypeOK, RestartService
  PROVE  /\ agent' \in Versions \cup {Down} /\ status' \in Status
         /\ held' \in BOOLEAN /\ locked' = locked
  <1>1. dir # Absent => dir.bin["node"] \in Binary
    BY DEF TypeOK, Directory, Components
  <1>2. held' \in BOOLEAN
    BY Zenon DEF RestartService
  <1> QED  BY <1>1, <1>2, StatusTypes DEF RestartService, Binary

LEMMA NextTypes == TypeOK /\ [Next]_vars => TypeOK'
  <1> SUFFICES ASSUME TypeOK, [Next]_vars PROVE TypeOK'  OBVIOUS
  <1> USE DEF service, observers
  <1>a. ASSUME NEW j \in Jobs PROVE j[1] \in Components /\ j[2] \in Binary
    BY <1>a, JobParts DEF Binary
  <1>1. ASSUME Request PROVE TypeOK'
    <2>1. want.job \in Jobs /\ [Answered EXCEPT !.state = "succeeded"] \in Status
          /\ [Answered EXCEPT !.state = "failed"] \in Status /\ Answered \in Status
      BY DEF TypeOK, Command, Status, Answered
    <2>2. CASE ~Launch
      BY <1>1, <2>1, <2>2 DEF Request, TypeOK
    <2>3. CASE Launch
      <3>1. pc' \in [Jobs -> ScriptPcs] /\ stuck' \in SUBSET Jobs
        BY <2>1, <2>3 DEF Launch, Goto, TypeOK, ScriptPcs
      <3>2. backup' \in [Jobs -> Directory \cup {Absent}]
        BY <2>1, <2>3 DEF Launch, TypeOK
      <3>3. faults' \in 0..MaxFaults
        BY <2>3, ConstantsAssumption DEF Launch, Fault, TypeOK
      <3>5. smooth' \in BOOLEAN /\ clean' \in BOOLEAN /\ cut' \in BOOLEAN
        <4>1. CASE UNCHANGED <<clean, cut, smooth>>
          BY <4>1 DEF TypeOK
        <4>2. CASE /\ clean' = (Running = {}) /\ cut' = FALSE
                   /\ smooth' = (smooth /\ Running = {})
          BY <4>2, Zenon DEF TypeOK
        <4> QED  BY <2>3, <4>1, <4>2 DEF Launch
      <3>4. before' \in Directory \cup {Absent} /\ status' \in Status
        <4>1. before' \in {before, dir}  BY <2>3 DEF Launch
        <4>2. status' \in {Answered, [Answered EXCEPT !.state = "failed"]}
          BY <2>3 DEF Launch
        <4> QED  BY <2>1, <4>1, <4>2 DEF TypeOK
      <3> QED  BY <1>1, <3>1, <3>2, <3>3, <3>4, <3>5 DEF Request, TypeOK
    <2> QED  BY <2>2, <2>3
  <1>2. ASSUME Reboot PROVE TypeOK'
    <2>1. faults' \in 0..MaxFaults
      BY <1>2, ConstantsAssumption DEF Reboot, Fault, TypeOK
    <2>2. clean' \in BOOLEAN /\ smooth' \in BOOLEAN
      BY <1>2, Zenon DEF Reboot
    <2> QED  BY <1>2, <2>1, <2>2, RestartTypes DEF Reboot, TypeOK, ScriptPcs
  <1>3. ASSUME NEW j \in Jobs, PanelWants(j) PROVE TypeOK'
    <2>1. want' \in Command
      BY <1>3, ConstantsAssumption DEF PanelWants, TypeOK, Command
    <2> QED  BY <1>3, <2>1 DEF PanelWants, TypeOK
  <1>4. ASSUME NEW j \in Jobs, Backup(j) PROVE TypeOK'
    <2>1. faults' \in 0..MaxFaults
      BY <1>4, ConstantsAssumption DEF Backup, Fault, TypeOK
    <2> QED  BY <1>4, <2>1 DEF Backup, Goto, ExitError, TypeOK, ScriptPcs
  <1>5. ASSUME NEW j \in Jobs, MakeDir(j) PROVE TypeOK'
    BY <1>5, InitialDirectories DEF MakeDir, Goto, ExitError, TypeOK, ScriptPcs
  <1>6. ASSUME NEW j \in Jobs, Fetch(j) PROVE TypeOK'
    <2>1. faults' \in 0..MaxFaults
      BY <1>6, ConstantsAssumption DEF Fetch, Fault, TypeOK
    <2> QED  BY <1>6, <2>1 DEF Fetch, Goto, GiveUp, ExitError, TypeOK, ScriptPcs
  <1>7. ASSUME NEW j \in Jobs, Copy(j) PROVE TypeOK'
    <2>1. faults' \in 0..MaxFaults
      BY <1>7, ConstantsAssumption DEF Copy, Fault, TypeOK
    <2>5. cut' \in BOOLEAN /\ smooth' \in BOOLEAN
      BY <1>7 DEF Copy, TypeOK
    <2>2. ASSUME NEW v \in Binary, dir # Absent
          PROVE  WithBinary(dir, j[1], v) \in Directory
      BY <2>2, <1>a, DirectoryTypes DEF TypeOK
    <2>3. dir' \in Directory \cup {Absent}
      <3>1. ASSUME NEW v \in Versions PROVE v \in Binary  BY DEF Binary
      <3>2. None \in Binary  BY DEF Binary
      <3>3. \/ dir' = dir
            \/ dir # Absent /\ dir' = WithBinary(dir, j[1], j[2])
            \/ dir # Absent /\ \E v \in Versions : dir' = WithBinary(dir, j[1], v)
            \/ dir # Absent /\ dir' = WithBinary(dir, j[1], None)
        BY <1>7 DEF Copy
      <3> QED  BY <3>1, <3>2, <3>3, <2>2, <1>a DEF TypeOK
    <2>4. pc' \in [Jobs -> ScriptPcs] /\ stuck' \in SUBSET Jobs
      BY <1>7 DEF Copy, Goto, ExitError, TypeOK, ScriptPcs
    <2> QED  BY <1>7, <2>1, <2>3, <2>4, <2>5 DEF Copy, TypeOK
  <1>8. ASSUME NEW j \in Jobs, Verify(j) PROVE TypeOK'
    BY <1>8 DEF Verify, Goto, GiveUp, ExitError, TypeOK, ScriptPcs
  <1>9. ASSUME NEW j \in Jobs, Mark(j) PROVE TypeOK'
    <2>1. dir' \in Directory \cup {Absent}
      <3>1. CASE dir = Absent
        BY <1>9, <3>1 DEF Mark
      <3>2. CASE dir \in Directory
        <4>1. [dir EXCEPT !.mark[j[1]] = j[2]] \in Directory
          BY <1>a, <3>2, DirectoryTypes
        <4> QED  BY <1>9, <3>2, <4>1, AbsentIsNoDirectory DEF Mark
      <3> QED  BY <3>1, <3>2 DEF TypeOK
    <2> QED  BY <1>9, <2>1 DEF Mark, Goto, ExitError, TypeOK, ScriptPcs
  <1>10. ASSUME NEW j \in Jobs, Restart(j) PROVE TypeOK'
    BY <1>10, RestartTypes DEF Restart, Goto, ExitError, TypeOK, ScriptPcs
  <1>11. ASSUME NEW j \in Jobs, Remove(j) PROVE TypeOK'
    BY <1>11 DEF Remove, Goto, ExitError, TypeOK, ScriptPcs
  <1>12. ASSUME NEW j \in Jobs, Move(j) PROVE TypeOK'
    BY <1>12 DEF Move, Goto, ExitError, TypeOK, ScriptPcs
  <1>13. ASSUME NEW j \in Jobs, Revive(j) PROVE TypeOK'
    BY <1>13, RestartTypes DEF Revive, Goto, ExitError, TypeOK, ScriptPcs
  <1>14. CASE UNCHANGED vars
    BY <1>14 DEF vars, TypeOK
  <1>15. ASSUME Respawn PROVE TypeOK'
    BY <1>15, RestartTypes DEF Respawn, TypeOK
  <1> QED
    BY <1>15, <1>1, <1>2, <1>3, <1>4, <1>5, <1>6, <1>7, <1>8, <1>9, <1>10, <1>11, <1>12, <1>13, <1>14
       DEF Next, ScriptStep

\* Every variable of the upgrade keeps its type.
THEOREM UpgradeTypeCorrect == Spec => []TypeOK
  BY InitTypes, NextTypes, PTL DEF Spec

---------------------------------------------------------------------------
(* What the panel is told                                                  *)

\* A restart forgets the status together with the release it spoke of.
LEMMA NextSucceeded ==
  ASSUME TypeOK, SucceededIsRunning, [Next]_vars
  PROVE  SucceededIsRunning'
  <1> USE DEF service
  <1>1. ASSUME Request PROVE SucceededIsRunning'
    <2>1. CASE want.job[1] = "node" /\ agent = want.job[2]
      <3>1. want.job = <<want.job[1], want.job[2]>>
        BY DEF TypeOK, Command, Jobs
      <3>2. status' = [Answered EXCEPT !.state = "succeeded"] /\ agent' = agent
        BY <1>1, <2>1 DEF Request
      <3>3. status'.job = want.job
        BY <3>2 DEF Answered
      <3> QED  BY <2>1, <3>1, <3>2, <3>3 DEF SucceededIsRunning
    <2>2. CASE ~(want.job[1] = "node" /\ agent = want.job[2])
      <3>1. Launch  BY <1>1, <2>2 DEF Request
      <3>2. status'.state # "succeeded"
        BY <3>1 DEF Launch, Answered
      <3> QED  BY <3>2 DEF SucceededIsRunning
    <2> QED  BY <2>1, <2>2
  <1>2. ASSUME RestartService PROVE SucceededIsRunning'
    BY <1>2 DEF RestartService, NoStatus, SucceededIsRunning
  <1>3. ASSUME UNCHANGED <<status, agent>> PROVE SucceededIsRunning'
    BY <1>3 DEF SucceededIsRunning
  <1>4. ASSUME NEW j \in Jobs, PanelWants(j) \/ ScriptStep(j)
        PROVE  RestartService \/ UNCHANGED <<status, agent>>
    BY <1>4 DEF PanelWants, ScriptStep, Backup, MakeDir, Fetch, Copy, Verify, Mark, Restart,
               Remove, Move, Revive
  <1> QED  BY <1>1, <1>2, <1>3, <1>4 DEF Next, vars, Reboot, Respawn

\* The panel is told "succeeded" only of the release the agent runs (request),
\* whichever scripts restart the service in between.
THEOREM SucceededTruthful == Spec => []SucceededIsRunning
  <1>1. Init => SucceededIsRunning
    BY DEF Init, NoStatus, SucceededIsRunning
  <1> QED  BY <1>1, NextSucceeded, UpgradeTypeCorrect, PTL DEF Spec

---------------------------------------------------------------------------
(* What a script leaves behind                                             *)

\* The last binary written is the one that is there, with its marker it is the
\* release.
LEMMA BinaryThere ==
  ASSUME NEW d \in Directory, NEW c \in Components, NEW v \in Binary
  PROVE  WithBinary(d, c, v).bin[c] = v
  BY DEF Directory, WithBinary

LEMMA Marked ==
  ASSUME NEW d \in Directory, NEW j \in Jobs
  PROVE  [WithBinary(d, j[1], j[2]) EXCEPT !.mark[j[1]] = j[2]] = Replaced(d, j)
  BY DEF Directory, WithBinary, Replaced

\* The parts of the invariant that hold of two scripts that meet as well.
Recoverable ==
  /\ before \in Directory
  /\ dir = Absent /\ agent # Down => \E j \in Jobs : pc[j] = "move"
  /\ \A j \in Jobs : pc[j] \in {"remove", "move"} => backup[j] # Absent

\* The parts that speak of a script that is alone.
Undisturbed == AllOrNothing /\ (clean => \A j \in Running : Running = {j} /\ Alone(j))

\* The launch that systemd-run accepts.
Launched ==
  /\ want.job \notin Running
  /\ Goto(want.job, "backup")
  /\ backup' = [backup EXCEPT ![want.job] = Absent]
  /\ before' = IF Running = {} THEN dir ELSE before
  /\ clean' = (Running = {})

LEMMA InitInstall == Init => InstallInv
  BY InitialDirectories, AbsentIsNoDirectory
     DEF Init, InstallInv, AllOrNothing, Running

\* The script of j goes from one place to another, the others stay.
LEMMA OneMoves ==
  ASSUME TypeOK, NEW j \in Jobs, NEW l \in ScriptPcs, To(j, l)
  PROVE  /\ pc'[j] = l
         /\ \A k \in Jobs : k # j => pc'[k] = pc[k]
  BY DEF TypeOK, To

LEMMA NextRecoverable ==
  ASSUME TypeOK, InstallInv, [Next]_vars
  PROVE  Recoverable'
  <1> USE DEF service, observers, Goto, ExitError, To
  <1>0. Recoverable  BY DEF InstallInv, Recoverable
  <1>a. ASSUME NEW j \in Jobs, NEW l \in ScriptPcs \ {"remove", "move"}, To(j, l), pc[j] # "move",
               UNCHANGED before, \A k \in Jobs : k # j => backup'[k] = backup[k],
               dir' = Absent /\ agent' # Down => dir = Absent /\ agent # Down
        PROVE  Recoverable'
    BY <1>0, <1>a, OneMoves DEF Recoverable
  <1>b. ASSUME UNCHANGED <<before, dir, agent, pc, backup>> PROVE Recoverable'
    BY <1>0, <1>b DEF Recoverable
  <1>1. ASSUME Request PROVE Recoverable'
    <2>1. CASE Launched
      <3>1. UNCHANGED <<dir, agent>> /\ agent # Down  BY <1>1 DEF Request
      <3>2. want.job \in Jobs /\ pc[want.job] = "idle"
        BY <2>1 DEF Launched, Running, TypeOK, Command
      <3>3. before' \in Directory
        <4>1. CASE Running = {}
          <5>1. \A j \in Jobs : pc[j] = "idle"  BY <4>1 DEF Running
          <5>2. dir # Absent  BY <1>0, <3>1, <5>1 DEF Recoverable
          <5> QED  BY <2>1, <4>1, <5>2 DEF Launched, TypeOK
        <4>2. CASE Running # {}
          BY <1>0, <2>1, <4>2 DEF Launched, Recoverable
        <4> QED  BY <4>1, <4>2
      <3>4. \A k \in Jobs : k # want.job => pc'[k] = pc[k] /\ backup'[k] = backup[k]
        BY <2>1, <3>2 DEF Launched, To, TypeOK
      <3>5. pc'[want.job] = "backup"
        BY <2>1, <3>2 DEF Launched, To, TypeOK
      <3> QED  BY <1>0, <3>1, <3>2, <3>3, <3>4, <3>5 DEF Recoverable
    <2>2. CASE ~Launched
      <3>1. UNCHANGED <<before, dir, agent, pc, backup>>
        BY <1>1, <2>2 DEF Request, Launch, Launched
      <3> QED  BY <1>b, <3>1
    <2> QED  BY <2>1, <2>2
  <1>2. ASSUME Reboot PROVE Recoverable'
    BY <1>0, <1>2 DEF Recoverable, Reboot, RestartService, Running
  <1>3. ASSUME NEW j \in Jobs, PanelWants(j) PROVE Recoverable'
    BY <1>3, <1>b DEF PanelWants
  <1>4. ASSUME NEW j \in Jobs, Backup(j) PROVE Recoverable'
    <2>1. \E l \in {"mkdir", "idle"} : To(j, l)  BY <1>4 DEF Backup
    <2>2. \A k \in Jobs : k # j => backup'[k] = backup[k]  BY <1>4 DEF Backup, TypeOK
    <2> QED  BY <1>4, <1>a, <2>1, <2>2 DEF Backup, ScriptPcs
  <1>5. ASSUME NEW j \in Jobs, MakeDir(j) PROVE Recoverable'
    BY <1>5, <1>a, InitialDirectories, AbsentIsNoDirectory DEF MakeDir, ScriptPcs
  <1>6. ASSUME NEW j \in Jobs, Fetch(j) PROVE Recoverable'
    <2>1. CASE backup[j] # Absent /\ To(j, "remove")
      BY <1>0, <1>6, <2>1, OneMoves DEF Fetch, Recoverable, ScriptPcs
    <2>2. CASE \E l \in {"copy", "idle"} : To(j, l)
      BY <1>6, <1>a, <2>2 DEF Fetch, ScriptPcs
    <2> QED  BY <1>6, <2>1, <2>2 DEF Fetch, GiveUp
  <1>7. ASSUME NEW j \in Jobs, Copy(j) PROVE Recoverable'
    <2>1. \E l \in {"verify", "idle"} : To(j, l)  BY <1>7 DEF Copy
    <2>2. dir' = Absent => dir = Absent
      <3>1. dir \in Directory =>
              /\ \A v \in Binary : WithBinary(dir, j[1], v) \in Directory
              /\ j[2] \in Binary /\ None \in Binary /\ Versions \subseteq Binary
        BY JobParts, DirectoryTypes DEF Binary
      <3>2. \/ dir' = dir
            \/ dir # Absent /\ dir' = WithBinary(dir, j[1], j[2])
            \/ dir # Absent /\ \E v \in Versions : dir' = WithBinary(dir, j[1], v)
            \/ dir # Absent /\ dir' = WithBinary(dir, j[1], None)
        BY <1>7 DEF Copy
      <3> QED  BY <3>1, <3>2, AbsentIsNoDirectory DEF TypeOK
    <2> QED  BY <1>7, <1>a, <2>1, <2>2 DEF Copy, ScriptPcs
  <1>8. ASSUME NEW j \in Jobs, Verify(j) PROVE Recoverable'
    <2>1. CASE backup[j] # Absent /\ To(j, "remove")
      BY <1>0, <1>8, <2>1, OneMoves DEF Verify, Recoverable, ScriptPcs
    <2>2. CASE \E l \in {"mark", "idle"} : To(j, l)
      BY <1>8, <1>a, <2>2 DEF Verify, ScriptPcs
    <2> QED  BY <1>8, <2>1, <2>2 DEF Verify, GiveUp
  <1>9. ASSUME NEW j \in Jobs, Mark(j) PROVE Recoverable'
    <2>1. \E l \in {"restart", "idle"} : To(j, l)  BY <1>9 DEF Mark
    <2>2. dir' = Absent => dir = Absent
      <3>1. dir \in Directory => [dir EXCEPT !.mark[j[1]] = j[2]] \in Directory
        BY JobParts, DirectoryTypes DEF Binary
      <3> QED  BY <1>9, <3>1, AbsentIsNoDirectory DEF Mark, TypeOK
    <2> QED  BY <1>9, <1>a, <2>1, <2>2 DEF Mark, ScriptPcs
  <1>10. ASSUME NEW j \in Jobs, Restart(j) PROVE Recoverable'
    <2>1. dir' = Absent => agent' = Down  BY <1>10 DEF Restart, RestartService
    <2>2. \A k \in Jobs : k # j => backup'[k] = backup[k]  BY <1>10 DEF Restart, TypeOK
    <2> QED  BY <1>10, <1>a, <2>1, <2>2 DEF Restart, ScriptPcs
  <1>11. ASSUME NEW j \in Jobs, Remove(j) PROVE Recoverable'
    BY <1>0, <1>11, OneMoves DEF Remove, Recoverable, ScriptPcs
  <1>12. ASSUME NEW j \in Jobs, Move(j) PROVE Recoverable'
    <2>1. dir' # Absent  BY <1>0, <1>12 DEF Move, Recoverable
    <2>2. \A k \in Jobs : k # j => backup'[k] = backup[k]  BY <1>12 DEF Move, TypeOK
    <2> QED  BY <1>0, <1>12, <2>1, <2>2, OneMoves DEF Move, Recoverable, ScriptPcs
  <1>13. ASSUME NEW j \in Jobs, Revive(j) PROVE Recoverable'
    <2>1. dir' = Absent => agent' = Down  BY <1>13 DEF Revive, RestartService
    <2> QED  BY <1>13, <1>a, <2>1 DEF Revive, ScriptPcs
  <1>14. CASE UNCHANGED vars
    BY <1>14, <1>b DEF vars
  <1>15. ASSUME Respawn PROVE Recoverable'
    BY <1>0, <1>15 DEF Recoverable, Respawn, RestartService
  <1> QED
    BY <1>15, <1>1, <1>2, <1>3, <1>4, <1>5, <1>6, <1>7, <1>8, <1>9, <1>10, <1>11, <1>12, <1>13, <1>14
       DEF Next, ScriptStep

\* A script that is alone goes to another place and stays alone.
LEMMA StaysAlone ==
  ASSUME TypeOK, clean => \A j \in Running : Running = {j},
         NEW j \in Jobs, pc[j] # "idle", NEW l \in ScriptPcs \ {"idle"}, To(j, l),
         clean' => clean, clean' => Alone(j)'
  PROVE  Undisturbed'
  <1>1. j \in Running /\ j \in Running'
    BY OneMoves DEF Running
  <1>2. ASSUME clean' PROVE Running' = {j}
    <2>1. Running = {j}  BY <1>1, <1>2
    <2>2. \A k \in Jobs : k # j => pc'[k] = "idle"
      BY <2>1, OneMoves DEF Running
    <2> QED  BY <1>1, <2>2 DEF Running
  <1> QED  BY <1>1, <1>2 DEF Undisturbed, AllOrNothing

\* It ends, with the directory as it should be.
LEMMA EndsAlone ==
  ASSUME TypeOK, clean => \A j \in Running : Running = {j},
         NEW j \in Jobs, pc[j] # "idle", To(j, "idle"), clean' => clean,
         clean' => \/ dir' = before' \/ \E k \in Jobs : dir' = Replaced(before', k)
                   \/ cut' /\ \E k \in Jobs : \E v \in {None, k[2]} :
                                dir' = WithBinary(before', k[1], v)
  PROVE  Undisturbed'
  <1>1. j \in Running /\ j \notin Running'
    BY OneMoves DEF Running, ScriptPcs
  <1>2. ASSUME clean' PROVE Running' = {}
    <2>1. Running = {j}  BY <1>1, <1>2
    <2>2. \A k \in Jobs : k # j => pc'[k] = "idle"
      BY <2>1, OneMoves DEF Running, ScriptPcs
    <2> QED  BY <1>1, <2>2 DEF Running
  <1> QED  BY <1>1, <1>2 DEF Undisturbed, AllOrNothing

LEMMA NextUndisturbed ==
  ASSUME TypeOK, InstallInv, [Next]_vars
  PROVE  Undisturbed'
  <1> USE DEF service, observers, Goto, ExitError, To
  <1>0. Undisturbed /\ Recoverable  BY DEF InstallInv, Undisturbed, Recoverable
  <1>a. clean => \A j \in Running : Running = {j}  BY <1>0 DEF Undisturbed
  <1>b. ASSUME NEW j \in Jobs, pc[j] # "idle", clean PROVE Alone(j)
    BY <1>0, <1>b DEF Undisturbed, Running
  <1>c. before \in Directory /\ before # Absent
    BY <1>0, AbsentIsNoDirectory DEF Recoverable
  <1>d. ASSUME UNCHANGED <<dir, pc, backup, before, clean, cut>> PROVE Undisturbed'
    BY <1>0, <1>d DEF Undisturbed, AllOrNothing, Running, Alone
  <1>1. ASSUME Request PROVE Undisturbed'
    <2>1. CASE Launched
      <3>1. want.job \in Jobs  BY DEF TypeOK, Command
      <3>2. want.job \in Running'
        BY <2>1, <3>1, OneMoves DEF Launched, Running, ScriptPcs
      <3>3. ASSUME clean' PROVE Running' = {want.job}
        <4>1. \A k \in Jobs : pc[k] = "idle"  BY <2>1, <3>3 DEF Launched, Running
        <4>2. \A k \in Jobs : k # want.job => pc'[k] = "idle"
          BY <2>1, <3>1, <4>1, OneMoves DEF Launched, ScriptPcs
        <4> QED  BY <3>2, <4>2 DEF Running
      <3>4. ASSUME clean' PROVE Alone(want.job)'
        <4>1. pc'[want.job] = "backup"
          BY <2>1, <3>1, OneMoves DEF Launched, ScriptPcs
        <4>2. dir' = before'  BY <1>1, <2>1, <3>4 DEF Request, Launched
        <4>3. (want.job)' = want.job  BY <1>1 DEF Request
        <4> QED  BY <4>1, <4>2, <4>3 DEF Alone
      <3> QED
        <4>1. want' = want  BY <1>1 DEF Request
        <4> QED  BY <3>2, <3>3, <3>4, <4>1 DEF Undisturbed, AllOrNothing
    <2>2. CASE ~Launched
      <3>1. UNCHANGED <<dir, pc, backup, before, clean, cut>>
        BY <1>1, <2>2 DEF Request, Launch, Launched
      <3> QED  BY <1>d, <3>1
    <2> QED  BY <2>1, <2>2
  <1>2. ASSUME Reboot PROVE Undisturbed'
    <2>1. Running' = {}  BY <1>2 DEF Reboot, Running
    <2>2. clean' => clean /\ Running = {}  BY <1>2 DEF Reboot
    <2> QED  BY <1>0, <1>2, <2>1, <2>2 DEF Reboot, Undisturbed, AllOrNothing
  <1>3. ASSUME NEW j \in Jobs, PanelWants(j) PROVE Undisturbed'
    BY <1>3, <1>d DEF PanelWants
  <1>4. ASSUME NEW j \in Jobs, Backup(j) PROVE Undisturbed'
    <2>1. CASE To(j, "idle")
      BY <1>4, <1>a, <1>b, <2>1, EndsAlone DEF Backup, Alone
    <2>2. CASE To(j, "mkdir") /\ backup' = [backup EXCEPT ![j] = dir]
      <3>1. clean' => Alone(j)'
        BY <1>4, <1>b, <2>2, OneMoves DEF Backup, Alone, TypeOK, ScriptPcs
      <3> QED  BY <1>4, <1>a, <2>2, <3>1, StaysAlone DEF Backup, ScriptPcs
    <2> QED  BY <1>4, <2>1, <2>2 DEF Backup
  <1>5. ASSUME NEW j \in Jobs, MakeDir(j) PROVE Undisturbed'
    <2>1. clean' => Alone(j)'
      BY <1>5, <1>b, <1>c, OneMoves DEF MakeDir, Alone, ScriptPcs
    <2> QED  BY <1>5, <1>a, <2>1, StaysAlone DEF MakeDir, ScriptPcs
  <1>6. ASSUME NEW j \in Jobs, Fetch(j) PROVE Undisturbed'
    <2>1. ASSUME NEW l \in {"copy", "remove"}, To(j, l) PROVE Undisturbed'
      <3>1. clean' => Alone(j)'
        BY <1>6, <1>b, <2>1, OneMoves DEF Fetch, Alone, ScriptPcs
      <3> QED  BY <1>6, <1>a, <2>1, <3>1, StaysAlone DEF Fetch, ScriptPcs
    <2>2. ASSUME To(j, "idle") PROVE Undisturbed'
      BY <1>6, <1>a, <1>b, <2>2, EndsAlone DEF Fetch, Alone
    <2> QED  BY <1>6, <2>1, <2>2 DEF Fetch, GiveUp
  <1>7. ASSUME NEW j \in Jobs, Copy(j) PROVE Undisturbed'
    <2>1. CASE dir' = dir /\ To(j, "idle")
      BY <1>7, <1>a, <1>b, <2>1, EndsAlone DEF Copy, Alone
    <2>2. ASSUME NEW v \in {None, j[2]}, dir' = WithBinary(dir, j[1], v), cut', To(j, "idle")
          PROVE  Undisturbed'
      <3>1. clean => dir' = WithBinary(before', j[1], v)
        BY <1>7, <1>b, <2>2 DEF Copy, Alone
      <3> QED  BY <1>7, <1>a, <2>2, <3>1, EndsAlone DEF Copy
    <2>3. ASSUME NEW v \in Binary, dir' = WithBinary(dir, j[1], v), To(j, "verify")
          PROVE  Undisturbed'
      <3>1. clean' => Alone(j)'
        BY <1>7, <1>b, <2>3, OneMoves DEF Copy, Alone, ScriptPcs
      <3> QED  BY <1>7, <1>a, <2>3, <3>1, StaysAlone DEF Copy, ScriptPcs
    <2>4. j[2] \in Binary /\ Versions \subseteq Binary  BY JobParts DEF Binary
    <2> QED  BY <1>7, <2>1, <2>2, <2>3, <2>4 DEF Copy
  <1>8. ASSUME NEW j \in Jobs, Verify(j) PROVE Undisturbed'
    <2>1. CASE dir # Absent /\ dir.bin[j[1]] = j[2]
      <3>1. ASSUME clean PROVE dir = WithBinary(before, j[1], j[2])
        <4>1. PICK v \in Binary : dir = WithBinary(before, j[1], v)
          BY <1>8, <1>b, <3>1 DEF Verify, Alone
        <4>2. v = j[2]  BY <1>c, <2>1, <4>1, JobParts, BinaryThere
        <4> QED  BY <4>1, <4>2
      <3>2. clean' => Alone(j)'
        BY <1>8, <1>b, <2>1, <3>1, OneMoves DEF Verify, Alone, ScriptPcs
      <3> QED  BY <1>8, <1>a, <2>1, <3>2, StaysAlone DEF Verify, ScriptPcs
    <2>2. CASE ~(dir # Absent /\ dir.bin[j[1]] = j[2])
      <3>1. CASE backup[j] = Absent
        BY <1>8, <1>a, <1>b, <1>c, <2>2, <3>1, EndsAlone DEF Verify, GiveUp, Alone
      <3>2. CASE backup[j] # Absent
        <4>1. To(j, "remove")  BY <1>8, <2>2, <3>2 DEF Verify, GiveUp
        <4>2. clean' => Alone(j)'
          BY <1>8, <1>b, <4>1, OneMoves DEF Verify, Alone, ScriptPcs
        <4> QED  BY <1>8, <1>a, <4>1, <4>2, StaysAlone DEF Verify, ScriptPcs
      <3> QED  BY <3>1, <3>2
    <2> QED  BY <2>1, <2>2
  <1>9. ASSUME NEW j \in Jobs, Mark(j) PROVE Undisturbed'
    <2>1. clean => dir = WithBinary(before, j[1], j[2]) /\ dir # Absent
      <3>1. WithBinary(before, j[1], j[2]) \in Directory
        BY <1>c, JobParts, DirectoryTypes DEF Binary
      <3> QED  BY <1>9, <1>b, <3>1, AbsentIsNoDirectory DEF Mark, Alone
    <2>2. CASE dir = Absent
      BY <1>9, <1>a, <2>1, <2>2, EndsAlone DEF Mark
    <2>3. CASE dir # Absent
      <3>1. clean => dir' = Replaced(before, j)
        BY <1>9, <1>c, <2>1, <2>3, Marked DEF Mark
      <3>2. clean' => Alone(j)'
        BY <1>9, <2>3, <3>1, OneMoves DEF Mark, Alone, ScriptPcs
      <3> QED  BY <1>9, <1>a, <2>3, <3>2, StaysAlone DEF Mark, ScriptPcs
    <2> QED  BY <2>2, <2>3
  <1>10. ASSUME NEW j \in Jobs, Restart(j) PROVE Undisturbed'
    BY <1>10, <1>a, <1>b, EndsAlone DEF Restart, Alone
  <1>11. ASSUME NEW j \in Jobs, Remove(j) PROVE Undisturbed'
    <2>1. clean' => Alone(j)'
      BY <1>11, <1>b, OneMoves DEF Remove, Alone, ScriptPcs
    <2> QED  BY <1>11, <1>a, <2>1, StaysAlone DEF Remove, ScriptPcs
  <1>12. ASSUME NEW j \in Jobs, Move(j) PROVE Undisturbed'
    <2>1. clean' => Alone(j)'
      BY <1>12, <1>b, OneMoves DEF Move, Alone, ScriptPcs
    <2> QED  BY <1>12, <1>a, <2>1, StaysAlone DEF Move, ScriptPcs
  <1>13. ASSUME NEW j \in Jobs, Revive(j) PROVE Undisturbed'
    BY <1>13, <1>a, <1>b, EndsAlone DEF Revive, Alone
  <1>14. CASE UNCHANGED vars
    BY <1>14, <1>d DEF vars
  <1>15. ASSUME Respawn PROVE Undisturbed'
    BY <1>15, <1>d DEF Respawn
  <1> QED
    BY <1>15, <1>1, <1>2, <1>3, <1>4, <1>5, <1>6, <1>7, <1>8, <1>9, <1>10, <1>11, <1>12, <1>13, <1>14
       DEF Next, ScriptStep

\* A script that had the directory for itself leaves it as it was, or with the
\* new binary and its marker, wherever it gave up and was rolled back or found the
\* file busy; after a cp or chmod that failed half way, which the code does not roll
\* back, nothing but that one binary differs
\* (release_upgrade_shell_script_with_source, restore_backup).
THEOREM UpgradeAllOrNothing == Spec => []AllOrNothing
  <1>1. TypeOK /\ InstallInv /\ [Next]_vars => InstallInv'
    BY NextRecoverable, NextUndisturbed DEF InstallInv, Recoverable, Undisturbed
  <1>2. InstallInv => AllOrNothing  BY DEF InstallInv
  <1> QED  BY <1>1, <1>2, InitInstall, UpgradeTypeCorrect, PTL DEF Spec

==============================================================================
