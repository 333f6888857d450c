-------------------------------- MODULE Upgrade --------------------------------
(***************************************************************************)
(* Self-upgrade of the agent and of the core.                              *)
(*                                                                         *)
(* A status answer of the panel may carry an upgrade command.  The manager *)
(* launches an install script that is no child of the agent: it backs up   *)
(* the install directory, downloads and verifies the release, replaces one *)
(* binary, restarts the service and removes the backup, or puts the backup *)
(* back.  Agent and core share the directory; nothing keeps two scripts    *)
(* apart but the unit name, which holds component and version.  The script *)
(* is a unit of systemd-run; the nohup fallback of a machine without it is *)
(* not modelled.                                                           *)
(***************************************************************************)
EXTENDS Naturals

CONSTANTS
    Versions,   \* releases
    First,      \* the release that is installed in the beginning
    None,       \* no binary, no version marker
    Faults,     \* which kinds of fault may happen
    MaxWants,   \* bound: upgrades the panel asks for
    MaxFaults   \* bound: faults in one behaviour

Components == {"node", "core"}

\* launch: systemd-run fails; fetch: a download or its check fails; wrong: the
\* archive holds another release; tools: the script ends before the backup;
\* copy: cp or chmod of the binary fails; reboot: the machine restarts.
FaultKinds == {"launch", "fetch", "wrong", "tools", "copy", "reboot"}

ASSUME ConstantsAssumption ==
    /\ First \in Versions
    /\ None \notin Versions
    /\ Faults \subseteq FaultKinds
    /\ MaxWants \in Nat
    /\ MaxFaults \in Nat

Jobs == Components \X Versions   \* the unit names
Binary == Versions \cup {None}
Directory == [bin : [Components -> Binary], mark : [Components -> Binary]]
Empty == [bin |-> [c \in Components |-> None], mark |-> [c \in Components |-> None]]

Absent == [bin |-> "absent"]     \* there is no such directory
Down == "down"                   \* the service cannot start
NoStatus == [id |-> 0, state |-> "none", job |-> <<"node", First>>]

VARIABLES
    want,     \* the command in the panel's answers, id 0: none
    status,   \* UpgradeManager.status
    agent,    \* release of the agent that runs, or Down
    held,     \* the agent runs the file that is in the directory
    locked,   \* the kernel refuses to write to a program that runs
    dir,      \* /usr/local/kelinode
    pc,       \* pc[j]: where the script of unit j is
    backup,   \* backup[j]: its backup directory
    stuck,    \* units that failed: they stay loaded and keep their names
    faults,   \* faults so far
    before,   \* observer: dir when the last script was launched on its own
    clean,    \* observer: no other script since then, and no reboot in this one
    cut,      \* observer: the cp or chmod of that script failed
    smooth    \* observer: no two scripts at a time, no reboot in one, no cut, ever

service == <<agent, held, locked>>
observers == <<before, clean, cut, smooth>>
vars == <<want, status, service, dir, pc, backup, stuck, faults, observers>>

Command == [id : 0..MaxWants, job : Jobs]
Status == [id : 0..MaxWants, state : {"none", "running", "succeeded", "failed"}, job : Jobs]

ScriptPcs == {"idle", "backup", "mkdir", "fetch", "copy", "verify", "mark", "restart",
              "remove", "move", "revive"}

TypeOK ==
    /\ want \in Command
    /\ status \in Status
    /\ agent \in Versions \cup {Down}
    /\ held \in BOOLEAN
    /\ locked \in BOOLEAN
    /\ dir \in Directory \cup {Absent}
    /\ pc \in [Jobs -> ScriptPcs]
    /\ backup \in [Jobs -> Directory \cup {Absent}]
    /\ stuck \in SUBSET Jobs
    /\ faults \in 0..MaxFaults
    /\ before \in Directory \cup {Absent}
    /\ clean \in BOOLEAN
    /\ cut \in BOOLEAN
    /\ smooth \in BOOLEAN

\* A directory with a binary, and with its marker too.
WithBinary(d, c, v) == [d EXCEPT !.bin[c] = v]
Replaced(d, j) == [d EXCEPT !.bin[j[1]] = j[2], !.mark[j[1]] = j[2]]

Installed(v) == [bin |-> [c \in Components |-> v], mark |-> [c \in Components |-> v]]

Init ==
    /\ want = [id |-> 0, job |-> NoStatus.job]
    /\ status = NoStatus
    /\ agent = First
    /\ held = TRUE
    /\ locked \in BOOLEAN
    /\ dir = Installed(First)
    /\ pc = [j \in Jobs |-> "idle"]
    /\ backup = [j \in Jobs |-> Absent]
    /\ stuck = {}
    /\ faults = 0
    /\ before = dir
    /\ clean = TRUE
    /\ cut = FALSE
    /\ smooth = TRUE

Running == {j \in Jobs : pc[j] # "idle"}
Fault(k) == k \in Faults /\ faults < MaxFaults /\ faults' = faults + 1
Goto(j, l) == pc' = [pc EXCEPT ![j] = l] /\ UNCHANGED stuck

\* The script ends with an error: the unit is not collected.
ExitError(j) == pc' = [pc EXCEPT ![j] = "idle"] /\ stuck' = stuck \cup {j}

-----------------------------------------------------------------------------
(* The panel and the manager.                                              *)

PanelWants(j) ==
    /\ want.id < MaxWants
    /\ want' = [id |-> want.id + 1, job |-> j]
    /\ UNCHANGED <<status, service, dir, pc, backup, stuck, faults, observers>>

Answered == [id |-> want.id, state |-> "running", job |-> want.job]

\* The launch, which systemd-run refuses for a unit that is still loaded: one
\* that runs and, without --collect, one that failed.
Launch ==
    \/ /\ want.job \notin Running \cup stuck
       /\ status' = Answered
       /\ Goto(want.job, "backup")
       /\ backup' = [backup EXCEPT ![want.job] = Absent]
       /\ before' = IF Running = {} THEN dir ELSE before
       /\ clean' = (Running = {})
       /\ cut' = FALSE
       /\ smooth' = (smooth /\ Running = {})
       /\ UNCHANGED faults
    \/ /\ \/ want.job \in Running \cup stuck /\ UNCHANGED faults
          \/ Fault("launch")
       /\ status' = [Answered EXCEPT !.state = "failed"]
       /\ UNCHANGED <<pc, backup, stuck, observers>>

\* Mutant of Request: a failed command counts as done.
RequestOnce ==
    /\ want.id > 0 /\ agent # Down
    /\ status.id # want.id
    /\ IF want.job[1] = "node" /\ agent = want.job[2]
         THEN /\ status' = [Answered EXCEPT !.state = "succeeded"]
              /\ UNCHANGED <<pc, backup, stuck, faults, observers>>
         ELSE Launch
    /\ UNCHANGED <<want, service, dir>>

\* Mutant of Request: the agent's version is compared for every component.
RequestAnyComponent ==
    /\ want.id > 0 /\ agent # Down
    /\ ~(status.id = want.id /\ status.state \in {"running", "succeeded"})
    /\ IF agent = want.job[2]
         THEN /\ status' = [Answered EXCEPT !.state = "succeeded"]
              /\ UNCHANGED <<pc, backup, stuck, faults, observers>>
         ELSE Launch
    /\ UNCHANGED <<want, service, dir>>

\* UpgradeManager::request.  A command that is running or has succeeded is not
\* repeated; the agent's own release needs no script.
Request ==
    /\ want.id > 0 /\ agent # Down
    /\ ~(status.id = want.id /\ status.state \in {"running", "succeeded"})
    /\ IF want.job[1] = "node" /\ agent = want.job[2]
         THEN /\ status' = [Answered EXCEPT !.state = "succeeded"]
              /\ UNCHANGED <<pc, backup, stuck, faults, observers>>
         ELSE Launch
    /\ UNCHANGED <<want, service, dir>>

-----------------------------------------------------------------------------
(* The script (release_upgrade_shell_script_with_source), set -eu.         *)

\* restart_service: a new agent, from what the directory holds, has no status.
RestartService ==
    /\ agent' = IF dir = Absent \/ dir.bin["node"] = None THEN Down ELSE dir.bin["node"]
    /\ held' = (agent' # Down)
    /\ status' = NoStatus
    /\ UNCHANGED locked

Backup(j) ==
    /\ pc[j] = "backup"
    /\ \/ /\ backup' = [backup EXCEPT ![j] = dir]
          /\ Goto(j, "mkdir")
          /\ UNCHANGED faults
       \/ /\ Fault("tools")
          /\ ExitError(j)
          /\ UNCHANGED backup
    /\ UNCHANGED <<want, status, service, dir, observers>>

MakeDir(j) ==
    /\ pc[j] = "mkdir"
    /\ dir' = IF dir = Absent THEN Empty ELSE dir
    /\ Goto(j, "fetch")
    /\ UNCHANGED <<want, status, service, backup, faults, observers>>

\* Where a script goes that gives up: restore_backup does nothing without one.
GiveUp(j) == IF backup[j] = Absent THEN ExitError(j) ELSE Goto(j, "remove")

\* Manifest, archive, checksum, unpacking: nothing is changed.
Fetch(j) ==
    /\ pc[j] = "fetch"
    /\ \/ Goto(j, "copy") /\ UNCHANGED faults
       \/ Fault("fetch") /\ GiveUp(j)
    /\ UNCHANGED <<want, status, service, dir, backup, observers>>

\* The kernel refuses the write: the file is the running agent's, or that of a
\* core which may be running from here.
Busy(c) == locked /\ (c = "node" => held)

\* cp and chmod end the script when they fail, and the backup is not put back: the
\* file is busy and stays, or it is cut off, or it is new and has no marker.
Copy(j) ==
    /\ pc[j] = "copy"
    /\ \/ /\ dir # Absent /\ ~(j[1] = "node" /\ Busy("node"))
          /\ \/ dir' = WithBinary(dir, j[1], j[2]) /\ UNCHANGED faults
             \/ \E v \in Versions \ {j[2]} :
                  dir' = WithBinary(dir, j[1], v) /\ Fault("wrong")
          /\ Goto(j, "verify")
          /\ UNCHANGED <<cut, smooth>>
       \/ /\ dir = Absent \/ Busy(j[1])
          /\ ExitError(j)
          /\ UNCHANGED <<dir, faults, cut, smooth>>
       \/ /\ dir # Absent /\ Fault("copy")
          /\ \E v \in {None, j[2]} : dir' = WithBinary(dir, j[1], v)
          /\ cut' = TRUE /\ smooth' = FALSE
          /\ ExitError(j)
    /\ UNCHANGED <<want, status, service, backup, before, clean>>

\* The binary is asked for its version.
Verify(j) ==
    /\ pc[j] = "verify"
    /\ IF dir # Absent /\ dir.bin[j[1]] = j[2] THEN Goto(j, "mark") ELSE GiveUp(j)
    /\ UNCHANGED <<want, status, service, dir, backup, faults, observers>>

Mark(j) ==
    /\ pc[j] = "mark"
    /\ IF dir = Absent
         THEN ExitError(j) /\ UNCHANGED dir
         ELSE Goto(j, "restart") /\ dir' = [dir EXCEPT !.mark[j[1]] = j[2]]
    /\ UNCHANGED <<want, status, service, backup, faults, observers>>

\* The service is restarted and the backup removed.
Restart(j) ==
    /\ pc[j] = "restart"
    /\ RestartService
    /\ backup' = [backup EXCEPT ![j] = Absent]
    /\ Goto(j, "idle")
    /\ UNCHANGED <<want, dir, faults, observers>>

\* restore_backup: rm -rf, mv, restart_service.
Remove(j) ==
    /\ pc[j] = "remove"
    /\ dir' = Absent /\ held' = FALSE
    /\ Goto(j, "move")
    /\ UNCHANGED <<want, status, agent, locked, backup, faults, observers>>

\* Mutant of Move: the backup is put beside the new files and not in their place.
MoveNested(j) ==
    /\ pc[j] = "move"
    /\ dir' = IF dir = Absent THEN Empty ELSE dir
    /\ backup' = [backup EXCEPT ![j] = Absent]
    /\ Goto(j, "revive")
    /\ UNCHANGED <<want, status, service, faults, observers>>

\* mv into a directory that is there again puts the backup inside it.
Move(j) ==
    /\ pc[j] = "move"
    /\ dir' = IF dir = Absent THEN backup[j] ELSE dir
    /\ backup' = [backup EXCEPT ![j] = Absent]
    /\ Goto(j, "revive")
    /\ UNCHANGED <<want, status, service, faults, observers>>

Revive(j) ==
    /\ pc[j] = "revive"
    /\ RestartService
    /\ ExitError(j)
    /\ UNCHANGED <<want, dir, backup, faults, observers>>

\* The service manager tries again to start what could not start.
Respawn ==
    /\ agent = Down
    /\ RestartService
    /\ UNCHANGED <<want, dir, pc, backup, stuck, faults, observers>>

\* The machine restarts: the scripts and the units are gone, the backups stay unused.
Reboot ==
    /\ Fault("reboot")
    /\ RestartService
    /\ pc' = [j \in Jobs |-> "idle"] /\ stuck' = {}
    /\ clean' = (clean /\ Running = {})
    /\ smooth' = (smooth /\ Running = {})
    /\ UNCHANGED <<want, dir, backup, before, cut>>

-----------------------------------------------------------------------------
ScriptStep(j) ==
    \/ Backup(j) \/ MakeDir(j) \/ Fetch(j) \/ Copy(j) \/ Verify(j) \/ Mark(j)
    \/ Restart(j) \/ Remove(j) \/ Move(j) \/ Revive(j)

Next == Request \/ Reboot \/ Respawn \/ \E j \in Jobs : PanelWants(j) \/ ScriptStep(j)

Spec == Init /\ [][Next]_vars

\* A script runs on, the panel repeats its command in every status answer, and the
\* service is restarted always.
FairSpec ==
    Spec /\ WF_vars(Request) /\ WF_vars(Respawn) /\ \A j \in Jobs : WF_vars(ScriptStep(j))

-----------------------------------------------------------------------------
(* Properties.                                                             *)

\* The panel is told "succeeded" only of the release the agent really runs, and
\* never of the core, whose release the manager does not know (request).
SucceededIsRunning ==
    status.state = "succeeded" => status.job = <<"node", agent>>

\* What a script that had the directory for itself leaves behind, whether it went
\* through, gave up at any check or found the file busy: the directory as it found
\* it, or the same with one binary and its marker of the release (restore_backup).
\* The rollback does not cover a cp or chmod that fails half way, which set -eu ends
\* the script at: then that one binary is cut off or has no marker, and all else is
\* as it was.
AllOrNothing ==
    Running = {} /\ clean =>
      \/ dir = before
      \/ \E j \in Jobs : dir = Replaced(before, j)
      \/ cut /\ \E j \in Jobs : \E v \in {None, j[2]} : dir = WithBinary(before, j[1], v)

\* A release the panel goes on asking for is installed in the end, or its script
\* failed and its unit, which no one collects, keeps the name until a reboot: a launch
\* that was refused is tried again, and so is a script the unit of which is gone.
\* This is so if no two scripts met, no reboot interrupted one and no cp or chmod left
\* half a binary (request, release_upgrade_launch_plan_with_source).
EventuallyUpgraded ==
    []smooth => <>[](want.id > 0 => \/ dir # Absent /\ dir.bin[want.job[1]] = want.job[2]
                                    \/ want.job \in stuck)

-----------------------------------------------------------------------------
(* Inductive invariant.                                                    *)

\* Where a script that has the directory for itself has brought it.
Alone(j) ==
    /\ pc[j] \in {"backup", "mkdir", "fetch", "copy", "revive"} => dir = before
    /\ pc[j] \in {"mkdir", "fetch", "copy", "verify", "mark", "remove", "move"} =>
         backup[j] = before
    /\ pc[j] = "verify" => \E v \in Binary : dir = WithBinary(before, j[1], v)
    /\ pc[j] = "mark" => dir = WithBinary(before, j[1], j[2])
    /\ pc[j] = "restart" => dir = Replaced(before, j)
    /\ pc[j] = "move" => dir = Absent

\* A clean script is the only one; a directory that is missing under a running
\* agent is about to be put back, so no script finds none when it starts alone.
InstallInv ==
    /\ AllOrNothing
    /\ clean => \A j \in Running : Running = {j} /\ Alone(j)
    /\ before \in Directory
    /\ dir = Absent /\ agent # Down => \E j \in Jobs : pc[j] = "move"
    /\ \A j \in Jobs : pc[j] \in {"remove", "move"} => backup[j] # Absent

==============================================================================
