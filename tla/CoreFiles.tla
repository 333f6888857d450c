----------------------------- MODULE CoreFiles ----------------------------
(***************************************************************************)
(* The files between the agent and the core, and the core's start from     *)
(* them: the certificate pair and its self-signed fallback, the            *)
(* configuration and the fingerprint of its routes (src/src/core.rs), the  *)
(* control token and the supervisor (process.rs), and the hot apply that   *)
(* depends on all of them (control.rs).                                    *)
(*                                                                         *)
(* A tick writes step by step, and the agent may die between any two. The  *)
(* core is the embedded one and dies with the agent; systemd starts the    *)
(* agent again.  Users reach the core in three ways: with the file, as a   *)
(* delta that no file is written for, and as snapshots after a rebuild.    *)
(* Their revisions, and deltas that continue_on_error defers, are          *)
(* UserSync's; here a list of users is never empty.                        *)
(***************************************************************************)
EXTENDS Naturals

CONSTANTS
  Routes,       \* routing configurations
  Users,        \* user lists
  Faults,       \* which of the faults below happen
  Entrypoint,   \* certificates are delivered before the agent is started
  MaxChanges,   \* changes at the panel
  MaxFaults     \* faults in all

ASSUME CoreFilesAssumption ==
  /\ "none" \notin Routes \cup Users
  /\ Entrypoint \in BOOLEAN
  /\ MaxChanges \in Nat
  /\ MaxFaults \in Nat

VARIABLES
  panel,        \* what the panel wants
  plan,         \* what the agent plans: routes since the boot, users since a rebuild
  known,        \* the users the agent has from the panel, also after a restart
  applied,      \* this tick handed them to the core as a delta
  rebuilt,      \* this tick made the plan anew with them
  pc,           \* the step of the tick
  cert, key,    \* the certificate files: 0, or the pair the file belongs to
  made,         \* pairs made so far
  certLost,     \* observer: a certificate was lost
  pair,         \* the self-signed pair that is being written
  file, temp,   \* the configuration and the temporary file beside it
  mark,         \* the fingerprint file, named after the routes
  old,          \* the fingerprint that was read in this tick
  changed,      \* the configuration was written in this tick
  token,        \* the control token file, 0 when it is missing
  served,       \* what the core runs
  coreToken,    \* the token it was started with
  handed,       \* a pair whose certificate was delivered, its key not yet
  changes, faults

tickVars == <<known, applied, rebuilt>>
agentVars == <<plan, pc, tickVars>>
pairVars == <<cert, key, made, pair, handed, certLost>>
fileVars == <<file, temp, mark, old, changed>>
coreVars == <<served, coreToken>>
envVars == <<panel, changes, faults>>

vars == <<agentVars, pairVars, fileVars, token, coreVars, envVars>>

AllUsers == Users \cup {"none"}
Configs == [routes : Routes, users : AllUsers]
None == [routes |-> "none", users |-> "none"]

Steps == {"down", "boot", "idle", "delta", "rebuild", "ensure", "pair", "cert", "key", "mark",
          "file", "rename", "remark", "token", "apply", "users"}

\* What the panel can want.
Wishes == [routes : Routes, users : Users]

---------------------------------------------------------------------------
TypeOK ==
  /\ panel \in Wishes /\ plan \in Configs
  /\ known \in AllUsers /\ applied \in BOOLEAN /\ rebuilt \in BOOLEAN
  /\ pc \in Steps
  /\ cert \in 0..made /\ key \in 0..made /\ made \in Nat
  /\ pair \in 0..made /\ handed \in 0..made /\ certLost \in BOOLEAN
  /\ file \in Configs \cup {None} /\ temp \in Configs \cup {None}
  /\ mark \in Routes \cup {"none", "torn"} /\ old \in Routes \cup {"none", "torn"}
  /\ changed \in BOOLEAN
  /\ token \in Nat /\ coreToken \in Nat
  /\ served \in Configs \cup {None}
  /\ changes \in 0..MaxChanges /\ faults \in 0..MaxFaults

\* A new host: no files, the agent not started.
Init ==
  /\ panel \in Wishes /\ plan = panel
  /\ known = "none" /\ applied = FALSE /\ rebuilt = FALSE
  /\ pc = "down"
  /\ cert = 0 /\ key = 0 /\ made = 0 /\ pair = 0 /\ handed = 0
  /\ certLost = FALSE
  /\ file = None /\ temp = None
  /\ mark = "none" /\ old = "none" /\ changed = FALSE
  /\ token = 0 /\ coreToken = 0
  /\ served = None
  /\ changes = 0 /\ faults = 0

---------------------------------------------------------------------------
(* The world around the agent *)

Fault(kind) ==
  /\ kind \in Faults
  /\ faults < MaxFaults
  /\ faults' = faults + 1

PanelChange ==
  /\ changes < MaxChanges
  /\ panel' \in Wishes \ {panel}
  /\ changes' = changes + 1
  /\ UNCHANGED <<agentVars, pairVars, fileVars, token, coreVars, faults>>

\* The private key, or the certificate, is lost or damaged.
LoseKey ==
  /\ Fault("key")
  /\ key' = 0
  /\ UNCHANGED <<agentVars, cert, made, pair, handed, certLost, fileVars, token, coreVars, panel,
                 changes>>

LoseCert ==
  /\ Fault("cert")
  /\ cert' = 0
  /\ certLost' = TRUE
  /\ UNCHANGED <<agentVars, key, made, pair, handed, fileVars, token, coreVars, panel, changes>>

LoseToken ==
  /\ Fault("token")
  /\ token' = 0
  /\ UNCHANGED <<agentVars, pairVars, fileVars, coreVars, panel, changes>>

\* A pair from elsewhere, file by file: by the entrypoint of the container, or
\* by a host that does not wait for the agent.
DeliverCert ==
  /\ Fault("delivery")
  /\ Entrypoint => pc = "down"
  /\ handed = 0
  /\ made' = made + 1
  /\ cert' = made'
  /\ handed' = made'
  /\ UNCHANGED <<agentVars, key, pair, certLost, fileVars, token, coreVars, panel, changes>>

DeliverKey ==
  /\ handed # 0
  /\ key' = handed
  /\ handed' = 0
  /\ UNCHANGED <<agentVars, cert, made, pair, certLost, fileVars, token, coreVars, envVars>>

\* The end of the agent, with its core.
Ends ==
  /\ pc' = "down"
  /\ served' = None
  /\ UNCHANGED <<plan, tickVars, coreToken>>

\* A crash leaves a file that was being written in place half written.
Crash ==
  /\ Fault("crash")
  /\ pc # "down"
  /\ Ends
  /\ mark' \in {mark, IF pc = "remark" THEN "torn" ELSE mark}
  /\ UNCHANGED <<pairVars, file, temp, old, changed, token, panel, changes>>

\* A write that fails fails the tick, and a failed tick ends the agent.
DiskError ==
  /\ Fault("disk")
  /\ pc \in {"cert", "key", "file", "rename", "remark", "token"}
  /\ Ends
  /\ UNCHANGED <<pairVars, fileVars, token, panel, changes>>

---------------------------------------------------------------------------
(* The agent *)

Goto(step) ==
  /\ pc' = step
  /\ UNCHANGED <<plan, tickVars>>

Start ==
  /\ pc = "down"
  /\ Entrypoint => handed = 0
  /\ Goto("boot")
  /\ UNCHANGED <<pairVars, fileVars, token, coreVars, envVars>>

\* The plan of this run has no users yet; the core of the run before, if any,
\* keeps running.  The users of that run are read from their state file, if it was
\* written.
Boot ==
  /\ pc = "boot"
  /\ plan' = [routes |-> panel.routes, users |-> "none"]
  /\ known' \in {known, "none"}
  /\ pc' = "idle"
  /\ UNCHANGED <<applied, rebuilt, pairVars, fileVars, token, coreVars, envVars>>

\* A mutant: a plan without users is good enough for a core that runs.
UsersDueIfNews == panel.users # known

\* The panel has other users, or the plan has none.
UsersDue == panel.users # known \/ plan.users = "none"

\* There is a difference, and a core that runs to take it.  Whether it is tried
\* depends on the answer, which may be a full list, and on the plan, which may have
\* no inbound for it.
DeltaDue == panel.users # known /\ known # "none" /\ served # None

\* A tick takes the users of the moment; new routes need a reload.
Tick ==
  /\ pc = "idle"
  /\ panel.routes = plan.routes
  /\ known' = panel.users
  /\ applied' = FALSE /\ rebuilt' = FALSE
  /\ \/ DeltaDue /\ pc' = "delta"
     \/ UsersDue /\ pc' = "rebuild"
     \/ ~UsersDue /\ pc' = "ensure"
  /\ UNCHANGED <<plan, pairVars, fileVars, token, coreVars, envVars>>

Reload ==
  /\ pc = "idle"
  /\ panel.routes # plan.routes
  /\ Goto("boot")
  /\ UNCHANGED <<pairVars, fileVars, token, coreVars, envVars>>

---------------------------------------------------------------------------
(* run_tick: the users *)

Authorized == token = coreToken

\* keli_core_rs_control_token: whoever asks for a lost token replaces it, also
\* under a core that was started with it.
TokenFile == IF token = 0 THEN coreToken + 1 ELSE token

\* The core has the users, the plan and the file do not.  A tick that has nothing to
\* report ends here.
DeltaApplied ==
  /\ pc = "delta"
  /\ Authorized
  /\ served' = [served EXCEPT !.users = known]
  /\ applied' = TRUE
  /\ pc' \in {"idle", "ensure"}
  /\ UNCHANGED <<plan, known, rebuilt, pairVars, fileVars, token, coreToken, envVars>>

DeltaRefused ==
  /\ pc = "delta"
  /\ ~Authorized
  /\ token' = TokenFile
  /\ Goto("rebuild")
  /\ UNCHANGED <<pairVars, fileVars, coreVars, envVars>>

\* No answer, whether or not the core took the users.
DeltaLost ==
  /\ pc = "delta"
  /\ Authorized
  /\ Fault("call")
  /\ served' \in {served, [served EXCEPT !.users = known]}
  /\ Goto("rebuild")
  /\ UNCHANGED <<pairVars, fileVars, token, coreToken, panel, changes>>

Rebuild ==
  /\ pc = "rebuild"
  /\ plan' = [plan EXCEPT !.users = known]
  /\ rebuilt' = TRUE
  /\ pc' = "ensure"
  /\ UNCHANGED <<known, applied, pairVars, fileVars, token, coreVars, envVars>>

\* ensure_keli_core_rs_restart_uses_latest_users.  An embedded core does not die
\* alone, so the rebuild of the first tick has been here before.
LatestUsers == IF served = None THEN [plan EXCEPT !.users = known] ELSE plan

EnsureLatestUsers ==
  /\ pc = "ensure"
  /\ plan' = LatestUsers
  /\ pc' = "pair"
  /\ UNCHANGED <<tickVars, pairVars, fileVars, token, coreVars, envVars>>

---------------------------------------------------------------------------
(* write_core_config *)

\* certificate_pair_looks_usable: each file is looked at by itself.
UsablePair == cert # 0 /\ key # 0

KeepPair ==
  /\ pc = "pair"
  /\ UsablePair
  /\ Goto("mark")
  /\ UNCHANGED <<pairVars, fileVars, token, coreVars, envVars>>

\* ensure_inbound_certificate_pair: a fallback, certificate first.
MakePair ==
  /\ pc = "pair"
  /\ ~UsablePair
  /\ made' = made + 1
  /\ pair' = made'
  /\ Goto("cert")
  /\ UNCHANGED <<cert, key, handed, certLost, fileVars, token, coreVars, envVars>>

\* A mutant: the key first.
WriteCertSecond ==
  /\ pc = "cert"
  /\ key' = pair
  /\ Goto("key")
  /\ UNCHANGED <<cert, made, pair, handed, certLost, fileVars, token, coreVars, envVars>>

WriteCert ==
  /\ pc = "cert"
  /\ cert' = pair
  /\ Goto("key")
  /\ UNCHANGED <<key, made, pair, handed, certLost, fileVars, token, coreVars, envVars>>

WriteKey ==
  /\ pc = "key"
  /\ key' = pair
  /\ Goto("mark")
  /\ UNCHANGED <<cert, made, pair, handed, certLost, fileVars, token, coreVars, envVars>>

ReadMark ==
  /\ pc = "mark"
  /\ old' = mark
  /\ Goto("file")
  /\ UNCHANGED <<pairVars, file, temp, mark, changed, token, coreVars, envVars>>

\* route_config_changed: an unknown past is no change.
RoutesChanged == old # "none" /\ old # plan.routes

\* A mutant: a file with the same routes is good enough.
SameRoutes == file.routes = plan.routes

SameFile == file = plan

\* A file with these bytes is left alone; a missing fingerprint is written
\* all the same.
KeepFile ==
  /\ pc = "file"
  /\ SameFile
  /\ changed' = FALSE
  /\ Goto(IF old = "none" THEN "remark" ELSE "token")
  /\ UNCHANGED <<pairVars, file, temp, mark, old, token, coreVars, envVars>>

WriteTemp ==
  /\ pc = "file"
  /\ ~SameFile
  /\ temp' = plan
  /\ Goto("rename")
  /\ UNCHANGED <<pairVars, file, mark, old, changed, token, coreVars, envVars>>

Rename ==
  /\ pc = "rename"
  /\ file' = temp
  /\ changed' = TRUE
  /\ Goto("remark")
  /\ UNCHANGED <<pairVars, temp, mark, old, token, coreVars, envVars>>

WriteMark ==
  /\ pc = "remark"
  /\ mark' = plan.routes
  /\ Goto("token")
  /\ UNCHANGED <<pairVars, file, temp, old, changed, token, coreVars, envVars>>

---------------------------------------------------------------------------
(* apply_core_process *)

EnsureToken ==
  /\ pc = "token"
  /\ token' = TokenFile
  /\ Goto("apply")
  /\ UNCHANGED <<pairVars, fileVars, coreVars, envVars>>

\* Nothing to tell a core that runs, or users it has been told of: then the new
\* file has to wait for a later tick.
LeaveRunning ==
  /\ pc = "apply"
  /\ served # None
  /\ ~changed \/ applied
  /\ Goto("users")
  /\ UNCHANGED <<pairVars, fileVars, token, coreVars, envVars>>

PairFits == cert # 0 /\ cert = key

\* start_embedded_core, from the files; it needs a pair that fits.
Launches ==
  /\ PairFits
  /\ served' = file
  /\ coreToken' = token
  /\ Goto("users")

\* A core that does not start fails the tick.
StartCore ==
  /\ pc = "apply"
  /\ served = None
  /\ Launches \/ (~PairFits /\ Ends)
  /\ UNCHANGED <<pairVars, fileVars, token, envVars>>

\* Changed routes are tried alone.
HotApplyRoutes ==
  /\ pc = "apply"
  /\ changed /\ ~applied /\ served # None
  /\ RoutesChanged /\ Authorized
  /\ served' = [served EXCEPT !.routes = plan.routes]
  /\ Goto("users")
  /\ UNCHANGED <<pairVars, fileVars, token, coreToken, envVars>>

\* Everything else, and routes the core would not take alone.
HotApplyConfig ==
  /\ pc = "apply"
  /\ changed /\ ~applied /\ served # None
  /\ Authorized
  /\ served' = plan
  /\ Goto("users")
  /\ UNCHANGED <<pairVars, fileVars, token, coreToken, envVars>>

\* An error the core answers is fatal.
HotApplyRejected ==
  /\ pc = "apply"
  /\ changed /\ ~applied /\ served # None
  /\ ~Authorized
  /\ Ends
  /\ UNCHANGED <<pairVars, fileVars, token, envVars>>

\* A call without an answer is followed by a reload: stop, then start.
HotApplyLost ==
  /\ pc = "apply"
  /\ changed /\ ~applied /\ served # None
  /\ Fault("call")
  /\ Launches \/ (~PairFits /\ Ends)
  /\ UNCHANGED <<pairVars, fileVars, token, panel, changes>>

\* The users that made the plan anew follow as snapshots; without the token they
\* are refused.
SendUsers ==
  /\ pc = "users"
  /\ served' = IF rebuilt /\ Authorized THEN [served EXCEPT !.users = known] ELSE served
  /\ Goto("idle")
  /\ UNCHANGED <<pairVars, fileVars, token, coreToken, envVars>>

---------------------------------------------------------------------------
AgentStep ==
  \/ Start \/ Boot \/ Tick \/ Reload
  \/ DeltaApplied \/ DeltaRefused \/ Rebuild \/ EnsureLatestUsers
  \/ KeepPair \/ MakePair \/ WriteCert \/ WriteKey
  \/ ReadMark \/ KeepFile \/ WriteTemp \/ Rename \/ WriteMark
  \/ EnsureToken \/ LeaveRunning \/ StartCore
  \/ HotApplyRoutes \/ HotApplyConfig \/ HotApplyRejected
  \/ SendUsers

Next ==
  \/ AgentStep
  \/ PanelChange \/ DeliverKey
  \/ LoseKey \/ LoseCert \/ LoseToken \/ DeliverCert
  \/ Crash \/ DiskError \/ DeltaLost \/ HotApplyLost

Spec == Init /\ [][Next]_vars

\* The agent's loop and systemd's restart go on; a delivery that was begun ends.
FairSpec == Spec /\ WF_vars(AgentStep) /\ WF_vars(DeliverKey)

---------------------------------------------------------------------------
(* Properties *)

Service == INSTANCE CoreService WITH wanted <- plan, stored <- file

\* The agent keeps its promise about the core through every crash, failed write
\* and lost call: the configuration file is whole, a core that runs takes a new
\* configuration only once it is in the file, and a core that is started has the
\* users the agent knows, though deltas leave them out of the plan and the file
\* (core.rs:3110, control.rs:608, runner.rs:556).
ImplementsService == Service!Spec

\* Both files look usable and do not belong together.
Stranded == UsablePair /\ cert # key

\* Two files that look usable belong together, though each is written and
\* checked by itself and the agent may die in between (core.rs:2958), but for
\* one case: the certificate was lost or damaged, its key was not, and a new
\* certificate was put beside the old key.  Should the agent end before the new
\* key is written, that pair is kept for good.
UsablePairFits == handed = 0 /\ Stranded => certLost /\ cert = pair /\ key < pair

\* When the panel and the faults come to rest the core runs, with the routes
\* the panel wants, also when the file was written in a tick that left the core
\* alone after a delta (control.rs:620), unless the pair of UsablePairFits keeps it
\* from starting: README.md:225 says of the fallback that it "keeps a node from
\* failing hard when certificate delivery is temporarily broken".  That the users
\* arrive is UserSync's to show.
EventuallyServes == <>[](Stranded \/ (served # None /\ served.routes = panel.routes))
===========================================================================
