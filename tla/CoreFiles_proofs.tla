-------------------------- MODULE CoreFiles_proofs --------------------------
(***************************************************************************)
(* Proofs about what the agent gives the core.  Of CoreFiles: the agent    *)
(* implements CoreService, and a pair of certificate files that look       *)
(* usable fits when certificates are delivered before the agent is         *)
(* started.  Of the operators that make the configuration, for every       *)
(* input: an encrypted node stays encrypted, the preflight keeps its word  *)
(* and no row of the capability table is dead (CoreInbound), what a rule   *)
(* sends to exists (CoreRoutes), no socket is opened twice, a round of the *)
(* node manager settles, and a profile without an answer takes nothing     *)
(* from the others (Bootstrap).                                            *)
(***************************************************************************)
EXTENDS CoreFiles, CorePlanning, TLAPS, FiniteSetTheorems, WellFoundedInduction,
        SequenceTheorems

---------------------------------------------------------------------------
(* Types, and the file that goes with each step of the tick *)

\* The steps between the users and the start of the core.
Writing == {"pair", "cert", "key", "mark", "file", "rename", "remark", "token", "apply"}

\* What a tick applies is in the file, and what it is about to rename is the
\* plan; only a core that runs is sent users, and one that is to be started finds
\* those the agent knows in the plan.
StepInv ==
  /\ pc \in {"remark", "token", "apply", "users"} => file = plan
  /\ pc = "rename" => temp = plan
  /\ pc \in {"delta", "users"} => served # None
  /\ pc \in Writing /\ served = None => plan.users = known

FileInv == TypeOK /\ StepInv

LEMMA NoneIsNoConfig == None \notin Configs
  BY CoreFilesAssumption DEF None, Configs

LEMMA InitFileInv == Init => FileInv
<1> SUFFICES ASSUME Init
             PROVE  FileInv
    OBVIOUS
<1>1. changed \in BOOLEAN /\ applied \in BOOLEAN /\ rebuilt \in BOOLEAN /\ certLost \in BOOLEAN
      BY Zenon DEF Init
<1>2. panel \in Wishes /\ plan \in Configs /\ known \in AllUsers
      BY DEF Init, Wishes, Configs, AllUsers
<1>3. TypeOK
      BY <1>1, <1>2, CoreFilesAssumption DEF Init, TypeOK, Steps
<1>4. StepInv
      BY DEF Init, StepInv, Writing
<1>5. QED
      BY <1>3, <1>4 DEF FileInv

\* The environment and the faults that leave the agent where it is.
LEMMA WorldKeepsFileInv ==
  FileInv /\ (PanelChange \/ LoseKey \/ LoseCert \/ LoseToken \/ DeliverCert \/ DeliverKey)
    => FileInv'
<1> SUFFICES ASSUME FileInv,
                    PanelChange \/ LoseKey \/ LoseCert \/ LoseToken \/ DeliverCert \/ DeliverKey
             PROVE  FileInv'
    OBVIOUS
<1> USE CoreFilesAssumption DEF FileInv, TypeOK, StepInv, agentVars, tickVars, pairVars,
      fileVars, coreVars, envVars, Fault
<1>1. CASE PanelChange
      BY <1>1 DEF PanelChange
<1>2. CASE LoseKey
      BY <1>2 DEF LoseKey
<1>3. CASE LoseToken
      BY <1>3 DEF LoseToken
<1>4. CASE DeliverCert
      BY <1>4 DEF DeliverCert
<1>5. CASE DeliverKey
      BY <1>5 DEF DeliverKey
<1>6. CASE LoseCert
      <2>1. certLost' \in BOOLEAN
            BY <1>6, Zenon DEF LoseCert
      <2>2. QED
            BY <1>6, <2>1 DEF LoseCert
<1>7. QED
      BY <1>1, <1>2, <1>3, <1>4, <1>5, <1>6

\* The agent's end and its way from there.
LEMMA EndsKeepFileInv ==
  FileInv /\ (Crash \/ DiskError \/ Start \/ Boot \/ Reload) => FileInv'
<1> SUFFICES ASSUME FileInv, Crash \/ DiskError \/ Start \/ Boot \/ Reload
             PROVE  FileInv'
    OBVIOUS
<1> USE CoreFilesAssumption DEF FileInv, TypeOK, StepInv, Writing, Steps, agentVars, tickVars,
      pairVars, fileVars, coreVars, envVars, Fault, Ends, Goto
<1>1. CASE Crash
      BY <1>1 DEF Crash
<1>2. CASE DiskError
      BY <1>2 DEF DiskError
<1>3. CASE Start
      BY <1>3 DEF Start
<1>4. CASE Boot
      <2>1. plan' \in Configs /\ known' \in AllUsers
            BY <1>4 DEF Boot, Configs, AllUsers, Wishes
      <2>2. QED
            BY <1>4, <2>1 DEF Boot
<1>5. CASE Reload
      BY <1>5 DEF Reload
<1>6. QED
      BY <1>1, <1>2, <1>3, <1>4, <1>5

\* The users of a tick: a core that is not there is given no delta, and is
\* started with the users the agent knows.
LEMMA UsersKeepFileInv ==
  FileInv /\ ( \/ Tick \/ DeltaApplied \/ DeltaRefused \/ DeltaLost
               \/ Rebuild \/ EnsureLatestUsers ) => FileInv'
<1> SUFFICES ASSUME FileInv,
                    \/ Tick \/ DeltaApplied \/ DeltaRefused \/ DeltaLost
                    \/ Rebuild \/ EnsureLatestUsers
             PROVE  FileInv'
    OBVIOUS
<1> USE CoreFilesAssumption DEF FileInv, TypeOK, StepInv, Writing, Steps, agentVars, tickVars,
      pairVars, fileVars, coreVars, envVars, Fault, Goto
<1>0. /\ served # None => [served EXCEPT !.users = known] \in Configs
      /\ [plan EXCEPT !.users = known] \in Configs
      /\ [plan EXCEPT !.users = known].users = known
      /\ LatestUsers \in Configs
      /\ served = None => LatestUsers.users = known
      BY DEF Configs, LatestUsers
<1>1. CASE Tick
      <2>1. known' \in AllUsers
            BY <1>1 DEF Tick, Wishes, AllUsers
      <2>2. applied' \in BOOLEAN /\ rebuilt' \in BOOLEAN
            BY <1>1, Zenon DEF Tick
      <2>3. pc' \in {"delta", "rebuild", "ensure"} /\ (pc' = "delta" => served # None)
            BY <1>1 DEF Tick, DeltaDue
      <2>4. QED
            BY <1>1, <2>1, <2>2, <2>3 DEF Tick
<1>2. CASE DeltaApplied
      <2>1. applied' \in BOOLEAN
            BY <1>2, Zenon DEF DeltaApplied
      <2>2. QED
            BY <1>0, <1>2, <2>1 DEF DeltaApplied
<1>3. CASE DeltaRefused
      BY <1>3 DEF DeltaRefused, TokenFile
<1>4. CASE DeltaLost
      BY <1>0, <1>4 DEF DeltaLost
<1>5. CASE Rebuild
      <2>1. rebuilt' \in BOOLEAN
            BY <1>5, Zenon DEF Rebuild
      <2>2. QED
            BY <1>0, <1>5, <2>1 DEF Rebuild
<1>6. CASE EnsureLatestUsers
      BY <1>0, <1>6 DEF EnsureLatestUsers
<1>7. QED
      BY <1>1, <1>2, <1>3, <1>4, <1>5, <1>6

\* The certificate pair is no part of the configuration.
LEMMA PairKeepsFileInv ==
  FileInv /\ (KeepPair \/ MakePair \/ WriteCert \/ WriteKey) => FileInv'
<1> SUFFICES ASSUME FileInv, KeepPair \/ MakePair \/ WriteCert \/ WriteKey
             PROVE  FileInv'
    OBVIOUS
<1> USE CoreFilesAssumption DEF FileInv, TypeOK, StepInv, Writing, Steps, agentVars, tickVars,
      pairVars, fileVars, coreVars, envVars, Goto
<1>1. CASE KeepPair
      BY <1>1 DEF KeepPair
<1>2. CASE MakePair
      BY <1>2 DEF MakePair
<1>3. CASE WriteCert
      BY <1>3 DEF WriteCert
<1>4. CASE WriteKey
      BY <1>4 DEF WriteKey
<1>5. QED
      BY <1>1, <1>2, <1>3, <1>4

\* The file is the plan from the step after its comparison or its renaming on.
LEMMA WriteKeepsFileInv ==
  FileInv /\ (ReadMark \/ KeepFile \/ WriteTemp \/ Rename \/ WriteMark \/ EnsureToken) => FileInv'
<1> SUFFICES ASSUME FileInv,
                    ReadMark \/ KeepFile \/ WriteTemp \/ Rename \/ WriteMark \/ EnsureToken
             PROVE  FileInv'
    OBVIOUS
<1> USE CoreFilesAssumption DEF FileInv, TypeOK, StepInv, Writing, Steps, agentVars, tickVars,
      pairVars, fileVars, coreVars, envVars, Goto
<1>1. CASE ReadMark
      BY <1>1 DEF ReadMark
<1>2. CASE KeepFile
      BY <1>2 DEF KeepFile, SameFile
<1>3. CASE WriteTemp
      BY <1>3 DEF WriteTemp
<1>4. CASE Rename
      BY <1>4 DEF Rename
<1>5. CASE WriteMark
      BY <1>5 DEF WriteMark, Configs
<1>6. CASE EnsureToken
      BY <1>6 DEF EnsureToken, TokenFile
<1>7. QED
      BY <1>1, <1>2, <1>3, <1>4, <1>5, <1>6

\* A core that runs keeps running or is replaced by one that does.
LEMMA ApplyKeepsFileInv ==
  FileInv /\ ( \/ LeaveRunning \/ StartCore \/ HotApplyRoutes \/ HotApplyConfig
               \/ HotApplyRejected \/ HotApplyLost \/ SendUsers ) => FileInv'
<1> SUFFICES ASSUME FileInv,
                    \/ LeaveRunning \/ StartCore \/ HotApplyRoutes \/ HotApplyConfig
                    \/ HotApplyRejected \/ HotApplyLost \/ SendUsers
             PROVE  FileInv'
    OBVIOUS
<1> USE CoreFilesAssumption, NoneIsNoConfig DEF FileInv, TypeOK, StepInv, Writing, Steps,
      agentVars, tickVars, pairVars, fileVars, coreVars, envVars, Goto, Ends, Fault, Launches
<1>1. CASE LeaveRunning
      BY <1>1 DEF LeaveRunning
<1>2. CASE StartCore
      BY <1>2 DEF StartCore
<1>3. CASE HotApplyRoutes
      BY <1>3 DEF HotApplyRoutes, Configs
<1>4. CASE HotApplyConfig
      BY <1>4 DEF HotApplyConfig
<1>5. CASE HotApplyRejected
      BY <1>5 DEF HotApplyRejected
<1>6. CASE HotApplyLost
      BY <1>6 DEF HotApplyLost
<1>7. CASE SendUsers
      BY <1>7 DEF SendUsers, Configs
<1>8. QED
      BY <1>1, <1>2, <1>3, <1>4, <1>5, <1>6, <1>7

LEMMA FileInvStep == FileInv /\ [Next]_vars => FileInv'
<1> SUFFICES ASSUME FileInv, [Next]_vars
             PROVE  FileInv'
    OBVIOUS
<1>1. CASE UNCHANGED vars
      BY <1>1 DEF FileInv, TypeOK, StepInv, vars, agentVars, tickVars, pairVars, fileVars, coreVars,
         envVars
<1>2. CASE Next
      BY <1>2, WorldKeepsFileInv, EndsKeepFileInv, UsersKeepFileInv, PairKeepsFileInv, WriteKeepsFileInv,
         ApplyKeepsFileInv DEF Next, AgentStep
<1>3. QED
      BY <1>1, <1>2

LEMMA FileInvariant == Spec => []FileInv
<1>1. Init => FileInv
      BY InitFileInv
<1>2. FileInv /\ [Next]_vars => FileInv'
      BY FileInvStep
<1>3. QED
      BY <1>1, <1>2, PTL DEF Spec

\* Every variable of the files and of the core keeps its type, for any routes,
\* users, faults and bounds.
THEOREM FilesTypeCorrect == Spec => []TypeOK
<1>1. FileInv => TypeOK
      BY DEF FileInv
<1>2. QED
      BY <1>1, FileInvariant, PTL

---------------------------------------------------------------------------
(* The agent implements CoreService *)

LEMMA InitRefines == Init => Service!Init
  BY DEF Init, Service!Init, None, Service!None, Wishes, Service!Configs, Service!AllUsers

\* A step that leaves the plan, the users, the file and the core alone is a stutter.
LEMMA QuietRefines ==
  UNCHANGED <<plan, known, file, served>> => [Service!Next]_(Service!vars)
  BY DEF Service!vars

\* The agent's end stops the core.
LEMMA EndsRefine ==
  Ends /\ UNCHANGED file => [Service!Next]_(Service!vars)
  BY DEF Ends, tickVars, Service!Next, Service!Stop, None, Service!None

\* A core that is started from the file has the plan, and in it the users the
\* agent knows; one that is started again has the plan.
LEMMA LaunchRefines ==
  FileInv /\ pc = "apply" /\ Launches /\ UNCHANGED file => [Service!Next]_(Service!vars)
<1> SUFFICES ASSUME FileInv, pc = "apply", Launches, UNCHANGED file
             PROVE  [Service!Next]_(Service!vars)
    OBVIOUS
<1>1. file = plan /\ served' = plan /\ UNCHANGED <<plan, known, file>>
      BY DEF FileInv, StepInv, Launches, Goto, tickVars
<1>2. CASE served = None
      <2>1. plan.users = known
            BY <1>2 DEF FileInv, StepInv, Writing
      <2>2. Service!Launch
            BY <1>1, <1>2, <2>1 DEF Service!Launch, None, Service!None
      <2>3. QED
            BY <2>2 DEF Service!Next
<1>3. CASE served # None
      <2>1. Service!Serve
            BY <1>1, <1>3 DEF Service!Serve, None, Service!None
      <2>2. QED
            BY <2>1 DEF Service!Next
<1>4. QED
      BY <1>2, <1>3

\* The users the agent has change, or the plan is made anew with them or without.
LEMMA WantRefines ==
  FileInv /\ (Boot \/ Tick \/ Rebuild \/ EnsureLatestUsers) => [Service!Next]_(Service!vars)
<1> SUFFICES ASSUME FileInv, Boot \/ Tick \/ Rebuild \/ EnsureLatestUsers
             PROVE  Service!Want
    BY DEF Service!Next
<1> USE DEF FileInv, TypeOK, tickVars, fileVars, coreVars, envVars, Wishes, Configs, AllUsers,
      Service!Want, Service!AllUsers
<1>1. CASE Boot
      BY <1>1 DEF Boot
<1>2. CASE Tick
      BY <1>2 DEF Tick
<1>3. CASE Rebuild
      BY <1>3 DEF Rebuild
<1>4. CASE EnsureLatestUsers
      BY <1>4 DEF EnsureLatestUsers, LatestUsers
<1>5. QED
      BY <1>1, <1>2, <1>3, <1>4

\* The core takes the users the agent knows, or nothing.
LEMMA HandOverRefines ==
  /\ served # None
  /\ served' \in {served, [served EXCEPT !.users = known]}
  /\ UNCHANGED <<plan, known, file>>
  => [Service!Next]_(Service!vars)
  BY DEF None, Service!None, Service!Next, Service!HandOver, Service!vars

\* Every step of the agent, of its surroundings and of the faults is a step of
\* the promised service, or none.
LEMMA StepRefines == FileInv /\ [Next]_vars => [Service!Next]_(Service!vars)
<1> SUFFICES ASSUME FileInv, [Next]_vars
             PROVE  [Service!Next]_(Service!vars)
    OBVIOUS
<1>1. CASE UNCHANGED vars
      BY <1>1, QuietRefines DEF vars, agentVars, tickVars, fileVars, coreVars
<1>2. CASE Boot \/ Tick \/ Rebuild \/ EnsureLatestUsers
      BY <1>2, WantRefines
<1>3. CASE Crash \/ DiskError \/ HotApplyRejected
      BY <1>3, EndsRefine DEF Crash, DiskError, HotApplyRejected, fileVars
<1>4. CASE Rename
      BY <1>4 DEF Rename, FileInv, StepInv, Goto, tickVars, coreVars, Service!Next, Service!Store
<1>5. CASE StartCore
      <2>1. CASE Launches
            BY <1>5, <2>1, LaunchRefines DEF StartCore, fileVars
      <2>2. CASE ~PairFits /\ Ends
            BY <1>5, <2>2, EndsRefine DEF StartCore, fileVars
      <2>3. QED
            BY <1>5, <2>1, <2>2 DEF StartCore
<1>6. CASE HotApplyLost
      <2>1. CASE Launches
            BY <1>6, <2>1, LaunchRefines DEF HotApplyLost, fileVars
      <2>2. CASE ~PairFits /\ Ends
            BY <1>6, <2>2, EndsRefine DEF HotApplyLost, fileVars
      <2>3. QED
            BY <1>6, <2>1, <2>2 DEF HotApplyLost
<1>7. CASE HotApplyRoutes
      BY <1>7 DEF HotApplyRoutes, FileInv, StepInv, Goto, tickVars, fileVars, None, Service!Next,
         Service!Serve, Service!None
<1>8. CASE HotApplyConfig
      BY <1>8 DEF HotApplyConfig, FileInv, StepInv, Goto, tickVars, fileVars, None, Service!Next,
         Service!Serve, Service!None
<1>9. CASE SendUsers \/ DeltaApplied \/ DeltaLost
      <2>1. /\ served # None
            /\ served' \in {served, [served EXCEPT !.users = known]}
            /\ UNCHANGED <<plan, known, file>>
            BY <1>9 DEF SendUsers, DeltaApplied, DeltaLost, FileInv, StepInv, Goto, tickVars,
               fileVars
      <2>2. QED
            BY <2>1, HandOverRefines
<1>10. CASE PanelChange \/ LoseKey \/ LoseCert \/ LoseToken \/ DeliverCert \/ DeliverKey
      BY <1>10, QuietRefines DEF PanelChange, LoseKey, LoseCert, LoseToken, DeliverCert, DeliverKey,
         agentVars, tickVars, fileVars, coreVars
<1>11. CASE Start \/ Reload \/ DeltaRefused \/ KeepPair \/ MakePair \/ WriteCert \/ WriteKey
      BY <1>11, QuietRefines DEF Start, Reload, DeltaRefused, KeepPair, MakePair, WriteCert,
         WriteKey, Goto, tickVars, fileVars, coreVars
<1>12. CASE ReadMark \/ KeepFile \/ WriteTemp \/ WriteMark \/ EnsureToken \/ LeaveRunning
      BY <1>12, QuietRefines DEF ReadMark, KeepFile, WriteTemp, WriteMark, EnsureToken,
         LeaveRunning, Goto, tickVars, fileVars, coreVars
<1>13. QED
      BY <1>1, <1>2, <1>3, <1>4, <1>5, <1>6, <1>7, <1>8, <1>9, <1>10, <1>11, <1>12
         DEF Next, AgentStep

\* The agent implements CoreService, for any routes, users, faults and bounds: a
\* configuration the core takes is in the file, users handed over beside it are
\* those the agent knows, and a core that is started has them
\* (core.rs:3110, control.rs:608, runner.rs:509).
THEOREM Implements == Spec => ImplementsService
<1>1. Init => Service!Init
      BY InitRefines
<1>2. FileInv /\ [Next]_vars => [Service!Next]_(Service!vars)
      BY StepRefines
<1>3. QED
      BY <1>1, <1>2, FileInvariant, PTL DEF Spec, ImplementsService, Service!Spec

---------------------------------------------------------------------------
(* Certificate pairs *)

\* A delivery is over before the agent looks, and the key is the last file of a
\* pair to be written.  Only the loss of a certificate leaves a key alone.
PairInv ==
  /\ handed # 0 => pc = "down" /\ cert \in {0, handed}
  /\ cert = 0 /\ (key # 0 \/ handed # 0) => certLost
  /\ pc \in {"cert", "key"} => key < pair
  /\ pc = "cert" /\ key # 0 => certLost
  /\ pc = "key" => cert \in {0, pair} /\ (cert = 0 \/ key # 0 => certLost)
  /\ UsablePairFits

LEMMA PairInvStep ==
  ASSUME Entrypoint
  PROVE  TypeOK /\ PairInv /\ [Next]_vars => PairInv'
<1> SUFFICES ASSUME TypeOK, PairInv, [Next]_vars
             PROVE  PairInv'
    OBVIOUS
<1> USE DEF TypeOK, PairInv, UsablePairFits, Stranded, UsablePair
<1>1. CASE UNCHANGED vars
      BY <1>1 DEF vars, agentVars, pairVars
<1>2. CASE LoseKey \/ LoseCert
      BY <1>2 DEF LoseKey, LoseCert, agentVars
<1>3. CASE DeliverCert
      BY <1>3 DEF DeliverCert, agentVars
<1>4. CASE DeliverKey
      BY <1>4 DEF DeliverKey, agentVars
<1>5. CASE MakePair
      BY <1>5 DEF MakePair, Goto
<1>6. CASE WriteCert
      BY <1>6 DEF WriteCert, Goto
<1>7. CASE WriteKey
      BY <1>7 DEF WriteKey, Goto
<1>8. CASE PanelChange \/ LoseToken
      BY <1>8 DEF PanelChange, LoseToken, agentVars, pairVars
<1>9. CASE Crash \/ DiskError \/ HotApplyRejected
      BY <1>9 DEF Crash, DiskError, HotApplyRejected, Ends, pairVars
<1>10. CASE StartCore \/ HotApplyLost
      BY <1>10 DEF StartCore, HotApplyLost, Launches, Ends, Goto, pairVars
<1>11. CASE Start \/ Boot \/ Tick \/ Reload \/ KeepPair
      BY <1>11 DEF Start, Boot, Tick, Reload, KeepPair, Goto, pairVars
<1>12. CASE ReadMark \/ KeepFile \/ WriteTemp \/ Rename \/ WriteMark
      BY <1>12 DEF ReadMark, KeepFile, WriteTemp, Rename, WriteMark, Goto, pairVars
<1>13. CASE EnsureToken \/ LeaveRunning \/ HotApplyRoutes \/ HotApplyConfig \/ SendUsers
      BY <1>13 DEF EnsureToken, LeaveRunning, HotApplyRoutes, HotApplyConfig, SendUsers, Goto,
         pairVars
<1>14. CASE DeltaApplied \/ DeltaRefused \/ DeltaLost \/ Rebuild \/ EnsureLatestUsers
      BY <1>14 DEF DeltaApplied, DeltaRefused, DeltaLost, Rebuild, EnsureLatestUsers, Goto, pairVars
<1>15. QED
      BY <1>1, <1>2, <1>3, <1>4, <1>5, <1>6, <1>7, <1>8, <1>9, <1>10, <1>11, <1>12, <1>13, <1>14
         DEF Next, AgentStep

\* When certificates are delivered before the agent starts, as the entrypoint
\* does, a pair that looks usable fits, for any number of crashes, failed writes,
\* lost keys and lost certificates, or is a new certificate beside the key of one
\* that was lost (core.rs:2958).
THEOREM PairsFit ==
  ASSUME Entrypoint
  PROVE  Spec => []UsablePairFits
<1>1. Init => PairInv
      BY DEF Init, PairInv, UsablePairFits, Stranded, UsablePair
<1>2. TypeOK /\ PairInv /\ [Next]_vars => PairInv'
      BY PairInvStep
<1>3. PairInv => UsablePairFits
      BY DEF PairInv
<1>4. QED
      BY <1>1, <1>2, <1>3, FilesTypeCorrect, PTL DEF Spec

---------------------------------------------------------------------------
(* The inbound of a node (CoreInbound) *)

\* What becomes of a node, case by case.
LEMMA OutcomeCases ==
  ASSUME NEW node, NEW allow
  PROVE  LET in == BuildInbound(node)
             waits == RequiresUsers(node.protocol) /\ node.users \ {""} = {}
             passes == in.ok /\ FieldsOk(in) /\ CapabilityOk(in, allow)
             kind == Outcome(node, allow).kind
         IN  /\ waits => kind = "waits"
             /\ ~waits /\ ~passes => kind = "refused"
             /\ ~waits /\ passes => /\ kind = "rendered"
                                    /\ Outcome(node, allow).inbound = RenderInbound(in, TRUE)
<1> DEFINE in == BuildInbound(node)
           waits == RequiresUsers(node.protocol) /\ node.users \ {""} = {}
           passes == in.ok /\ FieldsOk(in) /\ CapabilityOk(in, allow)
           o == Outcome(node, allow)
           R == RenderInbound(in, TRUE)
<1>1. InboundOk(in, allow) <=> FieldsOk(in) /\ CapabilityOk(in, allow)
  BY DEF InboundOk
<1>2. waits => o = [kind |-> "waits"]
  BY DEF Outcome
<1>3. ~waits /\ ~passes => o = [kind |-> "refused"]
  BY <1>1 DEF Outcome
<1>4. ~waits /\ passes => o = [kind |-> "rendered", inbound |-> R]
  BY <1>1 DEF Outcome
<1> HIDE DEF waits, passes, o, R
<1>5. /\ waits => o.kind = "waits"
      /\ ~waits /\ ~passes => o.kind = "refused"
      /\ ~waits /\ passes => o.kind = "rendered" /\ o.inbound = R
  BY <1>2, <1>3, <1>4
<1> QED
  BY <1>5 DEF waits, passes, o, R

\* The field checks know three kinds of security.
LEMMA SecurityKnown ==
  ASSUME NEW in, FieldsOk(in)
  PROVE  in.security \in {"none", "tls", "reality"}
  BY DEF FieldsOk, PlainTcpOk, NaiveOk, StreamInboundOk, TuicOk, Hysteria2Ok

\* The plan of an inbound has the security its node asks for.
LEMMA BuiltFields ==
  ASSUME NEW node, BuildInbound(node).ok
  PROVE  BuildInbound(node).security = InboundSecurity(node)
  BY DEF BuildInbound, NoInbound

\* Of any node and any switches: an inbound that is rendered without TLS comes
\* from a node that asks for none, or from one whose certificate mode takes TLS
\* off before the core (cert_mode_disables_tls); no path through
\* build_inbound_config, the checks and the renderer loses the encryption that
\* the panel asked for.
LEMMA EveryNodeKept == \A node, allow : NoPlaintext(node, allow)
<1> SUFFICES ASSUME NEW node, NEW allow, Outcome(node, allow).kind = "rendered",
                    Outcome(node, allow).inbound.tls.kind = "none"
             PROVE  \/ node.tls = 0
                    \/ /\ node.protocol \in {"vmess", "vless", "trojan"}
                       /\ node.certMode \in {"", "none"}
  BY DEF NoPlaintext
<1> DEFINE in == BuildInbound(node)
<1>1. in.ok /\ FieldsOk(in) /\ Outcome(node, allow).inbound = RenderInbound(in, TRUE)
  BY OutcomeCases
<1>2. in.security \in {"none", "tls", "reality"}
  BY <1>1, SecurityKnown
<1>3. RenderTls(in).kind = "none"
  BY <1>1 DEF RenderInbound
<1> HIDE DEF in
<1>4. in.security = "none"
  BY <1>2, <1>3 DEF RenderTls
<1>5. InboundSecurity(node) = "none"
  BY <1>1, <1>4, BuiltFields DEF in
<1> QED
  BY <1>5 DEF InboundSecurity, SecurityOf, CertModeDisablesTls

\* Two plans of inbounds are the same but for their users.
SamePlan(a, b) ==
  /\ a.protocol = b.protocol /\ a.network = b.network /\ a.security = b.security
  /\ a.flow = b.flow /\ a.cipher = b.cipher /\ a.padding = b.padding
  /\ a.bandwidth = b.bandwidth /\ a.obfs = b.obfs /\ a.obfsPassword = b.obfsPassword
  /\ a.congestion = b.congestion /\ a.zeroRtt = b.zeroRtt /\ a.ports = b.ports
  /\ a.settings = b.settings /\ a.sni = b.sni /\ a.rejectSni = b.rejectSni
  /\ a.reality = b.reality /\ a.certFiles = b.certFiles

\* The users of a plan matter to tuic alone, and not at all to the table.
LEMMA UsersApart ==
  ASSUME NEW a, NEW b, b.users = {},
         SamePlan(a, b)
  PROVE  /\ FieldsOk(a) => FieldsOk(b)
         /\ FieldsOk(b) /\ ~FieldsOk(a) => a.protocol = "tuic" /\ ~(a.users \subseteq {"uuid"})
         /\ \A allow : CapabilityOk(a, allow) = CapabilityOk(b, allow)
<1>0. /\ a.protocol = b.protocol /\ a.network = b.network /\ a.security = b.security
      /\ a.flow = b.flow /\ a.cipher = b.cipher /\ a.padding = b.padding
      /\ a.bandwidth = b.bandwidth /\ a.obfs = b.obfs /\ a.obfsPassword = b.obfsPassword
      /\ a.congestion = b.congestion /\ a.zeroRtt = b.zeroRtt /\ a.ports = b.ports
      /\ a.settings = b.settings /\ a.sni = b.sni /\ a.rejectSni = b.rejectSni
      /\ a.reality = b.reality /\ a.certFiles = b.certFiles
  BY DEF SamePlan
<1>1. TransportNetwork(a) = TransportNetwork(b)
  BY <1>0 DEF TransportNetwork
<1>2. \A n : FlowOk(a, n) <=> FlowOk(b, n)
  BY <1>0 DEF FlowOk
<1>3. CertificateOk(a) <=> CertificateOk(b)
  BY <1>0 DEF CertificateOk
<1>4. TlsOk(a) <=> TlsOk(b)
  BY <1>0, <1>1, <1>3 DEF TlsOk
<1>5. PlainTcpOk(a) <=> PlainTcpOk(b)
  BY <1>0, <1>2 DEF PlainTcpOk
<1>6. NaiveOk(a) <=> NaiveOk(b)
  BY <1>0, <1>4 DEF NaiveOk
<1>7. StreamInboundOk(a) <=> StreamInboundOk(b)
  <2>1. RealityOk(a) <=> RealityOk(b)
    BY <1>0, <1>1 DEF RealityOk
  <2> QED
    BY <1>0, <1>1, <1>2, <1>4, <2>1 DEF StreamInboundOk
<1>8. Hysteria2Ok(a) <=> Hysteria2Ok(b)
  BY <1>0, <1>1, <1>3 DEF Hysteria2Ok, CongestionOk
<1>9. /\ TuicOk(a) => TuicOk(b)
      /\ TuicOk(b) /\ ~TuicOk(a) => ~(a.users \subseteq {"uuid"})
  BY <1>0, <1>1, <1>3 DEF TuicOk, CongestionOk
<1>10. ScopedFieldsOk(a) <=> ScopedFieldsOk(b)
  BY <1>0 DEF ScopedFieldsOk
<1>11. CapabilityKey(a) = CapabilityKey(b)
  <2>1. CapabilityTransport(a) = CapabilityTransport(b)
    BY <1>0, <1>1 DEF CapabilityTransport
  <2>2. CapabilityUdpMode(a) = CapabilityUdpMode(b)
    BY <1>0, <1>1 DEF CapabilityUdpMode
  <2> QED
    BY <1>0, <2>1, <2>2 DEF CapabilityKey
<1>12. \A allow : CapabilityOk(a, allow) = CapabilityOk(b, allow)
  <2>1. Capability(a) = Capability(b)
    BY <1>11 DEF Capability
  <2> QED
    BY <2>1 DEF CapabilityOk
<1>13. FieldsOk(a) => FieldsOk(b)
  BY <1>0, <1>4, <1>5, <1>6, <1>7, <1>8, <1>9, <1>10 DEF FieldsOk
<1>14. FieldsOk(b) /\ ~FieldsOk(a) => a.protocol = "tuic" /\ ~(a.users \subseteq {"uuid"})
  BY <1>0, <1>4, <1>5, <1>6, <1>7, <1>8, <1>9, <1>10 DEF FieldsOk
<1> QED
  BY <1>12, <1>13, <1>14

\* Without its users a node is built the same.
LEMMA BuiltWithout ==
  ASSUME NEW node \in PanelNodes
  PROVE  LET a == BuildInbound(node)
             b == BuildInbound(WithoutUsers(node))
         IN  /\ a.ok = b.ok
             /\ a.ok => /\ b.users = {} /\ a.users = node.users \ {""}
                        /\ a.protocol = PlanProtocol(node.protocol)
                        /\ SamePlan(a, b)
<1> DEFINE m == WithoutUsers(node)
<1>1. /\ m.users = {} /\ m.protocol = node.protocol /\ m.network = node.network
      /\ m.tls = node.tls /\ m.certMode = node.certMode /\ m.flow = node.flow
      /\ m.port = node.port /\ m.transport = node.transport /\ m.encryption = node.encryption
      /\ m.cipher = node.cipher /\ m.padding = node.padding /\ m.bandwidth = node.bandwidth
      /\ m.obfs = node.obfs /\ m.obfsPassword = node.obfsPassword
      /\ m.congestion = node.congestion /\ m.zeroRtt = node.zeroRtt /\ m.ports = node.ports
      /\ m.sni = node.sni /\ m.rejectSni = node.rejectSni /\ m.settings = node.settings
      /\ m.reality = node.reality
  BY DEF WithoutUsers, PanelNodes
<1> HIDE DEF m
<1>2. NetworkOf(m) = NetworkOf(node)
  BY <1>1 DEF NetworkOf
<1>3. InboundSecurity(m) = InboundSecurity(node)
  BY <1>1 DEF InboundSecurity, CertModeDisablesTls
<1>4. (DecryptionOk(m) <=> DecryptionOk(node)) /\ (MieruTransportOk(m) <=> MieruTransportOk(node))
  BY <1>1 DEF DecryptionOk, MieruTransportOk
<1> DEFINE R(n, u) ==
         [ok |-> TRUE, protocol |-> PlanProtocol(n.protocol), network |-> NetworkOf(n),
          security |-> InboundSecurity(n), flow |-> n.flow, cipher |-> n.cipher,
          padding |-> n.padding, bandwidth |-> n.bandwidth, obfs |-> n.obfs,
          obfsPassword |-> n.obfsPassword, congestion |-> n.congestion,
          zeroRtt |-> n.zeroRtt, ports |-> n.ports, settings |-> n.settings,
          sni |-> n.sni, rejectSni |-> n.rejectSni, reality |-> n.reality,
          users |-> u, certFiles |-> TRUE]
<1>5. R(m, {}) = R(node, {})
  BY <1>1, <1>2, <1>3
<1> DEFINE bad == \/ node.port = 0
                  \/ node.protocol = "mieru" /\ node.network = "" /\ ~MieruTransportOk(node)
                  \/ ~DecryptionOk(node)
<1>6. BuildInbound(node) = IF bad THEN NoInbound ELSE R(node, node.users \ {""})
  BY DEF BuildInbound
<1>7. BuildInbound(m) = IF bad THEN NoInbound ELSE R(node, {})
  <2>1. m.users \ {""} = {}
    BY <1>1
  <2>2. BuildInbound(m) = IF bad THEN NoInbound ELSE R(m, {})
    BY <1>1, <1>4, <2>1 DEF BuildInbound
  <2> HIDE DEF R
  <2> QED
    BY <1>5, <2>2
<1>8. CASE bad
  <2>1. BuildInbound(node) = NoInbound /\ BuildInbound(WithoutUsers(node)) = NoInbound
    BY <1>6, <1>7, <1>8 DEF m
  <2>2. ~NoInbound.ok
    BY DEF NoInbound
  <2> QED
    BY <2>1, <2>2
<1>9. CASE ~bad
  <2> DEFINE p == R(node, node.users \ {""})
             q == R(node, {})
  <2>1. BuildInbound(node) = p /\ BuildInbound(WithoutUsers(node)) = q
    BY <1>6, <1>7, <1>9 DEF m
  <2>2. SamePlan(p, q)
    BY DEF SamePlan
  <2>3. /\ p.ok = TRUE /\ q.ok = TRUE /\ q.users = {} /\ p.users = node.users \ {""}
        /\ p.protocol = PlanProtocol(node.protocol)
    OBVIOUS
  <2> HIDE DEF p, q
  <2> QED
    BY <2>1, <2>2, <2>3
<1> QED
  BY <1>8, <1>9

\* What the preflight sees of one node.
PreflightNode(node, allow) ==
  LET out == Outcome(node, allow).kind
      out0 == Outcome(WithoutUsers(node), allow).kind
  IN  /\ out0 # "refused" /\ ~PreflightBlocked(node, allow) /\ out = "refused" =>
           LateField(node, allow) \/ ForeignUser(node)
      /\ out = "rendered" => out0 # "refused" /\ ~PreflightBlocked(node, allow)
      /\ out0 \in {"waits", "rendered", "refused"}

\* Of any node the panel can send: what the preflight passes is refused later only
\* for its users or for fields that the preflight does not look at while the users
\* are awaited, and what can be rendered is never held back by the preflight
\* (main.rs:309).
LEMMA OnePreflight ==
  \A node \in PanelNodes : \A allow : PreflightNode(node, allow)
<1> SUFFICES ASSUME NEW node \in PanelNodes, NEW allow
             PROVE  PreflightNode(node, allow)
  OBVIOUS
<1> DEFINE in == BuildInbound(node)
           in0 == BuildInbound(WithoutUsers(node))
           out == Outcome(node, allow).kind
           out0 == Outcome(WithoutUsers(node), allow).kind
           waits == RequiresUsers(node.protocol) /\ node.users \ {""} = {}
           foreign == node.protocol = "tuic" /\ ~(node.users \ {""} \subseteq {"uuid"})
<1>1. /\ in.ok = in0.ok
      /\ in.ok => in.users = node.users \ {""} /\ in.protocol = PlanProtocol(node.protocol)
  BY BuiltWithout
<1>2. in.ok => /\ FieldsOk(in) => FieldsOk(in0)
               /\ FieldsOk(in0) /\ ~FieldsOk(in) => foreign
               /\ CapabilityOk(in, allow) = CapabilityOk(in0, allow)
  <2> SUFFICES ASSUME in.ok
               PROVE  /\ FieldsOk(in) => FieldsOk(in0)
                      /\ FieldsOk(in0) /\ ~FieldsOk(in) => foreign
                      /\ CapabilityOk(in, allow) = CapabilityOk(in0, allow)
    OBVIOUS
  <2>1. in0.users = {} /\ SamePlan(in, in0)
    BY BuiltWithout
  <2>2. PlanProtocol(node.protocol) = "tuic" => node.protocol = "tuic"
    BY DEF PlanProtocol
  <2> HIDE DEF in, in0
  <2>3. /\ FieldsOk(in) => FieldsOk(in0)
        /\ FieldsOk(in0) /\ ~FieldsOk(in) => in.protocol = "tuic" /\ ~(in.users \subseteq {"uuid"})
        /\ \A al : CapabilityOk(in, al) = CapabilityOk(in0, al)
    BY <2>1, UsersApart
  <2> QED
    BY <1>1, <2>2, <2>3
<1>3. WithoutUsers(node).protocol = node.protocol /\ WithoutUsers(node).users \ {""} = {}
  BY DEF WithoutUsers, PanelNodes
<1>4. /\ RequiresUsers(node.protocol) => out0 = "waits"
      /\ ~RequiresUsers(node.protocol) =>
           out0 = IF in0.ok /\ FieldsOk(in0) /\ CapabilityOk(in0, allow) THEN "rendered" ELSE "refused"
  BY <1>3, OutcomeCases
<1>5. /\ waits => out = "waits"
      /\ ~waits => out = IF in.ok /\ FieldsOk(in) /\ CapabilityOk(in, allow) THEN "rendered" ELSE "refused"
  BY OutcomeCases
<1>6. PreflightBlocked(node, allow) <=> ~in.ok \/ ~CapabilityOk(in, allow)
  BY DEF PreflightBlocked
<1> HIDE DEF in, in0, out, out0
<1>7. ASSUME out0 # "refused", ~PreflightBlocked(node, allow), out = "refused"
      PROVE  (out0 = "waits" /\ in.ok /\ ~FieldsOk(in)) \/ foreign
  <2>1. out0 # "refused" /\ in.ok /\ CapabilityOk(in, allow)
    BY <1>6, <1>7
  <2>2. ~FieldsOk(in)
    BY <1>5, <1>7, <2>1
  <2>3. CASE RequiresUsers(node.protocol)
    BY <1>4, <2>1, <2>2, <2>3
  <2>4. CASE ~RequiresUsers(node.protocol)
    <3>1. FieldsOk(in0)
      BY <1>4, <2>1, <2>4
    <3> QED
      BY <1>2, <2>1, <2>2, <3>1
  <2> QED
    BY <2>3, <2>4
<1>8. ASSUME out = "rendered"
      PROVE  out0 # "refused" /\ ~PreflightBlocked(node, allow)
  <2>1. in.ok /\ FieldsOk(in) /\ CapabilityOk(in, allow)
    BY <1>5, <1>8
  <2>2. out0 # "refused"
    BY <1>1, <1>2, <1>4, <2>1
  <2>3. ~PreflightBlocked(node, allow)
    BY <1>6, <2>1
  <2> QED
    BY <2>2, <2>3
<1>9. out0 \in {"waits", "rendered", "refused"}
  BY <1>4
<1>10. foreign <=> ForeignUser(node)
  BY DEF ForeignUser
<1> HIDE DEF foreign
<1>11. out0 = "waits" /\ in.ok /\ ~FieldsOk(in) => LateField(node, allow)
  BY DEF LateField, in, out0
<1> QED
  BY <1>7, <1>8, <1>9, <1>10, <1>11 DEF PreflightNode, out, out0

\* The listeners of a node do not depend on its users.
LEMMA ConflictWithoutUsers ==
    ASSUME NEW nodes, NEW i \in DOMAIN nodes, NEW k \in DOMAIN nodes,
           nodes[i].node \in PanelNodes, nodes[k].node \in PanelNodes
    PROVE  Conflict(Bare(nodes)[i], Bare(nodes)[k]) <=> Conflict(nodes[i], nodes[k])
<1>1. ASSUME NEW node \in PanelNodes
      PROVE  /\ WithoutUsers(node).protocol = node.protocol /\ WithoutUsers(node).port = node.port
             /\ WithoutUsers(node).network = node.network
             /\ WithoutUsers(node).transport = node.transport
  BY DEF WithoutUsers, PanelNodes
<1>2. ASSUME NEW j \in DOMAIN nodes, nodes[j].node \in PanelNodes
      PROVE  InboundOf(Bare(nodes)[j]) = InboundOf(nodes[j])
  <2> DEFINE x == Bare(nodes)[j]
  <2>1. /\ x.tag = nodes[j].tag /\ x.listen = nodes[j].listen
        /\ x.node = WithoutUsers(nodes[j].node)
    BY DEF Bare
  <2> HIDE DEF x
  <2>2. /\ x.node.protocol = nodes[j].node.protocol /\ x.node.port = nodes[j].node.port
        /\ x.node.network = nodes[j].node.network /\ x.node.transport = nodes[j].node.transport
    BY <1>1, <1>2, <2>1
  <2>3. NetworkOf(x.node) = NetworkOf(nodes[j].node)
    BY <2>2 DEF NetworkOf
  <2>4. InboundOf(x) = InboundOf(nodes[j])
    BY <2>1, <2>2, <2>3 DEF InboundOf
  <2> QED
    BY <2>4 DEF x
<1> QED
  BY <1>2 DEF Conflict

\* Of any nodes the panels can send, on any addresses and with any routes: a start
\* fails after a preflight that passed only for what the preflight does not look
\* at, and the preflight raises no false alarm (main.rs:309).
LEMMA EveryPreflight ==
    ASSUME NEW nodes, NEW allow, \A i \in DOMAIN nodes : nodes[i].node \in PanelNodes
    PROVE  PreflightHonest(nodes, allow)
<1> DEFINE now == InPlan(nodes, allow)
           bare == InPlan(Bare(nodes), allow)
           kind(i) == Outcome(nodes[i].node, allow).kind
           kind0(i) == Outcome(WithoutUsers(nodes[i].node), allow).kind
<1>1. DOMAIN Bare(nodes) = DOMAIN nodes
  BY DEF Bare
<1>2. \A i \in DOMAIN nodes : Outcome(Bare(nodes)[i].node, allow).kind = kind0(i)
  BY DEF Bare
<1>3. \A i \in DOMAIN nodes : PreflightNode(nodes[i].node, allow)
  BY OnePreflight
<1>4. \A i \in DOMAIN nodes :
        /\ kind0(i) # "refused" /\ ~PreflightBlocked(nodes[i].node, allow) /\ kind(i) = "refused" =>
             LateField(nodes[i].node, allow) \/ ForeignUser(nodes[i].node)
        /\ kind(i) = "rendered" => kind0(i) # "refused" /\ ~PreflightBlocked(nodes[i].node, allow)
        /\ kind0(i) \in {"waits", "rendered", "refused"}
  BY <1>3 DEF PreflightNode
<1>5. /\ \A i : i \in now <=> i \in DOMAIN nodes /\ kind(i) = "rendered"
      /\ \A i : i \in bare <=> i \in DOMAIN nodes /\ kind0(i) = "rendered"
  BY <1>1, <1>2 DEF InPlan
<1>6. PlanOk(nodes, allow) <=>
        /\ \A i \in DOMAIN nodes : kind(i) # "refused"
        /\ \A i, k \in now : i # k => ~Conflict(nodes[i], nodes[k])
  BY DEF PlanOk
<1>7. PlanOk(Bare(nodes), allow) <=>
        /\ \A i \in DOMAIN nodes : kind0(i) # "refused"
        /\ \A i, k \in bare : i # k => ~Conflict(nodes[i], nodes[k])
  <2>1. \A i, k \in bare : Conflict(Bare(nodes)[i], Bare(nodes)[k]) <=> Conflict(nodes[i], nodes[k])
    BY <1>5, ConflictWithoutUsers
  <2> QED
    BY <1>1, <1>2, <2>1 DEF PlanOk
<1> HIDE DEF now, bare, kind, kind0
<1>8. ASSUME PreflightOk(nodes, allow), ~StartOk(nodes, allow)
      PROVE  \E i \in DOMAIN nodes :
               \/ LateField(nodes[i].node, allow)
               \/ ForeignUser(nodes[i].node)
               \/ ~RenderConfig(nodes[i].routes).ok
               \/ kind0(i) = "waits" /\ \E k \in DOMAIN nodes \ {i} : Conflict(nodes[i], nodes[k])
  <2>1. /\ \A i \in DOMAIN nodes : kind0(i) # "refused" /\ ~PreflightBlocked(nodes[i].node, allow)
        /\ \A i, k \in bare : i # k => ~Conflict(nodes[i], nodes[k])
    BY <1>7, <1>8 DEF PreflightOk
  <2>2. CASE \E i \in DOMAIN nodes : kind(i) = "refused"
    BY <1>4, <2>1, <2>2
  <2>3. CASE \E i \in now : ~RenderConfig(nodes[i].routes).ok
    BY <1>5, <2>3
  <2>4. CASE \E i, k \in now : i # k /\ Conflict(nodes[i], nodes[k])
    <3>1. PICK i \in now, k \in now : i # k /\ Conflict(nodes[i], nodes[k])
      BY <2>4
    <3>2. i \in DOMAIN nodes /\ k \in DOMAIN nodes
      BY <1>5
    <3>3. i \notin bare \/ k \notin bare
      BY <2>1, <3>1
    <3>4. kind0(i) = "waits" \/ kind0(k) = "waits"
      BY <1>4, <1>5, <2>1, <3>2, <3>3
    <3>5. Conflict(nodes[k], nodes[i])
      BY <3>1 DEF Conflict, SpecsConflict
    <3> QED
      BY <3>1, <3>2, <3>4, <3>5
  <2>5. ~PlanOk(nodes, allow) \/ \E i \in now : ~RenderConfig(nodes[i].routes).ok
    BY <1>8 DEF StartOk, now
  <2> QED
    BY <1>6, <2>2, <2>3, <2>4, <2>5
<1>9. ASSUME StartOk(nodes, allow), now = DOMAIN nodes, bare # {}
      PROVE  PreflightOk(nodes, allow)
  <2>1. \A i, k \in DOMAIN nodes : i # k => ~Conflict(nodes[i], nodes[k])
    BY <1>6, <1>9 DEF StartOk
  <2>2. \A i \in DOMAIN nodes : kind0(i) # "refused" /\ ~PreflightBlocked(nodes[i].node, allow)
    BY <1>4, <1>5, <1>9
  <2>3. PlanOk(Bare(nodes), allow)
    BY <1>5, <1>7, <2>1, <2>2
  <2> QED
    BY <1>9, <2>2, <2>3 DEF PreflightOk, bare
<1> QED
  BY <1>8, <1>9 DEF PreflightHonest, now, bare, kind0

---------------------------------------------------------------------------
(* The capability table: no key twice, no dead row *)

\* Status and decision of a row, read off its key.
KeyStatus(cap) ==
  IF cap[1] \in {"socks", "http", "shadowsocks", "hysteria2", "tuic"}
     \/ (cap[1] = "vless" /\ cap[2] = "tcp" /\ cap[5] = "none")
     \/ (cap[1] \in {"vmess", "trojan"} /\ cap[2] = "tcp" /\ cap[3] = "none")
     \/ (cap[1] = "trojan" /\ cap[2] = "ws")
    THEN Soak
    ELSE IF cap[1] = "mieru" /\ cap[2] = "udp" THEN "unsupported" ELSE Canary

KeyDecision(cap) ==
  IF \/ cap[1] = "trojan" /\ cap[2] \in {"grpc", "httpupgrade"}
     \/ cap[1] = "mieru" /\ cap[2] = "udp"
    THEN "reject" ELSE Warn

RowOfKey(row) ==
  row = [key |-> row.key, status |-> KeyStatus(row.key), decision |-> KeyDecision(row.key)]

\* A row of one line of the table.
LEMMA LineRow ==
  ASSUME NEW p, NEW ts, NEW ss, NEW udp, NEW flow, NEW status, NEW decision,
         NEW row \in Row(p, ts, ss, udp, flow, status, decision)
  PROVE  \E t \in ts, s \in ss :
           row = [key |-> <<p, t, s, udp, flow>>, status |-> status, decision |-> decision]
  BY DEF Row

\* The line agrees with what the keys say.
LEMMA LineOfKeys ==
  ASSUME NEW p, NEW ts, NEW ss, NEW udp, NEW flow, NEW status, NEW decision,
         \A t \in ts, s \in ss : KeyStatus(<<p, t, s, udp, flow>>) = status,
         \A t \in ts, s \in ss : KeyDecision(<<p, t, s, udp, flow>>) = decision
  PROVE  \A row \in Row(p, ts, ss, udp, flow, status, decision) : RowOfKey(row)
<1> SUFFICES ASSUME NEW row \in Row(p, ts, ss, udp, flow, status, decision)
             PROVE  RowOfKey(row)
  OBVIOUS
<1>1. PICK t \in ts, s \in ss :
        row = [key |-> <<p, t, s, udp, flow>>, status |-> status, decision |-> decision]
  BY LineRow
<1> DEFINE k == <<p, t, s, udp, flow>>
<1>2. KeyStatus(k) = status /\ KeyDecision(k) = decision
  OBVIOUS
<1> HIDE DEF k
<1>3. row = [key |-> k, status |-> status, decision |-> decision]
  BY <1>1 DEF k
<1>4. row.key = k
  BY <1>3
<1> QED
  BY <1>2, <1>3, <1>4 DEF RowOfKey

LEMMA KeysDecide == \A row \in CapabilityMatrix : RowOfKey(row)
<1> USE DEF KeyStatus, KeyDecision, Soak, Canary, Warn
<1>1. \A row \in PlainRows : RowOfKey(row)
  <2>1. \A row \in Row("socks", {"tcp"}, {"none"}, "udp_associate", "none", Soak, Warn) : RowOfKey(row)
    BY LineOfKeys
  <2>2. \A row \in Row("http", {"tcp"}, {"none"}, "none", "none", Soak, Warn) : RowOfKey(row)
    BY LineOfKeys
  <2>3. \A row \in Row("shadowsocks", {"tcp"}, {"none"}, "native_udp", "none", Soak, Warn) : RowOfKey(row)
    BY LineOfKeys
  <2> QED
    BY <2>1, <2>2, <2>3, Zenon DEF PlainRows
<1>2. \A row \in VlessTcpRows : RowOfKey(row)
  <2>1. \A row \in Row("vless", {"tcp"}, {"none", "tls"}, "udp_over_stream", "none", Soak, Warn) : RowOfKey(row)
    BY LineOfKeys
  <2>2. \A row \in Row("vless", {"tcp"}, {"tls", "reality"}, "udp_over_stream", "xtls-rprx-vision",
                       Canary, Warn) : RowOfKey(row)
    BY LineOfKeys
  <2> QED
    BY <2>1, <2>2, Zenon DEF VlessTcpRows
<1>3. \A row \in VlessStreamRows : RowOfKey(row)
  BY LineOfKeys DEF VlessStreamRows
<1>4. \A row \in VmessTcpRows : RowOfKey(row)
  <2>1. \A row \in Row("vmess", {"tcp"}, {"tls"}, "udp_over_stream", "none", Canary, Warn) : RowOfKey(row)
    BY LineOfKeys
  <2>2. \A row \in Row("vmess", {"tcp"}, {"none"}, "udp_over_stream", "none", Soak, Warn) : RowOfKey(row)
    BY LineOfKeys
  <2> QED
    BY <2>1, <2>2, Zenon DEF VmessTcpRows
<1>5. \A row \in VmessStreamRows : RowOfKey(row)
  BY LineOfKeys DEF VmessStreamRows
<1>6. \A row \in TrojanRows : RowOfKey(row)
  <2>1. \A row \in Row("trojan", {"tcp"}, {"none"}, "udp_over_stream", "none", Soak, Warn) : RowOfKey(row)
    BY LineOfKeys
  <2>2. \A row \in Row("trojan", {"tcp"}, {"tls"}, "udp_over_stream", "none", Canary, Warn) : RowOfKey(row)
    BY LineOfKeys
  <2>3. \A row \in Row("trojan", {"ws"}, {"none", "tls"}, "udp_over_stream", "none", Soak, Warn) : RowOfKey(row)
    BY LineOfKeys
  <2> QED
    BY <2>1, <2>2, <2>3, Zenon DEF TrojanRows
<1>7. \A row \in TrojanCanaryRows : RowOfKey(row)
  BY LineOfKeys DEF TrojanCanaryRows
<1>8. \A row \in TlsRows : RowOfKey(row)
  <2>1. \A row \in Row("anytls", {"tcp"}, {"none", "tls"}, "udp_over_stream", "none", Canary, Warn) : RowOfKey(row)
    BY LineOfKeys
  <2>2. \A row \in Row("hysteria2", {"quic"}, {"tls"}, "native_udp", "none", Soak, Warn) : RowOfKey(row)
    BY LineOfKeys
  <2>3. \A row \in Row("tuic", {"quic"}, {"tls"}, "native_udp", "none", Soak, Warn) : RowOfKey(row)
    BY LineOfKeys
  <2>4. \A row \in Row("naive", {"h2", "quic"}, {"tls"}, "none", "none", Canary, Warn) : RowOfKey(row)
    BY LineOfKeys
  <2> QED
    BY <2>1, <2>2, <2>3, <2>4, Zenon DEF TlsRows
<1>9. \A row \in MieruRows : RowOfKey(row)
  <2>1. \A row \in Row("mieru", {"tcp"}, {"none"}, "udp_over_stream", "none", Canary, Warn) : RowOfKey(row)
    BY LineOfKeys
  <2>2. \A row \in Row("mieru", {"udp"}, {"none"}, "native_udp", "none", "unsupported", "reject") : RowOfKey(row)
    BY LineOfKeys
  <2> QED
    BY <2>1, <2>2, Zenon DEF MieruRows
<1> QED
  BY <1>1, <1>2, <1>3, <1>4, <1>5, <1>6, <1>7, <1>8, <1>9, Zenon DEF CapabilityMatrix

LEMMA KeysDiffer ==
  ASSUME NEW a \in CapabilityMatrix, NEW b \in CapabilityMatrix, a.key = b.key
  PROVE  a = b
<1>1. a = [key |-> a.key, status |-> KeyStatus(a.key), decision |-> KeyDecision(a.key)]
  BY KeysDecide DEF RowOfKey
<1>2. b = [key |-> b.key, status |-> KeyStatus(b.key), decision |-> KeyDecision(b.key)]
  BY KeysDecide DEF RowOfKey
<1> QED
  BY <1>1, <1>2

\* An inbound that passes the field checks under the key of a row that is not
\* refused is rendered.
LEMMA RowRenders ==
  ASSUME NEW row \in CapabilityMatrix, row.decision # "reject", NEW node,
         node.users \ {""} # {}, BuildInbound(node).ok, FieldsOk(BuildInbound(node)),
         CapabilityKey(BuildInbound(node)) = row.key
  PROVE  Outcome(node, {}).kind = "rendered"
<1> DEFINE in == BuildInbound(node)
           rows == {r \in CapabilityMatrix : r.key = CapabilityKey(in)}
<1>1. Capability(in) \in rows
  <2>1. row \in rows
    OBVIOUS
  <2>2. Capability(in) = CHOOSE r \in rows : TRUE
    BY <2>1 DEF Capability
  <2> HIDE DEF rows
  <2> QED
    BY <2>1, <2>2
<1>2. Capability(in) = row
  BY <1>1, KeysDiffer
<1>3. row.decision = Warn
  <2>1. row = [key |-> row.key, status |-> KeyStatus(row.key), decision |-> KeyDecision(row.key)]
    BY KeysDecide DEF RowOfKey
  <2>2. row.decision = KeyDecision(row.key)
    <3> DEFINE k == row.key
               s == KeyStatus(k)
               d == KeyDecision(k)
    <3>1. row = [key |-> k, status |-> s, decision |-> d]
      BY <2>1
    <3> HIDE DEF k, s, d
    <3>2. row.decision = d
      BY <3>1
    <3> QED
      BY <3>2 DEF d, k
  <2> QED
    BY <2>2 DEF KeyDecision
<1>4. CapabilityOk(in, {})
  BY <1>2, <1>3 DEF CapabilityOk
<1> QED
  BY <1>4, OutcomeCases


\* What the inbound built from an ordinary node has.
PlainFields(in) ==
  /\ in.padding = FALSE /\ in.bandwidth = FALSE /\ in.obfs = "" /\ in.obfsPassword = 0
  /\ in.congestion = "" /\ in.zeroRtt = FALSE /\ in.ports = FALSE /\ in.sni = TRUE
  /\ in.rejectSni = FALSE /\ in.settings = NoSettings
  /\ in.reality = {"dest", "private_key", "short_id"}
  /\ in.users = {"uuid"} /\ in.certFiles = TRUE

BuiltAs(in, protocol, network, security, flow, cipher) ==
  /\ in.ok = TRUE /\ in.protocol = protocol /\ in.network = network
  /\ in.security = security /\ in.flow = flow /\ in.cipher = cipher
  /\ PlainFields(in)

LEMMA PortGiven == 443 # 0
  OBVIOUS

LEMMA OrdinaryBuilt ==
  ASSUME NEW protocol, NEW network, network # "", NEW tls, NEW flow, NEW cipher
  PROVE  LET node == OrdinaryNode(protocol, network, tls, flow, cipher)
         IN  /\ node.users \ {""} # {}
             /\ BuiltAs(BuildInbound(node), PlanProtocol(protocol), network, SecurityOf(tls),
                        flow, cipher)
<1> DEFINE node == OrdinaryNode(protocol, network, tls, flow, cipher)
           in == BuildInbound(node)
           keys == {"dest", "private_key", "short_id"}
           some == {"uuid"}
<1>1. /\ node.protocol = protocol /\ node.network = network /\ node.tls = tls
      /\ node.certMode = "file" /\ node.flow = flow /\ node.users = some /\ node.port = 443
      /\ node.transport = "" /\ node.encryption = "" /\ node.cipher = cipher
      /\ node.padding = FALSE /\ node.bandwidth = FALSE /\ node.obfs = ""
      /\ node.obfsPassword = 0 /\ node.congestion = "" /\ node.zeroRtt = FALSE
      /\ node.ports = FALSE /\ node.sni = TRUE /\ node.rejectSni = FALSE
      /\ node.settings = NoSettings /\ node.reality = keys
  BY DEF OrdinaryNode
<1>2. some \ {""} = some /\ some # {} /\ 443 # 0
  <2>1. some \ {""} = some
    OBVIOUS
  <2>2. "uuid" \in some
    OBVIOUS
  <2>3. 443 # 0
    BY PortGiven
  <2> QED
    BY <2>1, <2>2, <2>3, Zenon
<1> HIDE DEF node, keys, some
<1>3. NetworkOf(node) = network /\ InboundSecurity(node) = SecurityOf(tls) /\ DecryptionOk(node)
  BY <1>1 DEF NetworkOf, InboundSecurity, CertModeDisablesTls, DecryptionOk
<1> DEFINE R == [ok |-> TRUE, protocol |-> PlanProtocol(protocol), network |-> network,
          security |-> SecurityOf(tls), flow |-> flow, cipher |-> cipher,
          padding |-> FALSE, bandwidth |-> FALSE, obfs |-> "",
          obfsPassword |-> 0, congestion |-> "",
          zeroRtt |-> FALSE, ports |-> FALSE, settings |-> NoSettings,
          sni |-> TRUE, rejectSni |-> FALSE, reality |-> keys,
          users |-> some, certFiles |-> TRUE]
<1>4. in = R
  <2>1. ~(\/ node.port = 0
          \/ node.protocol = "mieru" /\ node.network = "" /\ ~MieruTransportOk(node)
          \/ ~DecryptionOk(node))
    BY <1>1, <1>2, <1>3, Zenon
  <2>2. in = [ok |-> TRUE, protocol |-> PlanProtocol(node.protocol), network |-> NetworkOf(node),
          security |-> InboundSecurity(node), flow |-> node.flow, cipher |-> node.cipher,
          padding |-> node.padding, bandwidth |-> node.bandwidth, obfs |-> node.obfs,
          obfsPassword |-> node.obfsPassword, congestion |-> node.congestion,
          zeroRtt |-> node.zeroRtt, ports |-> node.ports, settings |-> node.settings,
          sni |-> node.sni, rejectSni |-> node.rejectSni, reality |-> node.reality,
          users |-> node.users \ {""}, certFiles |-> TRUE]
    BY <2>1, Zenon DEF BuildInbound
  <2> HIDE DEF in
  <2> QED
    BY <1>1, <1>2, <1>3, <2>2, Zenon
<1>5. BuiltAs(R, PlanProtocol(protocol), network, SecurityOf(tls), flow, cipher)
  BY DEF PlainFields, BuiltAs, keys, some
<1> HIDE DEF R, in
<1>6. BuiltAs(in, PlanProtocol(protocol), network, SecurityOf(tls), flow, cipher)
  BY <1>4, <1>5
<1>7. node.users \ {""} # {}
  BY <1>1, <1>2
<1> QED
  BY <1>6, <1>7 DEF node, in

\* An ordinary node is accepted under the key.
KeyReached(cap) ==
  \E node \in NodeInputs :
    /\ node.users \ {""} # {}
    /\ BuildInbound(node).ok /\ FieldsOk(BuildInbound(node))
    /\ CapabilityKey(BuildInbound(node)) = cap

\* Whatever is built with these fields passes the field checks under the key.
Accepts(protocol, network, security, flow, cipher, cap) ==
  \A in : BuiltAs(in, protocol, network, security, flow, cipher)
            => FieldsOk(in) /\ CapabilityKey(in) = cap

LEMMA OrdinaryReaches ==
  ASSUME OrdinaryNodesIn(NodeInputs),
         NEW protocol, protocol \in Protocols, NEW network, network # "",
         network \in OrdinaryNetworks,
         NEW tls, tls \in 0..2, NEW flow, flow \in {"", "xtls-rprx-vision"},
         NEW cipher, cipher \in {"", "aes-128-gcm"}, NEW cap,
         Accepts(PlanProtocol(protocol), network, SecurityOf(tls), flow, cipher, cap)
  PROVE  KeyReached(cap)
<1> DEFINE node == OrdinaryNode(protocol, network, tls, flow, cipher)
           in == BuildInbound(node)
<1>1. /\ node.users \ {""} # {}
      /\ BuiltAs(in, PlanProtocol(protocol), network, SecurityOf(tls), flow, cipher)
  BY OrdinaryBuilt
<1>2. node \in NodeInputs
  BY DEF OrdinaryNodesIn
<1> HIDE DEF node
<1>3. FieldsOk(in) /\ CapabilityKey(in) = cap
  BY <1>1 DEF Accepts
<1>4. in.ok
  BY <1>1 DEF BuiltAs
<1> QED
  BY <1>1, <1>2, <1>3, <1>4 DEF KeyReached

LEMMA SecurityNames == SecurityOf(0) = "none" /\ SecurityOf(1) = "tls" /\ SecurityOf(2) = "reality"
  BY DEF SecurityOf

LEMMA NoSettingsOk == HttpSettingsOk(NoSettings) /\ GrpcSettingsOk(NoSettings)
  BY DEF HttpSettingsOk, GrpcSettingsOk, NoSettings

\* VLESS, VMess and Trojan over every stream transport, with TLS or without.
LEMMA StreamReached ==
  OrdinaryNodesIn(NodeInputs) =>
  \A p \in {"vless", "vmess", "trojan"}, n \in {"tcp", "ws", "httpupgrade", "grpc"},
     s \in {"none", "tls"} : KeyReached(<<p, n, s, "udp_over_stream", "none">>)
<1> SUFFICES ASSUME OrdinaryNodesIn(NodeInputs),
                    NEW p \in {"vless", "vmess", "trojan"},
                    NEW n \in {"tcp", "ws", "httpupgrade", "grpc"}, NEW s \in {"none", "tls"}
             PROVE  KeyReached(<<p, n, s, "udp_over_stream", "none">>)
  OBVIOUS
<1> DEFINE k == <<p, n, s, "udp_over_stream", "none">>
<1>1. ASSUME NEW in, BuiltAs(in, p, n, s, "", "")
      PROVE  FieldsOk(in) /\ CapabilityKey(in) = k
  <2>1. /\ in.protocol = p /\ in.network = n /\ in.security = s /\ in.flow = "" /\ in.cipher = ""
        /\ PlainFields(in)
    BY <1>1 DEF BuiltAs
  <2>2. TransportNetwork(in) = n
    BY <2>1 DEF TransportNetwork
  <2>3. ScopedFieldsOk(in) /\ FlowOk(in, n)
    BY <2>1 DEF PlainFields, ScopedFieldsOk, FlowOk
  <2>4. TlsOk(in)
    BY <2>1, <2>2 DEF TlsOk, CertificateOk, PlainFields
  <2>5. StreamInboundOk(in)
    BY <2>1, <2>2, <2>3, <2>4, NoSettingsOk DEF StreamInboundOk, PlainFields
  <2>6. FieldsOk(in)
    BY <2>1, <2>3, <2>5 DEF FieldsOk
  <2>7. CapabilityTransport(in) = n /\ CapabilityUdpMode(in) = "udp_over_stream"
        /\ FileProtocol(in.protocol) = p
    BY <2>1, <2>2 DEF CapabilityTransport, CapabilityUdpMode, FileProtocol
  <2> QED
    BY <2>1, <2>6, <2>7 DEF CapabilityKey
<1> HIDE DEF k
<1>2. PICK t \in 0..2 : SecurityOf(t) = s
  BY DEF SecurityOf
<1>3. PlanProtocol(p) = p /\ p \in Protocols
  BY DEF PlanProtocol, Protocols
<1>4. Accepts(PlanProtocol(p), n, SecurityOf(t), "", "", k)
  BY <1>1, <1>2, <1>3 DEF Accepts
<1>5. n # "" /\ n \in OrdinaryNetworks
  BY DEF OrdinaryNetworks
<1>6. KeyReached(k)
  BY <1>3, <1>4, <1>5, OrdinaryReaches
<1> QED
  BY <1>6 DEF k

\* Plain protocols and shadowsocks.
LEMMA PlainReached ==
  ASSUME OrdinaryNodesIn(NodeInputs)
  PROVE  /\ KeyReached(<<"socks", "tcp", "none", "udp_associate", "none">>)
         /\ KeyReached(<<"http", "tcp", "none", "none", "none">>)
         /\ KeyReached(<<"shadowsocks", "tcp", "none", "native_udp", "none">>)
         /\ KeyReached(<<"mieru", "tcp", "none", "udp_over_stream", "none">>)
<1>1. KeyReached(<<"socks", "tcp", "none", "udp_associate", "none">>)
  <2> DEFINE k == <<"socks", "tcp", "none", "udp_associate", "none">>
  <2>1. ASSUME NEW in, BuiltAs(in, "socks", "tcp", "none", "", "")
        PROVE  FieldsOk(in) /\ CapabilityKey(in) = k
    BY <2>1 DEF FieldsOk, ScopedFieldsOk, BuiltAs, PlainFields, PlainTcpOk, FlowOk,
         CapabilityKey, CapabilityTransport, CapabilityUdpMode,
         TransportNetwork, FileProtocol
  <2> HIDE DEF k
  <2>2. Accepts(PlanProtocol("socks"), "tcp", SecurityOf(0), "", "", k)
    <3>1. PlanProtocol("socks") = "socks"
      BY DEF PlanProtocol
    <3> QED
      BY <2>1, <3>1, SecurityNames, Zenon DEF Accepts
  <2>3. "socks" \in Protocols /\ 0 \in 0..2
    BY DEF Protocols
  <2>4. KeyReached(k)
    BY <2>2, <2>3, OrdinaryReaches, Zenon DEF OrdinaryNetworks
  <2> QED
    BY <2>4 DEF k
<1>2. KeyReached(<<"http", "tcp", "none", "none", "none">>)
  <2> DEFINE k == <<"http", "tcp", "none", "none", "none">>
  <2>1. ASSUME NEW in, BuiltAs(in, "http", "tcp", "none", "", "")
        PROVE  FieldsOk(in) /\ CapabilityKey(in) = k
    BY <2>1 DEF FieldsOk, ScopedFieldsOk, BuiltAs, PlainFields, PlainTcpOk, FlowOk,
         CapabilityKey, CapabilityTransport, CapabilityUdpMode,
         TransportNetwork, FileProtocol
  <2> HIDE DEF k
  <2>2. Accepts(PlanProtocol("http"), "tcp", SecurityOf(0), "", "", k)
    <3>1. PlanProtocol("http") = "http"
      BY DEF PlanProtocol
    <3> QED
      BY <2>1, <3>1, SecurityNames, Zenon DEF Accepts
  <2>3. "http" \in Protocols /\ 0 \in 0..2
    BY DEF Protocols
  <2>4. KeyReached(k)
    BY <2>2, <2>3, OrdinaryReaches, Zenon DEF OrdinaryNetworks
  <2> QED
    BY <2>4 DEF k
<1>3. KeyReached(<<"shadowsocks", "tcp", "none", "native_udp", "none">>)
  <2> DEFINE k == <<"shadowsocks", "tcp", "none", "native_udp", "none">>
  <2>1. ASSUME NEW in, BuiltAs(in, "shadowsocks", "tcp", "none", "", "aes-128-gcm")
        PROVE  FieldsOk(in) /\ CapabilityKey(in) = k
    BY <2>1 DEF FieldsOk, ScopedFieldsOk, BuiltAs, PlainFields, PlainTcpOk, FlowOk, KnownCiphers,
         CapabilityKey, CapabilityTransport, CapabilityUdpMode,
         TransportNetwork, FileProtocol
  <2> HIDE DEF k
  <2>2. Accepts(PlanProtocol("shadowsocks"), "tcp", SecurityOf(0), "", "aes-128-gcm", k)
    <3>1. PlanProtocol("shadowsocks") = "shadowsocks"
      BY DEF PlanProtocol
    <3> QED
      BY <2>1, <3>1, SecurityNames, Zenon DEF Accepts
  <2>3. "shadowsocks" \in Protocols /\ 0 \in 0..2
    BY DEF Protocols
  <2>4. KeyReached(k)
    BY <2>2, <2>3, OrdinaryReaches, Zenon DEF OrdinaryNetworks
  <2> QED
    BY <2>4 DEF k
<1>4. KeyReached(<<"mieru", "tcp", "none", "udp_over_stream", "none">>)
  <2> DEFINE k == <<"mieru", "tcp", "none", "udp_over_stream", "none">>
  <2>1. ASSUME NEW in, BuiltAs(in, "mieru", "tcp", "none", "", "")
        PROVE  FieldsOk(in) /\ CapabilityKey(in) = k
    BY <2>1 DEF FieldsOk, ScopedFieldsOk, BuiltAs, PlainFields, PlainTcpOk, FlowOk,
         CapabilityKey, CapabilityTransport, CapabilityUdpMode,
         TransportNetwork, FileProtocol
  <2> HIDE DEF k
  <2>2. Accepts(PlanProtocol("mieru"), "tcp", SecurityOf(0), "", "", k)
    <3>1. PlanProtocol("mieru") = "mieru"
      BY DEF PlanProtocol
    <3> QED
      BY <2>1, <3>1, SecurityNames, Zenon DEF Accepts
  <2>3. "mieru" \in Protocols /\ 0 \in 0..2
    BY DEF Protocols
  <2>4. KeyReached(k)
    BY <2>2, <2>3, OrdinaryReaches, Zenon DEF OrdinaryNetworks
  <2> QED
    BY <2>4 DEF k
<1> QED
  BY <1>1, <1>2, <1>3, <1>4, Zenon

\* VLESS with Vision.
LEMMA VisionReached ==
  ASSUME OrdinaryNodesIn(NodeInputs)
  PROVE  /\ KeyReached(<<"vless", "tcp", "tls", "udp_over_stream", "xtls-rprx-vision">>)
         /\ KeyReached(<<"vless", "tcp", "reality", "udp_over_stream", "xtls-rprx-vision">>)
<1>1. KeyReached(<<"vless", "tcp", "tls", "udp_over_stream", "xtls-rprx-vision">>)
  <2> DEFINE k == <<"vless", "tcp", "tls", "udp_over_stream", "xtls-rprx-vision">>
  <2>1. ASSUME NEW in, BuiltAs(in, "vless", "tcp", "tls", "xtls-rprx-vision", "")
        PROVE  FieldsOk(in) /\ CapabilityKey(in) = k
    BY <2>1 DEF FieldsOk, ScopedFieldsOk, BuiltAs, PlainFields, StreamInboundOk, FlowOk, TlsOk, CertificateOk, RealityOk,
         CapabilityKey, CapabilityTransport, CapabilityUdpMode,
         TransportNetwork, FileProtocol
  <2> HIDE DEF k
  <2>2. Accepts(PlanProtocol("vless"), "tcp", SecurityOf(1), "xtls-rprx-vision", "", k)
    <3>1. PlanProtocol("vless") = "vless"
      BY DEF PlanProtocol
    <3> QED
      BY <2>1, <3>1, SecurityNames, Zenon DEF Accepts
  <2>3. "vless" \in Protocols /\ 1 \in 0..2
    BY DEF Protocols
  <2>4. KeyReached(k)
    BY <2>2, <2>3, OrdinaryReaches, Zenon DEF OrdinaryNetworks
  <2> QED
    BY <2>4 DEF k
<1>2. KeyReached(<<"vless", "tcp", "reality", "udp_over_stream", "xtls-rprx-vision">>)
  <2> DEFINE k == <<"vless", "tcp", "reality", "udp_over_stream", "xtls-rprx-vision">>
  <2>1. ASSUME NEW in, BuiltAs(in, "vless", "tcp", "reality", "xtls-rprx-vision", "")
        PROVE  FieldsOk(in) /\ CapabilityKey(in) = k
    BY <2>1 DEF FieldsOk, ScopedFieldsOk, BuiltAs, PlainFields, StreamInboundOk, FlowOk, TlsOk, CertificateOk, RealityOk,
         CapabilityKey, CapabilityTransport, CapabilityUdpMode,
         TransportNetwork, FileProtocol
  <2> HIDE DEF k
  <2>2. Accepts(PlanProtocol("vless"), "tcp", SecurityOf(2), "xtls-rprx-vision", "", k)
    <3>1. PlanProtocol("vless") = "vless"
      BY DEF PlanProtocol
    <3> QED
      BY <2>1, <3>1, SecurityNames, Zenon DEF Accepts
  <2>3. "vless" \in Protocols /\ 2 \in 0..2
    BY DEF Protocols
  <2>4. KeyReached(k)
    BY <2>2, <2>3, OrdinaryReaches, Zenon DEF OrdinaryNetworks
  <2> QED
    BY <2>4 DEF k
<1> QED
  BY <1>1, <1>2, Zenon

\* The protocols that bring their own TLS.
LEMMA TlsReached ==
  ASSUME OrdinaryNodesIn(NodeInputs)
  PROVE  /\ KeyReached(<<"anytls", "tcp", "none", "udp_over_stream", "none">>)
         /\ KeyReached(<<"anytls", "tcp", "tls", "udp_over_stream", "none">>)
         /\ KeyReached(<<"hysteria2", "quic", "tls", "native_udp", "none">>)
         /\ KeyReached(<<"tuic", "quic", "tls", "native_udp", "none">>)
         /\ KeyReached(<<"naive", "h2", "tls", "none", "none">>)
         /\ KeyReached(<<"naive", "quic", "tls", "none", "none">>)
<1>1. KeyReached(<<"anytls", "tcp", "none", "udp_over_stream", "none">>)
  <2> DEFINE k == <<"anytls", "tcp", "none", "udp_over_stream", "none">>
  <2>1. ASSUME NEW in, BuiltAs(in, "anytls", "tcp", "none", "", "")
        PROVE  FieldsOk(in) /\ CapabilityKey(in) = k
    BY <2>1 DEF FieldsOk, ScopedFieldsOk, BuiltAs, PlainFields, PlainTcpOk, FlowOk, TlsOk, CertificateOk,
         CapabilityKey, CapabilityTransport, CapabilityUdpMode,
         TransportNetwork, FileProtocol
  <2> HIDE DEF k
  <2>2. Accepts(PlanProtocol("anytls"), "tcp", SecurityOf(0), "", "", k)
    <3>1. PlanProtocol("anytls") = "anytls"
      BY DEF PlanProtocol
    <3> QED
      BY <2>1, <3>1, SecurityNames, Zenon DEF Accepts
  <2>3. "anytls" \in Protocols /\ 0 \in 0..2
    BY DEF Protocols
  <2>4. KeyReached(k)
    BY <2>2, <2>3, OrdinaryReaches, Zenon DEF OrdinaryNetworks
  <2> QED
    BY <2>4 DEF k
<1>2. KeyReached(<<"anytls", "tcp", "tls", "udp_over_stream", "none">>)
  <2> DEFINE k == <<"anytls", "tcp", "tls", "udp_over_stream", "none">>
  <2>1. ASSUME NEW in, BuiltAs(in, "anytls", "tcp", "tls", "", "")
        PROVE  FieldsOk(in) /\ CapabilityKey(in) = k
    BY <2>1 DEF FieldsOk, ScopedFieldsOk, BuiltAs, PlainFields, PlainTcpOk, FlowOk, TlsOk, CertificateOk,
         CapabilityKey, CapabilityTransport, CapabilityUdpMode,
         TransportNetwork, FileProtocol
  <2> HIDE DEF k
  <2>2. Accepts(PlanProtocol("anytls"), "tcp", SecurityOf(1), "", "", k)
    <3>1. PlanProtocol("anytls") = "anytls"
      BY DEF PlanProtocol
    <3> QED
      BY <2>1, <3>1, SecurityNames, Zenon DEF Accepts
  <2>3. "anytls" \in Protocols /\ 1 \in 0..2
    BY DEF Protocols
  <2>4. KeyReached(k)
    BY <2>2, <2>3, OrdinaryReaches, Zenon DEF OrdinaryNetworks
  <2> QED
    BY <2>4 DEF k
<1>3. KeyReached(<<"hysteria2", "quic", "tls", "native_udp", "none">>)
  <2> DEFINE k == <<"hysteria2", "quic", "tls", "native_udp", "none">>
  <2>1. ASSUME NEW in, BuiltAs(in, "hysteria", "hysteria2", "tls", "", "")
        PROVE  FieldsOk(in) /\ CapabilityKey(in) = k
    BY <2>1 DEF FieldsOk, ScopedFieldsOk, BuiltAs, PlainFields, Hysteria2Ok, CertificateOk, CongestionOk,
         CapabilityKey, CapabilityTransport, CapabilityUdpMode,
         TransportNetwork, FileProtocol
  <2> HIDE DEF k
  <2>2. Accepts(PlanProtocol("hysteria2"), "hysteria2", SecurityOf(1), "", "", k)
    <3>1. PlanProtocol("hysteria2") = "hysteria"
      BY DEF PlanProtocol
    <3> QED
      BY <2>1, <3>1, SecurityNames, Zenon DEF Accepts
  <2>3. "hysteria2" \in Protocols /\ 1 \in 0..2
    BY DEF Protocols
  <2>4. KeyReached(k)
    BY <2>2, <2>3, OrdinaryReaches, Zenon DEF OrdinaryNetworks
  <2> QED
    BY <2>4 DEF k
<1>4. KeyReached(<<"tuic", "quic", "tls", "native_udp", "none">>)
  <2> DEFINE k == <<"tuic", "quic", "tls", "native_udp", "none">>
  <2>1. ASSUME NEW in, BuiltAs(in, "tuic", "tuic", "tls", "", "")
        PROVE  FieldsOk(in) /\ CapabilityKey(in) = k
    BY <2>1 DEF FieldsOk, ScopedFieldsOk, BuiltAs, PlainFields, TuicOk, CertificateOk, CongestionOk,
         CapabilityKey, CapabilityTransport, CapabilityUdpMode,
         TransportNetwork, FileProtocol
  <2> HIDE DEF k
  <2>2. Accepts(PlanProtocol("tuic"), "tuic", SecurityOf(1), "", "", k)
    <3>1. PlanProtocol("tuic") = "tuic"
      BY DEF PlanProtocol
    <3> QED
      BY <2>1, <3>1, SecurityNames, Zenon DEF Accepts
  <2>3. "tuic" \in Protocols /\ 1 \in 0..2
    BY DEF Protocols
  <2>4. KeyReached(k)
    BY <2>2, <2>3, OrdinaryReaches, Zenon DEF OrdinaryNetworks
  <2> QED
    BY <2>4 DEF k
<1>5. KeyReached(<<"naive", "h2", "tls", "none", "none">>)
  <2> DEFINE k == <<"naive", "h2", "tls", "none", "none">>
  <2>1. ASSUME NEW in, BuiltAs(in, "naive", "tcp", "tls", "", "")
        PROVE  FieldsOk(in) /\ CapabilityKey(in) = k
    BY <2>1 DEF FieldsOk, ScopedFieldsOk, BuiltAs, PlainFields, NaiveOk, TlsOk, CertificateOk,
         CapabilityKey, CapabilityTransport, CapabilityUdpMode,
         TransportNetwork, FileProtocol
  <2> HIDE DEF k
  <2>2. Accepts(PlanProtocol("naive"), "tcp", SecurityOf(1), "", "", k)
    <3>1. PlanProtocol("naive") = "naive"
      BY DEF PlanProtocol
    <3> QED
      BY <2>1, <3>1, SecurityNames, Zenon DEF Accepts
  <2>3. "naive" \in Protocols /\ 1 \in 0..2
    BY DEF Protocols
  <2>4. KeyReached(k)
    BY <2>2, <2>3, OrdinaryReaches, Zenon DEF OrdinaryNetworks
  <2> QED
    BY <2>4 DEF k
<1>6. KeyReached(<<"naive", "quic", "tls", "none", "none">>)
  <2> DEFINE k == <<"naive", "quic", "tls", "none", "none">>
  <2>1. ASSUME NEW in, BuiltAs(in, "naive", "quic", "tls", "", "")
        PROVE  FieldsOk(in) /\ CapabilityKey(in) = k
    BY <2>1 DEF FieldsOk, ScopedFieldsOk, BuiltAs, PlainFields, NaiveOk, TlsOk, CertificateOk,
         CapabilityKey, CapabilityTransport, CapabilityUdpMode,
         TransportNetwork, FileProtocol
  <2> HIDE DEF k
  <2>2. Accepts(PlanProtocol("naive"), "quic", SecurityOf(1), "", "", k)
    <3>1. PlanProtocol("naive") = "naive"
      BY DEF PlanProtocol
    <3> QED
      BY <2>1, <3>1, SecurityNames, Zenon DEF Accepts
  <2>3. "naive" \in Protocols /\ 1 \in 0..2
    BY DEF Protocols
  <2>4. KeyReached(k)
    BY <2>2, <2>3, OrdinaryReaches, Zenon DEF OrdinaryNetworks
  <2> QED
    BY <2>4 DEF k
<1> QED
  BY <1>1, <1>2, <1>3, <1>4, <1>5, <1>6, Zenon

\* With the ordinary nodes among the questions, every row that is not refused is
\* reached.
LEMMA EveryKeyReached ==
  ASSUME OrdinaryNodesIn(NodeInputs), NEW row \in CapabilityMatrix, row.decision # "reject"
  PROVE  KeyReached(row.key)
<1>1. CASE row \in PlainRows
  <2>1. row.key \in {<<"socks", "tcp", "none", "udp_associate", "none">>,
                     <<"http", "tcp", "none", "none", "none">>,
                     <<"shadowsocks", "tcp", "none", "native_udp", "none">>}
    BY <1>1 DEF PlainRows, Row
  <2> QED
    BY <2>1, PlainReached
<1>2. CASE row \in VlessTcpRows
  <2>1. \/ \E s \in {"none", "tls"} : row.key = <<"vless", "tcp", s, "udp_over_stream", "none">>
        \/ row.key \in {<<"vless", "tcp", "tls", "udp_over_stream", "xtls-rprx-vision">>,
                        <<"vless", "tcp", "reality", "udp_over_stream", "xtls-rprx-vision">>}
    BY <1>2 DEF VlessTcpRows, Row
  <2>2. ASSUME NEW s \in {"none", "tls"}
        PROVE  KeyReached(<<"vless", "tcp", s, "udp_over_stream", "none">>)
    <3>1. "vless" \in {"vless", "vmess", "trojan"} /\ "tcp" \in {"tcp", "ws", "httpupgrade", "grpc"}
      OBVIOUS
    <3> QED
      BY <3>1, StreamReached, Zenon
  <2> QED
    BY <2>1, <2>2, VisionReached, Zenon
<1>3. CASE row \in VlessStreamRows \cup VmessTcpRows \cup VmessStreamRows
  <2>1. \E p \in {"vless", "vmess"}, n \in {"tcp", "ws", "httpupgrade", "grpc"}, s \in {"none", "tls"} :
          row.key = <<p, n, s, "udp_over_stream", "none">>
    BY <1>3 DEF VlessStreamRows, VmessTcpRows, VmessStreamRows, Row
  <2>2. PICK p \in {"vless", "vmess"}, n \in {"tcp", "ws", "httpupgrade", "grpc"},
             s \in {"none", "tls"} : row.key = <<p, n, s, "udp_over_stream", "none">>
    BY <2>1, Zenon
  <2>3. p \in {"vless", "vmess", "trojan"}
    OBVIOUS
  <2>4. KeyReached(<<p, n, s, "udp_over_stream", "none">>)
    BY <2>3, StreamReached, Zenon
  <2> QED
    BY <2>2, <2>4, Zenon
<1>4. CASE row \in TrojanRows
  <2>1. \E n \in {"tcp", "ws"}, s \in {"none", "tls"} :
          row.key = <<"trojan", n, s, "udp_over_stream", "none">>
    BY <1>4 DEF TrojanRows, Row
  <2>2. PICK n \in {"tcp", "ws"}, s \in {"none", "tls"} :
               row.key = <<"trojan", n, s, "udp_over_stream", "none">>
    BY <2>1, Zenon
  <2>3. n \in {"tcp", "ws", "httpupgrade", "grpc"} /\ "trojan" \in {"vless", "vmess", "trojan"}
    OBVIOUS
  <2>4. KeyReached(<<"trojan", n, s, "udp_over_stream", "none">>)
    BY <2>3, StreamReached, Zenon
  <2> QED
    BY <2>2, <2>4, Zenon
<1>5. CASE row \in TlsRows
  <2>1. row.key \in {<<"anytls", "tcp", "none", "udp_over_stream", "none">>,
                     <<"anytls", "tcp", "tls", "udp_over_stream", "none">>,
                     <<"hysteria2", "quic", "tls", "native_udp", "none">>,
                     <<"tuic", "quic", "tls", "native_udp", "none">>,
                     <<"naive", "h2", "tls", "none", "none">>,
                     <<"naive", "quic", "tls", "none", "none">>}
    BY <1>5 DEF TlsRows, Row
  <2> QED
    BY <2>1, TlsReached
<1>6. CASE row \in TrojanCanaryRows \cup MieruRows
  <2>1. row.decision = "reject" \/ row.key = <<"mieru", "tcp", "none", "udp_over_stream", "none">>
    BY <1>6 DEF TrojanCanaryRows, MieruRows, Row
  <2> QED
    BY <2>1, PlainReached
<1> QED
  BY <1>1, <1>2, <1>3, <1>4, <1>5, <1>6 DEF CapabilityMatrix

LEMMA TableReached == OrdinaryNodesIn(NodeInputs) => EveryRowReached(NodeInputs)
<1> SUFFICES ASSUME OrdinaryNodesIn(NodeInputs)
             PROVE  EveryRowReached(NodeInputs)
  OBVIOUS
<1>1. ASSUME NEW row \in CapabilityMatrix, row.decision # "reject"
      PROVE  \E node \in NodeInputs :
               Outcome(node, {}).kind = "rendered" /\ CapabilityKey(BuildInbound(node)) = row.key
  <2>1. KeyReached(row.key)
    BY <1>1, EveryKeyReached
  <2>2. PICK node \in NodeInputs :
          /\ node.users \ {""} # {}
          /\ BuildInbound(node).ok /\ FieldsOk(BuildInbound(node))
          /\ CapabilityKey(BuildInbound(node)) = row.key
    BY <2>1 DEF KeyReached
  <2>3. Outcome(node, {}).kind = "rendered"
    BY <1>1, <2>2, RowRenders
  <2> QED
    BY <2>2, <2>3
<1> QED
  BY <1>1, KeysDiffer DEF EveryRowReached

---------------------------------------------------------------------------
(* Induction over the naturals, and sequences in a row *)

\* Every nonempty set of naturals has a least element.
LEMMA LeastNat ==
    ASSUME NEW S \in SUBSET Nat, S # {}
    PROVE  \E x \in S : \A y \in S : x <= y
<1>1. PICK x \in S : \A y \in S : ~ (<<y, x>> \in OpToRel(<, Nat))
  BY WFMin, NatLessThanWellFounded
<1>2. ASSUME NEW y \in S PROVE ~ (y < x)
  <2>1. <<y, x>> \notin OpToRel(<, Nat)
    BY <1>1
  <2>2. y \in Nat /\ x \in Nat
    OBVIOUS
  <2> QED
    BY <2>1, <2>2 DEF OpToRel
<1>3. \A y \in S : x <= y
  BY <1>2
<1> QED
  BY <1>3

\* Induction over the naturals, for a set.
LEMMA SetInduction ==
    ASSUME NEW S, 0 \in S, \A n \in Nat : n \in S => n + 1 \in S
    PROVE  Nat \subseteq S
<1> SUFFICES ASSUME Nat \ S # {} PROVE FALSE
  OBVIOUS
<1>1. PICK x \in Nat \ S : \A y \in Nat \ S : x <= y
  BY LeastNat
<1>2. x - 1 \in Nat /\ ~ (x <= x - 1) /\ x = (x - 1) + 1
  OBVIOUS
<1> QED
  BY <1>1, <1>2

\* The elements of two sequences in a row.
LEMMA ConcatElements ==
    ASSUME NEW T, NEW s \in Seq(T), NEW t \in Seq(T)
    PROVE  ToSet(s \o t) = ToSet(s) \cup ToSet(t)
<1> DEFINE u == s \o t
<1>1. /\ DOMAIN u = 1..(Len(s) + Len(t)) /\ DOMAIN s = 1..Len(s) /\ DOMAIN t = 1..Len(t)
      /\ Len(s) \in Nat /\ Len(t) \in Nat
  OBVIOUS
<1>2. \A i \in 1..Len(s) : u[i] = s[i]
  OBVIOUS
<1>3. \A i \in 1..Len(t) : u[Len(s) + i] = t[i]
  OBVIOUS
<1>4. \A i \in DOMAIN u : i \notin DOMAIN s => i - Len(s) \in DOMAIN t /\ u[i] = t[i - Len(s)]
  BY <1>1, <1>3
<1> HIDE DEF u
<1>5. ToSet(u) \subseteq ToSet(s) \cup ToSet(t)
  BY <1>1, <1>2, <1>4 DEF ToSet
<1>6. ToSet(s) \subseteq ToSet(u)
  BY <1>1, <1>2 DEF ToSet
<1>7. ToSet(t) \subseteq ToSet(u)
  <2> SUFFICES ASSUME NEW i \in DOMAIN t PROVE t[i] \in ToSet(u)
    BY DEF ToSet
  <2>1. Len(s) + i \in DOMAIN u /\ u[Len(s) + i] = t[i]
    BY <1>1, <1>3
  <2> QED
    BY <2>1 DEF ToSet
<1> QED
  BY <1>5, <1>6, <1>7 DEF u

---------------------------------------------------------------------------
(* Lists that are filtered in their order (OrderedFilter) *)

\* Induction over sequences that grow at the end, for a set.
LEMMA SeqInduction ==
    ASSUME NEW T, NEW S,
           <<>> \in S,
           \A s \in Seq(T), x \in T : s \in S => Append(s, x) \in S
    PROVE  Seq(T) \subseteq S
<1> DEFINE N == {n \in Nat : \A s \in Seq(T) : Len(s) = n => s \in S}
<1>1. 0 \in N
  OBVIOUS
<1>2. ASSUME NEW n \in Nat, n \in N PROVE n + 1 \in N
  <2> SUFFICES ASSUME NEW s \in Seq(T), Len(s) = n + 1 PROVE s \in S
    OBVIOUS
  <2> DEFINE p == SubSeq(s, 1, n)
  <2>1. p \in Seq(T) /\ Len(p) = n /\ s[n + 1] \in T
    OBVIOUS
  <2>2. s = Append(p, s[n + 1])
    OBVIOUS
  <2>3. p \in S
    BY <1>2, <2>1
  <2> QED
    BY <2>1, <2>2, <2>3
<1> HIDE DEF N
<1>3. Nat \subseteq N
  BY <1>1, <1>2, SetInduction
<1> QED
  BY <1>3 DEF N

\* What is in a list with one element more.
LEMMA AppendElements ==
    ASSUME NEW T, NEW s \in Seq(T), NEW x
    PROVE  ToSet(Append(s, x)) = ToSet(s) \cup {x}
<1> DEFINE t == Append(s, x)
<1>1. Len(t) = Len(s) + 1 /\ DOMAIN t = 1..(Len(s) + 1) /\ DOMAIN s = 1..Len(s) /\ Len(s) \in Nat
  OBVIOUS
<1>2. \A i \in 1..Len(s) : t[i] = s[i]
  OBVIOUS
<1>3. t[Len(s) + 1] = x
  OBVIOUS
<1> HIDE DEF t
<1>4. ToSet(t) = ToSet(s) \cup {x}
  BY <1>1, <1>2, <1>3 DEF ToSet
<1> QED
  BY <1>4 DEF t

\* When a list with one element more has no repetitions.
LEMMA AppendInjectiveIff ==
    ASSUME NEW T, NEW s \in Seq(T), NEW x
    PROVE  IsInjective(Append(s, x)) <=> IsInjective(s) /\ x \notin ToSet(s)
<1> DEFINE t == Append(s, x)
<1>1. Len(t) = Len(s) + 1 /\ DOMAIN t = 1..(Len(s) + 1) /\ DOMAIN s = 1..Len(s) /\ Len(s) \in Nat
  OBVIOUS
<1>2. \A i \in 1..Len(s) : t[i] = s[i]
  OBVIOUS
<1>3. t[Len(s) + 1] = x
  OBVIOUS
<1> HIDE DEF t
<1>4. IsInjective(t) => IsInjective(s) /\ x \notin ToSet(s)
  BY <1>1, <1>2, <1>3 DEF ToSet, IsInjective
<1>5. IsInjective(s) /\ x \notin ToSet(s) => IsInjective(t)
  BY <1>1, <1>2, <1>3 DEF ToSet, IsInjective
<1> QED
  BY <1>4, <1>5 DEF t

\* One step of the recursion: what is kept of s up to i, from what is kept up to
\* i - 1.
Kept(s, S, before, i) == IF s[i] \in S THEN Append(before, s[i]) ELSE before

\* g is the function that Among computes for s, on the first n positions.
Filters(g, s, S, n) ==
    g = [i \in 0..n |-> IF i = 0 THEN <<>> ELSE Kept(s, S, g[i - 1], i)]

\* There is such a function, for every sequence and every number of positions.
LEMMA FilterExists ==
    ASSUME NEW s, NEW S
    PROVE  \A n \in Nat : \E g : Filters(g, s, S, n)
<1> DEFINE N == {n \in Nat : \E g : Filters(g, s, S, n)}
<1>1. 0 \in N
  <2> DEFINE g == [i \in 0..0 |-> <<>>]
  <2>1. Filters(g, s, S, 0)
    BY DEF Filters
  <2> QED
    BY <2>1
<1>2. ASSUME NEW n \in Nat, n \in N PROVE n + 1 \in N
  <2>1. PICK g : Filters(g, s, S, n)
    BY <1>2
  <2> DEFINE h == [i \in 0..(n + 1) |-> IF i <= n THEN g[i] ELSE Kept(s, S, g[n], n + 1)]
  <2>2. ASSUME NEW i \in 0..(n + 1)
        PROVE  h[i] = IF i = 0 THEN <<>> ELSE Kept(s, S, h[i - 1], i)
    <3>1. CASE i = 0
      BY <3>1, <2>1 DEF Filters
    <3>2. CASE i # 0 /\ i <= n
      <4>1. h[i] = g[i] /\ h[i - 1] = g[i - 1]
        BY <3>2
      <4>2. g[i] = Kept(s, S, g[i - 1], i)
        BY <3>2, <2>1 DEF Filters
      <4> QED
        BY <4>1, <4>2, <3>2
    <3>3. CASE i = n + 1
      BY <3>3
    <3> QED
      BY <3>1, <3>2, <3>3
  <2>3. h = [i \in 0..(n + 1) |-> IF i = 0 THEN <<>> ELSE Kept(s, S, h[i - 1], i)]
    BY <2>2
  <2>4. Filters(h, s, S, n + 1)
    BY <2>3 DEF Filters
  <2> QED
    BY <2>4
<1> HIDE DEF N
<1>3. Nat \subseteq N
  BY <1>1, <1>2, SetInduction
<1> QED
  BY <1>3 DEF N

\* Among computes it.
LEMMA AmongFilters ==
    ASSUME NEW T, NEW s \in Seq(T), NEW S
    PROVE  \E g : Filters(g, s, S, Len(s)) /\ Among(s, S) = g[Len(s)]
<1> DEFINE upTo == CHOOSE g : g = [i \in 0..Len(s) |->
                     IF i = 0 THEN <<>>
                     ELSE IF s[i] \in S THEN Append(g[i - 1], s[i]) ELSE g[i - 1]]
<1>0. Len(s) \in Nat
  OBVIOUS
<1>1. \E g : Filters(g, s, S, Len(s))
  BY <1>0, FilterExists
<1>2. \E g : g = [i \in 0..Len(s) |->
                    IF i = 0 THEN <<>>
                    ELSE IF s[i] \in S THEN Append(g[i - 1], s[i]) ELSE g[i - 1]]
  BY <1>1 DEF Filters, Kept
<1>3. Filters(upTo, s, S, Len(s))
  BY <1>2 DEF Filters, Kept
<1>4. Among(s, S) = upTo[Len(s)]
  BY Zenon DEF Among
<1> QED
  BY <1>3, <1>4

\* Two of them agree where both are defined, also when one of the sequences is
\* longer than the other.
LEMMA FiltersAgree ==
    ASSUME NEW s, NEW t, NEW S, NEW n \in Nat, NEW m \in Nat, n <= m,
           \A i \in 1..n : s[i] = t[i],
           NEW g, NEW h, Filters(g, s, S, n), Filters(h, t, S, m)
    PROVE  g[n] = h[n]
<1> DEFINE N == {i \in Nat : i <= n => g[i] = h[i]}
<1>1. 0 \in N
  BY DEF Filters
<1>2. ASSUME NEW i \in Nat, i \in N PROVE i + 1 \in N
  <2> SUFFICES ASSUME i + 1 <= n PROVE g[i + 1] = h[i + 1]
    OBVIOUS
  <2>1. g[i] = h[i] /\ s[i + 1] = t[i + 1]
    BY <1>2
  <2>2. g[i + 1] = Kept(s, S, g[i], i + 1)
    BY DEF Filters
  <2>3. h[i + 1] = Kept(t, S, h[i], i + 1)
    BY DEF Filters
  <2> QED
    BY <2>1, <2>2, <2>3 DEF Kept
<1> HIDE DEF N
<1>3. Nat \subseteq N
  BY <1>1, <1>2, SetInduction
<1> QED
  BY <1>3 DEF N

\* Nothing is kept of nothing, and the last element is kept when it is in S.
LEMMA AmongEmpty ==
    ASSUME NEW S
    PROVE  Among(<<>>, S) = <<>>
<1>1. <<>> \in Seq({}) /\ Len(<<>>) = 0
  OBVIOUS
<1>2. PICK g : Filters(g, <<>>, S, Len(<<>>)) /\ Among(<<>>, S) = g[Len(<<>>)]
  BY <1>1, AmongFilters
<1> QED
  BY <1>1, <1>2 DEF Filters

LEMMA AmongAppend ==
    ASSUME NEW T, NEW s \in Seq(T), NEW x \in T, NEW S
    PROVE  Among(Append(s, x), S) = IF x \in S THEN Append(Among(s, S), x) ELSE Among(s, S)
<1> DEFINE t == Append(s, x)
<1>1. t \in Seq(T) /\ Len(t) = Len(s) + 1 /\ t[Len(s) + 1] = x /\ Len(s) \in Nat
  OBVIOUS
<1>2. \A i \in 1..Len(s) : s[i] = t[i]
  OBVIOUS
<1>3. PICK g : Filters(g, s, S, Len(s)) /\ Among(s, S) = g[Len(s)]
  BY AmongFilters
<1>4. PICK h : Filters(h, t, S, Len(t)) /\ Among(t, S) = h[Len(t)]
  BY <1>1, AmongFilters
<1> HIDE DEF t
<1>5. g[Len(s)] = h[Len(s)]
  BY <1>1, <1>2, <1>3, <1>4, FiltersAgree
<1>6. h[Len(s) + 1] = Kept(t, S, h[Len(s)], Len(s) + 1)
  BY <1>1, <1>4 DEF Filters
<1>7. Among(t, S) = Kept(t, S, Among(s, S), Len(s) + 1)
  BY <1>1, <1>3, <1>4, <1>5, <1>6
<1> QED
  BY <1>1, <1>7 DEF Kept, t

\* It keeps the elements that are in S, and no others.
LEMMA AmongElements ==
    ASSUME NEW T, NEW s \in Seq(T), NEW S
    PROVE  /\ Among(s, S) \in Seq(T)
           /\ ToSet(Among(s, S)) = ToSet(s) \cap S
<1> DEFINE P == {u \in Seq(T) : Among(u, S) \in Seq(T) /\ ToSet(Among(u, S)) = ToSet(u) \cap S}
<1>1. <<>> \in P
  <2>1. <<>> \in Seq(T) /\ ToSet(<<>>) = {}
    BY DEF ToSet
  <2> QED
    BY <2>1, AmongEmpty
<1>2. ASSUME NEW u \in Seq(T), NEW x \in T, u \in P PROVE Append(u, x) \in P
  <2> DEFINE a == Among(u, S)
             b == Among(Append(u, x), S)
  <2>1. a \in Seq(T) /\ ToSet(a) = ToSet(u) \cap S
    BY <1>2
  <2>2. b = IF x \in S THEN Append(a, x) ELSE a
    BY AmongAppend
  <2> HIDE DEF a, b
  <2>3. ToSet(Append(u, x)) = ToSet(u) \cup {x}
    BY AppendElements
  <2>4. ToSet(Append(a, x)) = ToSet(a) \cup {x}
    BY <2>1, AppendElements
  <2>5. b \in Seq(T) /\ ToSet(b) = ToSet(Append(u, x)) \cap S
    BY <2>1, <2>2, <2>3, <2>4
  <2> QED
    BY <2>5 DEF b
<1> HIDE DEF P
<1>3. Seq(T) \subseteq P
  BY <1>1, <1>2, SeqInduction
<1> QED
  BY <1>3 DEF P

\* Of a sequence without repetitions it makes one without repetitions.
LEMMA AmongInjective ==
    ASSUME NEW T, NEW s \in Seq(T), NEW S, IsInjective(s)
    PROVE  IsInjective(Among(s, S))
<1> DEFINE P == {u \in Seq(T) : IsInjective(u) => IsInjective(Among(u, S))}
<1>1. <<>> \in P
  BY AmongEmpty DEF IsInjective
<1>2. ASSUME NEW u \in Seq(T), NEW x \in T, u \in P PROVE Append(u, x) \in P
  <2> DEFINE a == Among(u, S)
  <2> SUFFICES ASSUME IsInjective(Append(u, x)) PROVE IsInjective(Among(Append(u, x), S))
    OBVIOUS
  <2>1. IsInjective(u) /\ x \notin ToSet(u)
    BY AppendInjectiveIff
  <2>2. a \in Seq(T) /\ ToSet(a) = ToSet(u) \cap S
    BY AmongElements
  <2>3. IsInjective(a)
    BY <1>2, <2>1
  <2>4. Among(Append(u, x), S) = IF x \in S THEN Append(a, x) ELSE a
    BY AmongAppend
  <2> HIDE DEF a
  <2>5. IsInjective(Append(a, x))
    BY <2>1, <2>2, <2>3, AppendInjectiveIff
  <2> QED
    BY <2>3, <2>4, <2>5
<1> HIDE DEF P
<1>3. Seq(T) \subseteq P
  BY <1>1, <1>2, SeqInduction
<1> QED
  BY <1>3 DEF P

---------------------------------------------------------------------------
(* The sockets of the inbounds (Bootstrap) *)

\* Before the first inbound is looked at.
NothingSeen == [seen |-> <<>>, skipped |-> {}]

\* g holds what was seen and skipped after each of the first n inbounds.
Sees(g, inbounds, n) ==
    g = [i \in 0..n |-> IF i = 0 THEN NothingSeen ELSE AddListeners(g[i - 1], inbounds[i])]

\* There is such a function, by induction over the inbounds.
LEMMA SeesExists ==
    ASSUME NEW inbounds
    PROVE  \A n \in Nat : \E g : Sees(g, inbounds, n)
<1> DEFINE N == {n \in Nat : \E g : Sees(g, inbounds, n)}
<1>1. 0 \in N
  <2> DEFINE g == [i \in 0..0 |-> NothingSeen]
  <2>1. Sees(g, inbounds, 0)
    BY DEF Sees
  <2> QED
    BY <2>1
<1>2. ASSUME NEW n \in Nat, n \in N PROVE n + 1 \in N
  <2>1. PICK g : Sees(g, inbounds, n)
    BY <1>2
  <2> DEFINE h == [i \in 0..(n + 1) |-> IF i <= n THEN g[i] ELSE AddListeners(g[n], inbounds[n + 1])]
  <2>2. ASSUME NEW i \in 0..(n + 1)
        PROVE  h[i] = IF i = 0 THEN NothingSeen ELSE AddListeners(h[i - 1], inbounds[i])
    <3>1. CASE i = 0
      BY <3>1, <2>1 DEF Sees
    <3>2. CASE i # 0 /\ i <= n
      <4>1. h[i] = g[i] /\ h[i - 1] = g[i - 1]
        BY <3>2
      <4>2. g[i] = AddListeners(g[i - 1], inbounds[i])
        BY <3>2, <2>1 DEF Sees
      <4> QED
        BY <4>1, <4>2, <3>2
    <3>3. CASE i = n + 1
      BY <3>3
    <3> QED
      BY <3>1, <3>2, <3>3
  <2>3. h = [i \in 0..(n + 1) |-> IF i = 0 THEN NothingSeen ELSE AddListeners(h[i - 1], inbounds[i])]
    BY <2>2
  <2>4. Sees(h, inbounds, n + 1)
    BY <2>3 DEF Sees
  <2> QED
    BY <2>4
<1> HIDE DEF N
<1>3. Nat \subseteq N
  BY <1>1, <1>2, SetInduction
<1> QED
  BY <1>3 DEF N

\* So ListenersSeen, which is chosen as one, is one.
LEMMA ListenersSees ==
    ASSUME NEW T, NEW inbounds \in Seq(T)
    PROVE  \E g : Sees(g, inbounds, Len(inbounds)) /\ ListenersSeen(inbounds) = g[Len(inbounds)]
<1> DEFINE upTo == CHOOSE g : g = [n \in 0..Len(inbounds) |->
                     IF n = 0 THEN [seen |-> <<>>, skipped |-> {}]
                     ELSE AddListeners(g[n - 1], inbounds[n])]
<1>0. Len(inbounds) \in Nat
  OBVIOUS
<1>1. \E g : Sees(g, inbounds, Len(inbounds))
  BY <1>0, SeesExists
<1>2. \E g : g = [n \in 0..Len(inbounds) |->
                     IF n = 0 THEN [seen |-> <<>>, skipped |-> {}]
                     ELSE AddListeners(g[n - 1], inbounds[n])]
  BY <1>1 DEF Sees, NothingSeen
<1>3. Sees(upTo, inbounds, Len(inbounds))
  BY <1>2 DEF Sees, NothingSeen
<1>4. ListenersSeen(inbounds) = upTo[Len(inbounds)]
  BY Zenon DEF ListenersSeen
<1> QED
  BY <1>3, <1>4

\* The sockets that are asked for.
ListenerSpecs(T) ==
    [tag : {t.tag : t \in T}, network : {"tcp", "udp"}, listen : {t.listen : t \in T},
     port : {t.port : t \in T}]

\* The socket that an inbound asks for on a network.
SpecOf(in, network) == [tag |-> in.tag, network |-> network, listen |-> in.listen, port |-> in.port]

\* The listeners of an inbound: the networks it binds, one each.
LEMMA SpecsAre ==
    ASSUME NEW T, NEW in \in T
    PROVE  /\ Specs(in) \in Seq(ListenerSpecs(T))
           /\ BindsTcp(in) => \E k \in DOMAIN Specs(in) : Specs(in)[k] = SpecOf(in, "tcp")
           /\ BindsUdp(in) => \E k \in DOMAIN Specs(in) : Specs(in)[k] = SpecOf(in, "udp")
<1> DEFINE L == ListenerSpecs(T)
           tcp == SpecOf(in, "tcp")
           udp == SpecOf(in, "udp")
<1>1. tcp \in L /\ udp \in L
  BY DEF SpecOf, ListenerSpecs
<1>2. Specs(in) = (IF BindsTcp(in) THEN <<tcp>> ELSE <<>>) \o (IF BindsUdp(in) THEN <<udp>> ELSE <<>>)
  BY DEF Specs, SpecOf
<1> HIDE DEF tcp, udp, L
<1>3. /\ <<tcp>> \o <<udp>> = <<tcp, udp>> /\ <<tcp>> \o <<>> = <<tcp>>
      /\ <<>> \o <<udp>> = <<udp>> /\ <<>> \o <<>> = <<>>
  <2>1. <<tcp>> \in Seq(L) /\ <<udp>> \in Seq(L) /\ <<>> \in Seq(L)
    BY <1>1
  <2>2. <<tcp>> \o <<>> = <<tcp>> /\ <<>> \o <<udp>> = <<udp>> /\ <<>> \o <<>> = <<>>
    BY <2>1, ConcatEmptySeq
  <2>3. <<tcp>> \o <<udp>> = <<tcp, udp>>
    <3> DEFINE u == <<tcp>> \o <<udp>>
               v == <<tcp, udp>>
    <3>1. u \in Seq(L) /\ v \in Seq(L) /\ Len(u) = 2 /\ Len(v) = 2
      BY <1>1, <2>1
    <3>2. u[1] = tcp /\ u[2] = udp /\ v[1] = tcp /\ v[2] = udp
      BY <1>1, <2>1
    <3> HIDE DEF u, v
    <3>3. \A i \in 1..Len(u) : u[i] = v[i]
      BY <3>1, <3>2
    <3>4. u = v
      BY <3>1, <3>3, SeqEqual
    <3> QED
      BY <3>4 DEF u, v
  <2> QED
    BY <2>2, <2>3
<1>4. CASE BindsTcp(in) /\ BindsUdp(in)
  <2>1. Specs(in) = <<tcp, udp>>
    BY <1>2, <1>3, <1>4
  <2>2. /\ <<tcp, udp>> \in Seq(L) /\ <<tcp, udp>>[1] = tcp /\ <<tcp, udp>>[2] = udp
        /\ 1 \in DOMAIN <<tcp, udp>> /\ 2 \in DOMAIN <<tcp, udp>>
    BY <1>1
  <2> QED
    BY <2>1, <2>2 DEF tcp, udp, L
<1>5. CASE BindsTcp(in) /\ ~BindsUdp(in)
  <2>1. Specs(in) = <<tcp>>
    BY <1>2, <1>3, <1>5
  <2>2. <<tcp>> \in Seq(L) /\ <<tcp>>[1] = tcp /\ 1 \in DOMAIN <<tcp>>
    BY <1>1
  <2> QED
    BY <1>5, <2>1, <2>2 DEF tcp, udp, L
<1>6. CASE ~BindsTcp(in) /\ BindsUdp(in)
  <2>1. Specs(in) = <<udp>>
    BY <1>2, <1>3, <1>6
  <2>2. <<udp>> \in Seq(L) /\ <<udp>>[1] = udp /\ 1 \in DOMAIN <<udp>>
    BY <1>1
  <2> QED
    BY <1>6, <2>1, <2>2 DEF tcp, udp, L
<1>7. CASE ~BindsTcp(in) /\ ~BindsUdp(in)
  <2>1. Specs(in) = <<>>
    BY <1>2, <1>3, <1>7
  <2>2. <<>> \in Seq(L)
    OBVIOUS
  <2> QED
    BY <1>7, <2>1, <2>2 DEF L
<1> QED
  BY <1>4, <1>5, <1>6, <1>7

\* One inbound is looked at: nothing seen is forgotten, nothing skipped comes
\* back, and an inbound that stays has listeners of its own.
LEMMA AddedListeners ==
    ASSUME NEW L, NEW seen \in Seq(L), NEW skipped, NEW in, Specs(in) \in Seq(L)
    PROVE  \E more, out :
             /\ more \in Seq(L)
             /\ AddListeners([seen |-> seen, skipped |-> skipped], in)
                  = [seen |-> more, skipped |-> out]
             /\ ToSet(seen) \subseteq ToSet(more) /\ skipped \subseteq out
             /\ in.tag \notin out =>
                  /\ ToSet(Specs(in)) \subseteq ToSet(more)
                  /\ \A a \in ToSet(seen), b \in ToSet(Specs(in)) : ~SpecsConflict(a, b)
<1> DEFINE done == [seen |-> seen, skipped |-> skipped]
           specs == Specs(in)
           taken == {k \in DOMAIN specs : \E i \in DOMAIN seen : SpecsConflict(seen[i], specs[k])}
           part == SubSeq(specs, 1, Min(taken) - 1)
<1>1. AddListeners(done, in) =
        IF taken = {} THEN [seen |-> seen \o specs, skipped |-> skipped]
        ELSE [seen |-> seen \o part, skipped |-> skipped \cup {in.tag}]
  <2> DEFINE t == {k \in DOMAIN specs : \E i \in DOMAIN done.seen : SpecsConflict(done.seen[i], specs[k])}
             p == SubSeq(specs, 1, Min(t) - 1)
  <2>1. AddListeners(done, in) =
          IF t = {} THEN [done EXCEPT !.seen = @ \o specs]
          ELSE [seen |-> done.seen \o p, skipped |-> done.skipped \cup {in.tag}]
    BY Zenon DEF AddListeners
  <2>2. done.seen = seen /\ done.skipped = skipped
    OBVIOUS
  <2>3. t = taken
    BY <2>2
  <2>4. p = part
    <3> HIDE DEF t, taken
    <3> QED
      BY <2>3
  <2> HIDE DEF t, taken, p, part, specs
  <2>5. [done EXCEPT !.seen = @ \o specs] = [seen |-> seen \o specs, skipped |-> skipped]
    <3> DEFINE x == done.seen \o specs
    <3>1. x = seen \o specs
      BY <2>2
    <3> HIDE DEF x
    <3>2. [done EXCEPT !.seen = x] = [seen |-> x, skipped |-> skipped]
      OBVIOUS
    <3> QED
      BY <3>1, <3>2 DEF x
  <2> QED
    BY <2>1, <2>2, <2>3, <2>4, <2>5
<1>2. CASE taken = {}
  <2>1. AddListeners(done, in) = [seen |-> seen \o specs, skipped |-> skipped]
    BY <1>1, <1>2
  <2>2. seen \o specs \in Seq(L) /\ ToSet(seen \o specs) = ToSet(seen) \cup ToSet(specs)
    BY ConcatProperties, ConcatElements
  <2>3. \A a \in ToSet(seen), b \in ToSet(specs) : ~SpecsConflict(a, b)
    BY <1>2 DEF ToSet
  <2> HIDE DEF done, specs, taken
  <2> QED
    BY <2>1, <2>2, <2>3 DEF done, specs
<1>3. CASE taken # {}
  <2>1. AddListeners(done, in) = [seen |-> seen \o part, skipped |-> skipped \cup {in.tag}]
    BY <1>1, <1>3
  <2>2. part \in Seq(L)
    <3>1. taken \in SUBSET Nat
      OBVIOUS
    <3>2. Min(taken) \in taken
      <4> HIDE DEF taken
      <4> QED
        BY <1>3, <3>1, LeastNat DEF Min
    <3>3. Min(taken) \in 1..Len(specs)
      BY <3>2
    <3> HIDE DEF taken
    <3> QED
      BY <3>3
  <2>3. seen \o part \in Seq(L) /\ ToSet(seen \o part) = ToSet(seen) \cup ToSet(part)
    <3> HIDE DEF part
    <3> QED
      BY <2>2, ConcatProperties, ConcatElements
  <2> HIDE DEF done, specs, taken, part
  <2>4. skipped \subseteq skipped \cup {in.tag} /\ in.tag \in skipped \cup {in.tag}
    OBVIOUS
  <2> QED
    BY <2>1, <2>3, <2>4 DEF done
<1> QED
  BY <1>2, <1>3

\* After the first n inbounds: those that stay were seen and do not conflict.
Settled(done, inbounds, n) ==
    /\ \A j \in 1..n : inbounds[j].tag \notin done.skipped =>
         ToSet(Specs(inbounds[j])) \subseteq ToSet(done.seen)
    /\ \A i, j \in 1..n :
         /\ i < j
         /\ inbounds[i].tag \notin done.skipped /\ inbounds[j].tag \notin done.skipped
         => \A a \in ToSet(Specs(inbounds[i])), b \in ToSet(Specs(inbounds[j])) : ~SpecsConflict(a, b)

\* After every inbound, what is seen is settled.
LEMMA AllSettled ==
    ASSUME NEW T, NEW inbounds \in Seq(T)
    PROVE  Settled(ListenersSeen(inbounds), inbounds, Len(inbounds))
<1> DEFINE L == ListenerSpecs(T)
           last == Len(inbounds)
<1>0. last \in Nat /\ \A i \in 1..last : inbounds[i] \in T
  OBVIOUS
<1>1. PICK g : Sees(g, inbounds, last) /\ ListenersSeen(inbounds) = g[last]
  BY ListenersSees
<1>2. \A i \in 1..last : Specs(inbounds[i]) \in Seq(L)
  BY <1>0, SpecsAre
<1> HIDE DEF L
<1> DEFINE Good(n) == /\ \E seen, skipped : seen \in Seq(L) /\ g[n] = [seen |-> seen, skipped |-> skipped]
                      /\ Settled(g[n], inbounds, n)
           N == {n \in Nat : n <= last => Good(n)}
<1> HIDE DEF Good
<1>3. 0 \in N
  <2>1. g[0] = NothingSeen
    BY <1>0, <1>1 DEF Sees
  <2>2. \E seen, skipped : seen \in Seq(L) /\ g[0] = [seen |-> seen, skipped |-> skipped]
    <3>1. <<>> \in Seq(L)
      OBVIOUS
    <3>2. g[0] = [seen |-> <<>>, skipped |-> {}]
      BY <2>1 DEF NothingSeen
    <3> QED
      BY <3>1, <3>2, Zenon
  <2>3. Settled(g[0], inbounds, 0)
    BY DEF Settled
  <2> QED
    BY <2>2, <2>3 DEF Good
<1>4. ASSUME NEW n \in Nat, n \in N PROVE n + 1 \in N
  <2> SUFFICES ASSUME n + 1 <= last PROVE Good(n + 1)
    OBVIOUS
  <2> DEFINE m == n + 1
             in == inbounds[m]
  <2>0. m \in 1..last /\ m \in Nat /\ n <= last /\ Good(n) /\ Specs(in) \in Seq(L)
    BY <1>0, <1>2, <1>4
  <2>1. g[m] = AddListeners(g[n], in)
    BY <1>0, <1>1, <2>0 DEF Sees
  <2>2. PICK seen, skipped : seen \in Seq(L) /\ g[n] = [seen |-> seen, skipped |-> skipped]
    BY <2>0 DEF Good
  <2> HIDE DEF in
  <2>3. PICK more, out :
             /\ more \in Seq(L)
             /\ AddListeners([seen |-> seen, skipped |-> skipped], in)
                  = [seen |-> more, skipped |-> out]
             /\ ToSet(seen) \subseteq ToSet(more) /\ skipped \subseteq out
             /\ in.tag \notin out =>
                  /\ ToSet(Specs(in)) \subseteq ToSet(more)
                  /\ \A a \in ToSet(seen), b \in ToSet(Specs(in)) : ~SpecsConflict(a, b)
    BY <2>0, <2>2, AddedListeners
  <2>4. g[m] = [seen |-> more, skipped |-> out]
    BY <2>1, <2>2, <2>3
  <2>5. g[m].seen = more /\ g[m].skipped = out /\ g[n].seen = seen /\ g[n].skipped = skipped
    BY <2>2, <2>4
  <2>6. Settled(g[n], inbounds, n)
    BY <2>0 DEF Good
  <2>7. \A j \in 1..n : inbounds[j].tag \notin out => inbounds[j].tag \notin skipped
    BY <2>3
  <2>8. \A j \in 1..m : j \in 1..n \/ j = m
    OBVIOUS
  <2>9. \A j \in 1..m : inbounds[j].tag \notin out => ToSet(Specs(inbounds[j])) \subseteq ToSet(more)
    <3> SUFFICES ASSUME NEW j \in 1..m, inbounds[j].tag \notin out
                 PROVE  ToSet(Specs(inbounds[j])) \subseteq ToSet(more)
      OBVIOUS
    <3>1. CASE j \in 1..n
      <4>1. ToSet(Specs(inbounds[j])) \subseteq ToSet(seen)
        BY <2>5, <2>6, <2>7, <3>1 DEF Settled
      <4> QED
        BY <2>3, <4>1
    <3>2. CASE j = m
      BY <2>3, <3>2 DEF in
    <3> QED
      BY <2>8, <3>1, <3>2
  <2>10. ASSUME NEW i \in 1..m, NEW j \in 1..m, i < j, inbounds[i].tag \notin out, inbounds[j].tag \notin out,
                NEW a \in ToSet(Specs(inbounds[i])), NEW b \in ToSet(Specs(inbounds[j]))
         PROVE  ~SpecsConflict(a, b)
    <3>1. i \in 1..n /\ inbounds[i].tag \notin skipped
      BY <2>7, <2>10
    <3>2. CASE j \in 1..n
      BY <2>5, <2>6, <2>7, <2>10, <3>1, <3>2 DEF Settled
    <3>3. CASE j = m
      <4>1. ToSet(Specs(inbounds[i])) \subseteq ToSet(seen)
        BY <2>5, <2>6, <3>1 DEF Settled
      <4>2. in.tag \notin out /\ b \in ToSet(Specs(in))
        BY <2>10, <3>3 DEF in
      <4> QED
        BY <2>3, <4>1, <4>2
    <3> QED
      BY <2>8, <3>2, <3>3
  <2>11. Settled(g[m], inbounds, m)
    <3> HIDE DEF m
    <3>1. /\ \A j \in 1..m : inbounds[j].tag \notin g[m].skipped =>
               ToSet(Specs(inbounds[j])) \subseteq ToSet(g[m].seen)
          /\ \A i, j \in 1..m :
               /\ i < j
               /\ inbounds[i].tag \notin g[m].skipped /\ inbounds[j].tag \notin g[m].skipped
               => \A a \in ToSet(Specs(inbounds[i])), b \in ToSet(Specs(inbounds[j])) : ~SpecsConflict(a, b)
      BY <2>5, <2>9, <2>10
    <3> QED
      BY <3>1 DEF Settled
  <2> QED
    BY <2>3, <2>4, <2>11 DEF Good
<1> HIDE DEF N
<1>5. Nat \subseteq N
  BY <1>3, <1>4, SetInduction
<1>6. Good(last)
  BY <1>0, <1>5 DEF N
<1> QED
  BY <1>1, <1>6 DEF Good

\* What the filter counts of what is rendered: every TCP socket, and every UDP
\* socket but those of an inbound that hides one, which it counts as TCP.
LEMMA RenderedCounted ==
    ASSUME NEW in
    PROVE  /\ "tcp" \in RenderedNetworks(in) => BindsTcp(in)
           /\ "udp" \in RenderedNetworks(in) =>
                \/ BindsUdp(in) /\ (BindsTcp(in) \/ in.protocol \in {"hysteria", "hysteria2", "tuic"})
                \/ HidesUdp(in) /\ BindsTcp(in)
           /\ RenderedNetworks(in) \subseteq {"tcp", "udp"}
<1>1. CASE in.protocol \in {"hysteria", "hysteria2", "tuic"}
  BY <1>1 DEF RenderedNetworks, BindsTcp, BindsUdp
<1>2. CASE in.protocol = "naive"
  <2>1. TransportNetwork(in) = "quic" => in.network = "quic"
    BY <1>2 DEF TransportNetwork
  <2> QED
    BY <1>2, <2>1 DEF RenderedNetworks, BindsTcp, BindsUdp, HidesUdp
<1>3. CASE in.protocol = "shadowsocks"
  <2>1. TransportNetwork(in) \in {"tcp,udp", "udp"} => in.network \in {"", "tcp,udp", "udp"}
    BY <1>3 DEF TransportNetwork
  <2> QED
    BY <1>3, <2>1 DEF RenderedNetworks, BindsTcp, BindsUdp, HidesUdp
<1>4. CASE in.protocol \in {"socks", "http", "vless", "vmess", "trojan", "anytls", "mieru"}
  BY <1>4 DEF RenderedNetworks, BindsTcp
<1>5. CASE in.protocol \notin {"hysteria", "hysteria2", "tuic", "naive", "shadowsocks", "socks",
                               "http", "vless", "vmess", "trojan", "anytls", "mieru"}
  BY <1>5 DEF RenderedNetworks
<1> QED
  BY <1>1, <1>2, <1>3, <1>4, <1>5

\* An inbound that hides a UDP socket beside one with no TCP socket.
MissedClash(x, y) == HidesUdp(x) /\ y.protocol \in {"hysteria", "hysteria2", "tuic"}

\* Listeners that do not conflict are sockets of their own, on a host that has
\* every address some node names, unless one hides its UDP socket.
LEMMA Apart ==
    ASSUME NEW T, NEW x \in T, NEW y \in T, NEW hosts,
           x.listen \in hosts \/ Wildcard(x.listen), y.listen \in hosts \/ Wildcard(y.listen),
           \A a \in ToSet(Specs(x)), b \in ToSet(Specs(y)) : ~SpecsConflict(a, b),
           Opens(x, hosts) \cap Opens(y, hosts) # {}
    PROVE  MissedClash(x, y) \/ MissedClash(y, x)
<1> SUFFICES ASSUME ~MissedClash(x, y), ~MissedClash(y, x) PROVE FALSE
  OBVIOUS
<1> DEFINE at(in) == IF in.listen \in hosts THEN {in.listen} ELSE hosts
<1>0. PICK s : s \in Opens(x, hosts) /\ s \in Opens(y, hosts)
  OBVIOUS
<1>1. /\ s \in RenderedNetworks(x) \X at(x) \X {x.port}
      /\ s \in RenderedNetworks(y) \X at(y) \X {y.port}
  BY <1>0 DEF Opens
<1>2. /\ s[1] \in RenderedNetworks(x) \cap RenderedNetworks(y)
      /\ s[2] \in at(x) \cap at(y) /\ x.port = y.port
  BY <1>1
<1> DEFINE Binds(in, net) == (net = "tcp" /\ BindsTcp(in)) \/ (net = "udp" /\ BindsUdp(in))
<1>3. \E net \in {"tcp", "udp"} : Binds(x, net) /\ Binds(y, net)
  <2>1. s[1] = "tcp" \/ s[1] = "udp"
    BY <1>2, RenderedCounted
  <2>2. CASE s[1] = "tcp"
    BY <1>2, <2>2, RenderedCounted
  <2>3. CASE s[1] = "udp"
    <3>1. \/ BindsUdp(x) /\ (BindsTcp(x) \/ x.protocol \in {"hysteria", "hysteria2", "tuic"})
          \/ HidesUdp(x) /\ BindsTcp(x)
      BY <1>2, <2>3, RenderedCounted
    <3>2. \/ BindsUdp(y) /\ (BindsTcp(y) \/ y.protocol \in {"hysteria", "hysteria2", "tuic"})
          \/ HidesUdp(y) /\ BindsTcp(y)
      BY <1>2, <2>3, RenderedCounted
    <3>3. (BindsUdp(x) /\ BindsUdp(y)) \/ (BindsTcp(x) /\ BindsTcp(y))
      BY <3>1, <3>2 DEF MissedClash
    <3> QED
      BY <3>3
  <2> QED
    BY <2>1, <2>2, <2>3
<1>4. PICK net \in {"tcp", "udp"} : Binds(x, net) /\ Binds(y, net)
  BY <1>3
<1>5. ASSUME NEW in \in T, Binds(in, net)
      PROVE  SpecOf(in, net) \in ToSet(Specs(in))
  <2>2. \E k \in DOMAIN Specs(in) : Specs(in)[k] = SpecOf(in, net)
    BY <1>5, SpecsAre
  <2> QED
    BY <2>2 DEF ToSet
<1>6. SpecOf(x, net) \in ToSet(Specs(x)) /\ SpecOf(y, net) \in ToSet(Specs(y))
  BY <1>4, <1>5
<1>7. ~SpecsConflict(SpecOf(x, net), SpecOf(y, net))
  BY <1>6
<1>8. x.listen # y.listen /\ ~Wildcard(x.listen) /\ ~Wildcard(y.listen)
  BY <1>2, <1>7 DEF SpecsConflict, SpecOf
<1> QED
  BY <1>2, <1>8

\* Of any inbounds in any order, on a host that has every address they name: no
\* two of those that are left open one socket, wildcard addresses and both
\* networks included, unless one hides its UDP socket from the other, which has
\* no TCP socket (runtime.rs:225, 355).
LEMMA EverySocket ==
    ASSUME NEW T, NEW inbounds \in Seq(T), NEW hosts,
           \A i \in DOMAIN inbounds : inbounds[i].listen \in hosts \/ Wildcard(inbounds[i].listen)
    PROVE  NoDoubleBind(inbounds, hosts)
<1> DEFINE done == ListenersSeen(inbounds)
           kept == {i \in DOMAIN inbounds : inbounds[i].tag \notin done.skipped}
<1>1. FilterListeners(inbounds, TRUE) = [ok |-> TRUE, skipped |-> done.skipped, kept |-> kept]
  BY DEF FilterListeners
<1>2. FilterListeners(inbounds, TRUE).kept = kept
  <2> DEFINE gone == done.skipped
             filtered == FilterListeners(inbounds, TRUE)
  <2>1. filtered = [ok |-> TRUE, skipped |-> gone, kept |-> kept]
    BY <1>1
  <2> HIDE DEF kept, gone, filtered
  <2>2. filtered.kept = kept
    BY <2>1
  <2> QED
    BY <2>2 DEF filtered
<1>3. Settled(done, inbounds, Len(inbounds)) /\ DOMAIN inbounds = 1..Len(inbounds) /\ Len(inbounds) \in Nat
  BY AllSettled
<1> HIDE DEF done
<1>4. ASSUME NEW i \in kept, NEW k \in kept, i < k
      PROVE  Opens(inbounds[i], hosts) \cap Opens(inbounds[k], hosts) # {} =>
               MissedClash(inbounds[i], inbounds[k]) \/ MissedClash(inbounds[k], inbounds[i])
  <2>1. \A a \in ToSet(Specs(inbounds[i])), b \in ToSet(Specs(inbounds[k])) : ~SpecsConflict(a, b)
    BY <1>3, <1>4 DEF Settled
  <2>2. inbounds[i] \in T /\ inbounds[k] \in T
    BY <1>3
  <2> QED
    BY <2>1, <2>2, Apart
<1>5. \A i, k \in kept : i # k => i < k \/ k < i
  BY <1>3
<1> HIDE DEF kept
<1>6. \A i, k \in kept :
        i # k /\ Opens(inbounds[i], hosts) \cap Opens(inbounds[k], hosts) # {} =>
          MissedClash(inbounds[i], inbounds[k]) \/ MissedClash(inbounds[k], inbounds[i])
  BY <1>4, <1>5
<1> QED
  BY <1>2, <1>6 DEF NoDoubleBind, MissedClash

---------------------------------------------------------------------------
(* The routes and their outbounds (CoreRoutes) *)

\* Sequence i put after those before it.
InRow(seqs, before, i) == IF i = 1 THEN seqs[i] ELSE before \o seqs[i]

\* g puts the first n sequences in a row.
Flattens(g, seqs, n) == g = [i \in 1..n |-> InRow(seqs, g[i - 1], i)]

\* There is such a function, by induction over the rows.
LEMMA FlattenExists ==
    ASSUME NEW seqs
    PROVE  \A n \in Nat : \E g : Flattens(g, seqs, n)
<1> DEFINE N == {n \in Nat : \E g : Flattens(g, seqs, n)}
<1>1. 0 \in N
  <2> DEFINE g == [i \in 1..0 |-> seqs[i]]
  <2>1. Flattens(g, seqs, 0)
    BY DEF Flattens
  <2> QED
    BY <2>1
<1>2. ASSUME NEW n \in Nat, n \in N PROVE n + 1 \in N
  <2>1. PICK g : Flattens(g, seqs, n)
    BY <1>2
  <2> DEFINE h == [i \in 1..(n + 1) |-> IF i <= n THEN g[i] ELSE InRow(seqs, g[n], n + 1)]
  <2>2. ASSUME NEW i \in 1..(n + 1)
        PROVE  h[i] = InRow(seqs, h[i - 1], i)
    <3>1. CASE i <= n /\ i # 1
      <4>1. h[i] = g[i] /\ h[i - 1] = g[i - 1]
        BY <3>1
      <4>2. g[i] = InRow(seqs, g[i - 1], i)
        BY <3>1, <2>1 DEF Flattens
      <4> QED
        BY <4>1, <4>2
    <3>2. CASE i = 1
      <4>1. \A x, y : InRow(seqs, x, i) = InRow(seqs, y, i)
        BY <3>2 DEF InRow
      <4>2. \E x : h[i] = InRow(seqs, x, i)
        <5>1. CASE i <= n
          BY <5>1, <2>1 DEF Flattens
        <5>2. CASE ~(i <= n)
          BY <5>2, <3>2
        <5> QED
          BY <5>1, <5>2
      <4> HIDE DEF h
      <4> QED
        BY <4>1, <4>2
    <3>3. CASE i = n + 1 /\ i # 1
      <4>1. h[i - 1] = g[n] /\ h[i] = InRow(seqs, g[n], i)
        BY <3>3
      <4> QED
        BY <4>1
    <3> QED
      BY <3>1, <3>2, <3>3
  <2>3. h = [i \in 1..(n + 1) |-> InRow(seqs, h[i - 1], i)]
    BY <2>2
  <2>4. Flattens(h, seqs, n + 1)
    <3> HIDE DEF h
    <3> QED
      BY <2>3 DEF Flattens
  <2> QED
    BY <2>4
<1> HIDE DEF N
<1>3. Nat \subseteq N
  BY <1>1, <1>2, SetInduction
<1> QED
  BY <1>3 DEF N

\* What is in a flattened sequence was in one of its parts.
LEMMA FlattenElements ==
    ASSUME NEW T, NEW seqs \in Seq(Seq(T))
    PROVE  /\ FlattenSeq(seqs) \in Seq(T)
           /\ \A x \in ToSet(FlattenSeq(seqs)) : \E i \in 1..Len(seqs) : x \in ToSet(seqs[i])
<1> DEFINE last == Len(seqs)
           flatten == CHOOSE g : g = [i \in 1..last |-> IF i = 1 THEN seqs[i] ELSE g[i - 1] \o seqs[i]]
<1>0. last \in Nat /\ \A i \in 1..last : seqs[i] \in Seq(T)
  OBVIOUS
<1>1. CASE last = 0
  <2>1. FlattenSeq(seqs) = <<>>
    BY <1>1 DEF FlattenSeq
  <2> QED
    BY <2>1 DEF ToSet
<1>2. CASE last # 0
  <2>1. \E g : Flattens(g, seqs, last)
    BY <1>0, FlattenExists
  <2>2. Flattens(flatten, seqs, last)
    BY <2>1 DEF Flattens, InRow
  <2>3. FlattenSeq(seqs) = flatten[last]
    BY <1>2, Zenon DEF FlattenSeq
  <2> HIDE DEF flatten
  <2> DEFINE Good(n) == /\ flatten[n] \in Seq(T)
                        /\ \A x \in ToSet(flatten[n]) : \E i \in 1..n : x \in ToSet(seqs[i])
             N == {n \in Nat : n + 1 <= last => Good(n + 1)}
  <2> HIDE DEF Good
  <2>4. 0 \in N
    <3>1. 1 <= last => flatten[1] = seqs[1]
      BY <1>0, <2>2 DEF Flattens, InRow
    <3>2. 1 <= last => Good(1)
      BY <1>0, <3>1 DEF Good
    <3> QED
      BY <3>2
  <2>5. ASSUME NEW n \in Nat, n \in N PROVE n + 1 \in N
    <3> DEFINE k == n + 1
               m == k + 1
    <3> SUFFICES ASSUME m <= last PROVE Good(m)
      OBVIOUS
    <3>1. k \in 1..last /\ m \in 1..last /\ m # 1 /\ m - 1 = k /\ Good(k)
      BY <1>0, <2>5
    <3>2. flatten[m] = flatten[k] \o seqs[m]
      BY <2>2, <3>1 DEF Flattens, InRow
    <3>3. flatten[k] \in Seq(T) /\ seqs[m] \in Seq(T)
      BY <1>0, <3>1 DEF Good
    <3> HIDE DEF k, m
    <3>4. /\ flatten[k] \o seqs[m] \in Seq(T)
          /\ ToSet(flatten[k] \o seqs[m]) = ToSet(flatten[k]) \cup ToSet(seqs[m])
      BY <3>3, ConcatElements, ConcatProperties
    <3>5. \A x \in ToSet(flatten[m]) : x \in ToSet(flatten[k]) \/ x \in ToSet(seqs[m])
      BY <3>2, <3>4
    <3>6. \A i \in 1..k : i \in 1..m
      BY DEF k, m
    <3>7. m \in 1..m
      BY DEF k, m
    <3> QED
      BY <3>1, <3>2, <3>4, <3>5, <3>6, <3>7 DEF Good
  <2> HIDE DEF N
  <2>6. Nat \subseteq N
    BY <2>4, <2>5, SetInduction
  <2>7. last - 1 \in Nat /\ (last - 1) + 1 = last
    BY <1>0, <1>2
  <2>8. Good(last)
    <3>1. last - 1 \in N
      BY <2>6, <2>7
    <3>2. (last - 1) + 1 <= last => Good((last - 1) + 1)
      BY <3>1 DEF N
    <3> QED
      BY <1>0, <2>7, <3>2
  <2> QED
    BY <2>3, <2>8 DEF Good
<1> QED
  BY <1>1, <1>2

\* The routes that send traffic to an outbound of their own.
Sends(route) == ~Skipped(route) /\ Carries(route) /\ ~IsBlackhole(route) /\ route.out # NoValue

\* The rules of a route send to the outbounds that its entries name.
LEMMA EntriesName ==
    ASSUME NEW R, NEW route \in R
    PROVE  /\ Entries(route) \in Seq(UNION {ToSet(Entries(r)) : r \in R})
           /\ \A e \in ToSet(Entries(route)) :
                e.action = "block" \/ (Sends(route) /\ e.action = route.out.tag)
<1> DEFINE E == UNION {ToSet(Entries(r)) : r \in R}
           b == [targets |-> Targets(route), action |-> "block"]
           o == [targets |-> Targets(route), action |-> route.out.tag]
<1>1. Entries(route) = <<>> \/ Entries(route) = <<b>> \/ (Entries(route) = <<o>> /\ Sends(route))
  BY Zenon DEF Entries, Sends
<1>2. b.action = "block" /\ o.action = route.out.tag
  OBVIOUS
<1> HIDE DEF b, o
<1>3. \A x : ToSet(<<x>>) = {x}
  BY DEF ToSet
<1>4. ToSet(Entries(route)) \subseteq E
  OBVIOUS
<1> HIDE DEF E
<1>5. CASE Entries(route) = <<>>
  BY <1>5 DEF ToSet, E
<1>6. CASE Entries(route) = <<b>>
  <2>1. b \in E
    BY <1>3, <1>4, <1>6
  <2> QED
    BY <1>2, <1>3, <1>6, <2>1 DEF E
<1>7. CASE Entries(route) = <<o>> /\ Sends(route)
  <2>1. o \in E
    BY <1>3, <1>4, <1>7
  <2> QED
    BY <1>2, <1>3, <1>7, <2>1 DEF E
<1> QED
  BY <1>1, <1>5, <1>6, <1>7

\* g holds the outbounds after each of the first n routes.
Collects(g, routes, n) ==
    g = [i \in 0..n |-> IF i = 0 THEN <<Direct>> ELSE Collect(g[i - 1], routes[i])]

\* There is such a function, by induction over the routes.
LEMMA CollectExists ==
    ASSUME NEW routes
    PROVE  \A n \in Nat : \E g : Collects(g, routes, n)
<1> DEFINE N == {n \in Nat : \E g : Collects(g, routes, n)}
<1>1. 0 \in N
  <2> DEFINE g == [i \in 0..0 |-> <<Direct>>]
  <2>1. Collects(g, routes, 0)
    BY DEF Collects
  <2> QED
    BY <2>1
<1>2. ASSUME NEW n \in Nat, n \in N PROVE n + 1 \in N
  <2>1. PICK g : Collects(g, routes, n)
    BY <1>2
  <2> DEFINE h == [i \in 0..(n + 1) |-> IF i <= n THEN g[i] ELSE Collect(g[n], routes[n + 1])]
  <2>2. ASSUME NEW i \in 0..(n + 1)
        PROVE  h[i] = IF i = 0 THEN <<Direct>> ELSE Collect(h[i - 1], routes[i])
    <3>1. CASE i = 0
      BY <3>1, <2>1 DEF Collects
    <3>2. CASE i # 0 /\ i <= n
      <4>1. h[i] = g[i] /\ h[i - 1] = g[i - 1]
        BY <3>2
      <4>2. g[i] = Collect(g[i - 1], routes[i])
        BY <3>2, <2>1 DEF Collects
      <4> QED
        BY <4>1, <4>2, <3>2
    <3>3. CASE i = n + 1
      BY <3>3
    <3> QED
      BY <3>1, <3>2, <3>3
  <2>3. h = [i \in 0..(n + 1) |-> IF i = 0 THEN <<Direct>> ELSE Collect(h[i - 1], routes[i])]
    BY <2>2
  <2>4. Collects(h, routes, n + 1)
    BY <2>3 DEF Collects
  <2> QED
    BY <2>4
<1> HIDE DEF N
<1>3. Nat \subseteq N
  BY <1>1, <1>2, SetInduction
<1> QED
  BY <1>3 DEF N

\* So CollectOutbounds, which is chosen as one, is one.
LEMMA OutboundsCollected ==
    ASSUME NEW R, NEW routes \in Seq(R)
    PROVE  \E g : Collects(g, routes, Len(routes)) /\ CollectOutbounds(routes) = g[Len(routes)]
<1> DEFINE upTo == CHOOSE g : g = [n \in 0..Len(routes) |->
                     IF n = 0 THEN <<Direct>> ELSE Collect(g[n - 1], routes[n])]
<1>0. Len(routes) \in Nat
  OBVIOUS
<1>1. \E g : Collects(g, routes, Len(routes))
  BY <1>0, CollectExists
<1>2. Collects(upTo, routes, Len(routes))
  BY <1>1 DEF Collects
<1>3. CollectOutbounds(routes) = upTo[Len(routes)]
  BY Zenon DEF CollectOutbounds
<1> QED
  BY <1>2, <1>3

\* One outbound of a tag, and one for every one of the first n routes that sends.
Listed(outs, routes, n) ==
    /\ \A i, k \in 1..Len(outs) : outs[i].tag = outs[k].tag => i = k
    /\ \A j \in 1..n : Sends(routes[j]) => \E k \in 1..Len(outs) : outs[k].tag = routes[j].out.tag

\* Whatever a route names is listed once every route is collected.
LEMMA AllListed ==
    ASSUME NEW R, NEW routes \in Seq(R)
    PROVE  Listed(CollectOutbounds(routes), routes, Len(routes))
<1> DEFINE last == Len(routes)
           O == {Direct} \cup {RenderedOutbound(r.out) : r \in R}
<1>0. last \in Nat /\ \A i \in 1..last : routes[i] \in R
  OBVIOUS
<1>1. PICK g : Collects(g, routes, last) /\ CollectOutbounds(routes) = g[last]
  BY OutboundsCollected
<1>2. Direct \in O /\ \A i \in 1..last : RenderedOutbound(routes[i].out) \in O
  BY <1>0
<1>3. \A out : RenderedOutbound(out).tag = out.tag
  BY DEF RenderedOutbound
<1> HIDE DEF O
<1> DEFINE Good(n) == g[n] \in Seq(O) /\ Listed(g[n], routes, n)
           N == {n \in Nat : n <= last => Good(n)}
<1> HIDE DEF Good
<1>4. 0 \in N
  <2>1. g[0] = <<Direct>>
    BY <1>0, <1>1 DEF Collects
  <2>2. Good(0)
    BY <1>2, <2>1 DEF Good, Listed
  <2> QED
    BY <2>2
<1>5. ASSUME NEW n \in Nat, n \in N PROVE n + 1 \in N
  <2> DEFINE m == n + 1
             route == routes[m]
             new == RenderedOutbound(route.out)
             outs == g[n]
  <2> SUFFICES ASSUME m <= last PROVE Good(m)
    OBVIOUS
  <2>1. m \in 1..last /\ n \in 0..last /\ Good(n)
    BY <1>0, <1>5
  <2>2. g[m] = Collect(outs, route)
    BY <1>0, <1>1, <2>1 DEF Collects
  <2>3. outs \in Seq(O) /\ Listed(outs, routes, n) /\ new \in O /\ new.tag = route.out.tag
    BY <1>2, <1>3, <2>1 DEF Good
  <2>4. \A j \in 1..m : j \in 1..n \/ j = m
    OBVIOUS
  <2> HIDE DEF m, route, new, outs
  <2>5. CASE ~Sends(route)
    <3>1. g[m] = outs
      BY <2>2, <2>5 DEF Collect, Sends
    <3> QED
      BY <2>3, <2>4, <2>5, <3>1 DEF Good, Listed, route
  <2>6. CASE Sends(route) /\ \E i \in 1..Len(outs) : outs[i].tag = new.tag
    <3>1. g[m] = outs
      BY <2>2, <2>6 DEF Collect, Sends, PushOnce, new
    <3> QED
      BY <2>3, <2>4, <2>6, <3>1 DEF Good, Listed, route
  <2>7. CASE Sends(route) /\ ~\E i \in 1..Len(outs) : outs[i].tag = new.tag
    <3> DEFINE more == Append(outs, new)
               k == Len(outs) + 1
    <3>1. g[m] = more
      BY <2>2, <2>7 DEF Collect, Sends, PushOnce, new
    <3>2. /\ more \in Seq(O) /\ Len(more) = k /\ more[k] = new /\ k \in 1..k
          /\ \A i \in 1..Len(outs) : more[i] = outs[i] /\ i \in 1..k
          /\ \A i \in 1..k : i \in 1..Len(outs) \/ i = k
      BY <2>3
    <3> HIDE DEF more, k
    <3>3. \A i, j \in 1..k : more[i].tag = more[j].tag => i = j
      BY <2>3, <2>7, <3>2 DEF Listed
    <3>4. \A j \in 1..m : Sends(routes[j]) => \E i \in 1..k : more[i].tag = routes[j].out.tag
      <4> SUFFICES ASSUME NEW j \in 1..m, Sends(routes[j])
                   PROVE  \E i \in 1..k : more[i].tag = routes[j].out.tag
        OBVIOUS
      <4>1. CASE j = m
        BY <2>3, <3>2, <4>1 DEF route
      <4>2. CASE j \in 1..n
        <5>1. PICK i \in 1..Len(outs) : outs[i].tag = routes[j].out.tag
          BY <2>3, <4>2 DEF Listed
        <5> QED
          BY <3>2, <5>1
      <4> QED
        BY <2>4, <4>1, <4>2
    <3> QED
      BY <3>1, <3>2, <3>3, <3>4 DEF Good, Listed
  <2> QED
    BY <2>5, <2>6, <2>7
<1> HIDE DEF N
<1>6. Nat \subseteq N
  BY <1>4, <1>5, SetInduction
<1>7. Good(last)
  BY <1>0, <1>6 DEF N
<1> QED
  BY <1>1, <1>7 DEF Good

\* Of any routes of the panel, in any order: every rendered rule that sends to an
\* outbound finds it once in the outbound list of the same file, though the two
\* lists are put together by loops of their own (core.rs:501 and core.rs:522).
LEMMA EveryRouteResolves == \A R : \A routes \in Seq(R) : ReferencesResolve(routes)
<1> SUFFICES ASSUME NEW R, NEW routes \in Seq(R) PROVE ReferencesResolve(routes)
  OBVIOUS
<1> DEFINE config == RenderConfig(routes)
           parts == [i \in 1..Len(routes) |-> Entries(routes[i])]
           E == UNION {ToSet(Entries(r)) : r \in R}
           rendered == RenderRoutes(routes)
           outs == CollectOutbounds(routes)
<1>0. Len(routes) \in Nat /\ \A i \in 1..Len(routes) : routes[i] \in R
  OBVIOUS
<1>1. \A i \in 1..Len(routes) : Entries(routes[i]) \in Seq(E)
  BY <1>0, EntriesName
<1>2. parts \in Seq(Seq(E)) /\ Len(parts) = Len(routes)
  <2> HIDE DEF E
  <2> QED
    BY <1>0, <1>1
<1>3. /\ rendered \in Seq(E)
      /\ \A e \in ToSet(rendered) : \E i \in 1..Len(routes) : e \in ToSet(Entries(routes[i]))
  <2>1. rendered = FlattenSeq(parts)
    BY DEF RenderRoutes
  <2>2. \A i \in 1..Len(routes) : parts[i] = Entries(routes[i])
    OBVIOUS
  <2> HIDE DEF E, parts, rendered
  <2>3. /\ FlattenSeq(parts) \in Seq(E)
        /\ \A x \in ToSet(FlattenSeq(parts)) : \E i \in 1..Len(parts) : x \in ToSet(parts[i])
    BY <1>2, FlattenElements
  <2> QED
    BY <1>2, <2>1, <2>2, <2>3
<1>4. Listed(outs, routes, Len(routes))
  BY AllListed
<1>5. config.ok => config.routes = rendered /\ config.outbounds = outs
  <2> HIDE DEF rendered, outs
  <2>1. config = [ok |-> FALSE] \/ config = [ok |-> TRUE, routes |-> rendered, outbounds |-> outs]
    BY DEF RenderConfig, rendered, outs
  <2> HIDE DEF config
  <2> QED
    BY <2>1
<1> HIDE DEF rendered, outs, config, E
<1>6. ASSUME NEW i \in 1..Len(rendered), rendered[i].action # "block"
      PROVE  \E k \in 1..Len(outs) :
                /\ outs[k].tag = rendered[i].action
                /\ \A j \in 1..Len(outs) : outs[j].tag = rendered[i].action => j = k
  <2>1. rendered[i] \in ToSet(rendered)
    BY <1>3 DEF ToSet
  <2>2. PICK j \in 1..Len(routes) : rendered[i] \in ToSet(Entries(routes[j]))
    BY <1>3, <2>1
  <2>3. Sends(routes[j]) /\ rendered[i].action = routes[j].out.tag
    BY <1>0, <1>6, <2>2, EntriesName
  <2>4. PICK k \in 1..Len(outs) : outs[k].tag = routes[j].out.tag
    BY <1>4, <2>3 DEF Listed
  <2> QED
    BY <1>4, <2>3, <2>4 DEF Listed
<1>7. SUFFICES ASSUME config.ok, NEW i \in 1..Len(config.routes),
                      config.routes[i].action # "block"
               PROVE  \E k \in 1..Len(config.outbounds) :
                        /\ config.outbounds[k].tag = config.routes[i].action
                        /\ \A j \in 1..Len(config.outbounds) :
                             config.outbounds[j].tag = config.routes[i].action => j = k
  BY Zenon DEF ReferencesResolve, config
<1> QED
  BY <1>5, <1>6, <1>7

---------------------------------------------------------------------------
(* A round of the node manager (Bootstrap) *)

\* The positions that were asked for, each once.
LEMMA PositionsAre ==
    ASSUME NEW T, NEW list \in Seq(T), NEW S, S \subseteq DOMAIN list
    PROVE  /\ Positions(list, S) \in Seq(DOMAIN list)
           /\ ToSet(Positions(list, S)) = S
           /\ IsInjective(Positions(list, S))
<1> DEFINE D == DOMAIN list
           all == [i \in D |-> i]
<1>1. D = 1..Len(list) /\ Len(list) \in Nat
  OBVIOUS
<1>2. all \in [1..Len(list) -> D]
  BY <1>1
<1>3. all \in Seq(D)
  BY <1>1, <1>2
<1>4. ToSet(all) = D
  BY DEF ToSet
<1>5. IsInjective(all)
  BY DEF IsInjective
<1>6. Positions(list, S) = Among(all, S)
  BY DEF Positions
<1> HIDE DEF D, all
<1>7. Among(all, S) \in Seq(D) /\ ToSet(Among(all, S)) = D \cap S /\ IsInjective(Among(all, S))
  BY <1>3, <1>4, <1>5, AmongElements, AmongInjective
<1> QED
  BY <1>6, <1>7 DEF D

\* The slot of a key is the runtime that has it.
LEMMA SlotOf ==
    ASSUME NEW current, NEW id \in Keys(current)
    PROVE  Slot(current, id) \in ToSet(current) /\ NodeKey(Slot(current, id).config) = id
<1>1. \E r \in ToSet(current) : NodeKey(r.config) = id
  BY DEF Keys, ToSet
<1> QED
  BY <1>1 DEF Slot

\* A manager that is accepted has one slot for each runtime.
LEMMA SlotIs ==
    ASSUME NEW current, SlotsOk(current), NEW r \in ToSet(current)
    PROVE  NodeKey(r.config) \in Keys(current) /\ Slot(current, NodeKey(r.config)) = r
<1>1. NodeKey(r.config) \in Keys(current)
  BY DEF Keys, ToSet
<1> DEFINE s == Slot(current, NodeKey(r.config))
<1>2. s \in ToSet(current) /\ NodeKey(s.config) = NodeKey(r.config)
  BY <1>1, SlotOf
<1> HIDE DEF s
<1>3. PICK i \in DOMAIN current : r = current[i]
  BY DEF ToSet
<1>4. PICK k \in DOMAIN current : s = current[k]
  BY <1>2 DEF ToSet
<1>5. i = k
  BY <1>2, <1>3, <1>4 DEF SlotsOk
<1> QED
  BY <1>1, <1>3, <1>4, <1>5 DEF s

\* No two of the configs that count have one key.
LEMMA FirstsApart ==
    ASSUME NEW T, NEW desired \in Seq(T), NEW i \in Firsts(desired), NEW k \in Firsts(desired),
           NodeKey(desired[i]) = NodeKey(desired[k])
    PROVE  i = k
<1>1. i \in Nat /\ k \in Nat /\ 1 <= i /\ 1 <= k
  BY DEF Firsts
<1>2. ~(i < k) /\ ~(k < i)
  BY <1>1 DEF Firsts
<1> QED
  BY <1>1, <1>2

\* What runs next has the key of its config.
LEMMA NextKey ==
    ASSUME NEW current, NEW desired, NEW load, NEW i \in Staying(current, desired, load)
    PROVE  /\ NodeKey(NextRuntime(current, desired, load, i).config) = NodeKey(desired[i])
           /\ i \in Firsts(desired) /\ i \in DOMAIN desired
<1>1. i \in Firsts(desired) /\ i \in DOMAIN desired
  BY DEF Staying, Found, Firsts
<1>2. CASE i \in Found(desired, load)
  BY <1>1, <1>2 DEF NextRuntime, Candidate
<1>3. CASE i \notin Found(desired, load)
  <2>1. NodeKey(desired[i]) \in Keys(current)
    BY <1>3 DEF Staying, Running
  <2>2. NextRuntime(current, desired, load, i) = Slot(current, NodeKey(desired[i]))
    BY <1>3 DEF NextRuntime
  <2> QED
    BY <1>1, <2>1, <2>2, SlotOf
<1> QED
  BY <1>2, <1>3

\* The manager after a round has slots that a next round accepts.
LEMMA NextSlots ==
    ASSUME NEW T, NEW desired \in Seq(T), NEW current, NEW load
    PROVE  LET new == NextRuntimes(current, desired, load)
               staying == Staying(current, desired, load)
           IN  /\ ToSet(new) = {NextRuntime(current, desired, load, i) : i \in staying}
               /\ Keys(new) = {NodeKey(desired[i]) : i \in staying}
               /\ SlotsOk(new)
<1> DEFINE new == NextRuntimes(current, desired, load)
           staying == Staying(current, desired, load)
           order == Positions(desired, staying)
           N(i) == NextRuntime(current, desired, load, i)
<1>1. \A i \in staying : /\ NodeKey(N(i).config) = NodeKey(desired[i])
                         /\ i \in Firsts(desired) /\ i \in DOMAIN desired
  BY NextKey
<1> HIDE DEF staying
<1>2. ToSet(order) = staying /\ IsInjective(order)
  BY <1>1, PositionsAre
<1>3. new = [i \in DOMAIN order |-> N(order[i])]
  BY DEF NextRuntimes, staying
<1> HIDE DEF order, new, N
<1>4. DOMAIN new = DOMAIN order /\ \A j \in DOMAIN order : new[j] = N(order[j]) /\ order[j] \in staying
  BY <1>2, <1>3 DEF ToSet
<1>5. \A i \in staying : \E j \in DOMAIN order : i = order[j]
  BY <1>2 DEF ToSet
<1>6. ToSet(new) = {N(i) : i \in staying}
  BY <1>4, <1>5 DEF ToSet
<1>7. Keys(new) = {NodeKey(desired[i]) : i \in staying}
  BY <1>1, <1>4, <1>5 DEF Keys
<1>8. NoKey \notin Keys(new)
  BY <1>1, <1>7 DEF Firsts
<1>9. ASSUME NEW i \in DOMAIN new, NEW k \in DOMAIN new,
             NodeKey(new[i].config) = NodeKey(new[k].config)
      PROVE  i = k
  <2>1. order[i] \in Firsts(desired) /\ order[k] \in Firsts(desired)
    BY <1>1, <1>4
  <2>2. NodeKey(desired[order[i]]) = NodeKey(desired[order[k]])
    BY <1>1, <1>4, <1>9
  <2>3. order[i] = order[k]
    BY <2>1, <2>2, FirstsApart
  <2> QED
    BY <1>2, <1>4, <2>3 DEF IsInjective
<1>10. SlotsOk(new)
  BY <1>8, <1>9 DEF SlotsOk
<1> QED
  BY <1>6, <1>7, <1>10 DEF new, staying, N

\* A next round with the same answers finds everything as it should be.
LEMMA NextRound ==
    ASSUME NEW T, NEW desired \in Seq(T), NEW current, NEW load
    PROVE  LET new == NextRuntimes(current, desired, load)
           IN  /\ Staying(new, desired, load) = Staying(current, desired, load)
               /\ Failing(new, desired, load) = Failing(current, desired, load)
               /\ NextRuntimes(new, desired, load) = new
               /\ ~NeedsFullReload(new, DesiredKeys(desired), Candidates(desired, load))
               /\ Staying(new, desired, load) \ Running(new, desired) = {}
               /\ Keys(new) \ DesiredKeys(desired) = {}
               /\ Changed(new, desired, load) = {}
<1> DEFINE new == NextRuntimes(current, desired, load)
           staying == Staying(current, desired, load)
           N(i) == NextRuntime(current, desired, load, i)
<1>1. /\ ToSet(new) = {N(i) : i \in staying}
      /\ Keys(new) = {NodeKey(desired[i]) : i \in staying}
      /\ SlotsOk(new)
  BY NextSlots
<1>2. \A i \in staying : /\ NodeKey(N(i).config) = NodeKey(desired[i])
                         /\ i \in Firsts(desired) /\ i \in DOMAIN desired
  BY NextKey
<1> HIDE DEF new
<1>3. Firsts(desired) \cap Running(new, desired) = staying
  <2>1. \A i \in Firsts(desired) : i \in Running(new, desired) => i \in staying
    <3> SUFFICES ASSUME NEW i \in Firsts(desired), i \in Running(new, desired) PROVE i \in staying
      OBVIOUS
    <3>1. PICK k \in staying : NodeKey(desired[i]) = NodeKey(desired[k])
      BY <1>1 DEF Running
    <3>2. i = k
      BY <1>2, <3>1, FirstsApart
    <3> QED
      BY <3>1, <3>2
  <2>2. \A i \in staying : i \in Firsts(desired) /\ i \in Running(new, desired)
    BY <1>1, <1>2 DEF Running
  <2> QED
    BY <2>1, <2>2
<1>4. Found(desired, load) \subseteq staying
  BY DEF Staying
<1>5. Staying(new, desired, load) = staying
  BY <1>3, <1>4 DEF Staying
<1>6. Failing(new, desired, load) = Failing(current, desired, load)
  <2>1. \A i \in Firsts(desired) : load[desired[i]].kind = "empty" =>
          (i \in Running(new, desired) <=> i \in Running(current, desired))
    <3>1. \A i \in Firsts(desired) : load[desired[i]].kind = "empty" => i \notin Found(desired, load)
      BY DEF Found
    <3>2. \A i \in Firsts(desired) : i \notin Found(desired, load) =>
            (i \in staying <=> i \in Running(current, desired))
      BY DEF Staying
    <3> QED
      BY <1>3, <3>1, <3>2
  <2> QED
    BY <2>1 DEF Failing
<1>7. \A i \in staying : /\ N(i) \in ToSet(new) /\ NodeKey(desired[i]) \in Keys(new)
                         /\ Slot(new, NodeKey(desired[i])) = N(i)
  <2> SUFFICES ASSUME NEW i \in staying
               PROVE  /\ N(i) \in ToSet(new) /\ NodeKey(desired[i]) \in Keys(new)
                      /\ Slot(new, NodeKey(desired[i])) = N(i)
    OBVIOUS
  <2>1. N(i) \in ToSet(new)
    BY <1>1
  <2> QED
    BY <1>1, <1>2, <2>1, SlotIs
<1>8. \A i \in staying : NextRuntime(new, desired, load, i) = N(i)
  <2>1. \A i \in staying : i \notin Found(desired, load) =>
          NextRuntime(new, desired, load, i) = Slot(new, NodeKey(desired[i]))
    BY DEF NextRuntime
  <2>2. \A i \in Found(desired, load) :
          NextRuntime(new, desired, load, i) = N(i)
    BY DEF NextRuntime
  <2> QED
    BY <1>7, <2>1, <2>2
<1>9. NextRuntimes(new, desired, load) = new
  <2> DEFINE order == Positions(desired, staying)
  <2>1. ToSet(order) = staying
    <3> HIDE DEF staying
    <3> QED
      BY <1>2, PositionsAre
  <2>2. new = [j \in DOMAIN order |-> N(order[j])]
    BY DEF NextRuntimes, new
  <2>3. NextRuntimes(new, desired, load) =
          [j \in DOMAIN order |-> NextRuntime(new, desired, load, order[j])]
    BY <1>5 DEF NextRuntimes
  <2>4. \A j \in DOMAIN order : order[j] \in staying
    <3> HIDE DEF order, staying
    <3> QED
      BY <2>1 DEF ToSet
  <2> HIDE DEF order, staying
  <2> QED
    BY <1>8, <2>2, <2>3, <2>4
<1>10. ~NeedsFullReload(new, DesiredKeys(desired), Candidates(desired, load))
  <2>1. \A r \in ToSet(new) : NodeKey(r.config) \in DesiredKeys(desired)
    BY <1>1, <1>2 DEF DesiredKeys
  <2>2. \A c \in Candidates(desired, load) :
          NodeKey(c.config) \in Keys(new) /\ c = Slot(new, NodeKey(c.config))
    <3> SUFFICES ASSUME NEW i \in Found(desired, load)
                 PROVE  LET c == Candidate(desired, load, i)
                        IN  NodeKey(c.config) \in Keys(new) /\ c = Slot(new, NodeKey(c.config))
      BY DEF Candidates
    <3>1. Candidate(desired, load, i).config = desired[i]
      BY DEF Candidate
    <3>2. N(i) = Candidate(desired, load, i) /\ i \in staying
      BY <1>4 DEF NextRuntime
    <3> QED
      BY <1>7, <3>1, <3>2
  <2> QED
    BY <2>1, <2>2 DEF NeedsFullReload
<1>11. Staying(new, desired, load) \ Running(new, desired) = {}
  BY <1>3, <1>5
<1>12. Keys(new) \ DesiredKeys(desired) = {}
  BY <1>1, <1>2 DEF DesiredKeys
<1>13. Changed(new, desired, load) = {}
  BY <1>5, <1>7, <1>8 DEF Changed
<1> QED
  BY <1>5, <1>6, <1>9, <1>10, <1>11, <1>12, <1>13 DEF new

\* Nodes with routes of their own come through a round as they are.
LEMMA RoutedKept ==
    ASSUME NEW T, NEW desired \in Seq(T), NEW current, NEW load, SlotsOk(current),
           ~NeedsFullReload(current, DesiredKeys(desired), Candidates(desired, load))
    PROVE  LET new == NextRuntimes(current, desired, load)
           IN  {r \in ToSet(new) : HasRoutes(r)} = {r \in ToSet(current) : HasRoutes(r)}
<1> DEFINE new == NextRuntimes(current, desired, load)
           staying == Staying(current, desired, load)
           N(i) == NextRuntime(current, desired, load, i)
<1>1. ToSet(new) = {N(i) : i \in staying}
  BY NextSlots
<1> HIDE DEF new
<1>2. \A i \in Found(desired, load) :
        LET c == Candidate(desired, load, i)
        IN  /\ c \in Candidates(desired, load) /\ NodeKey(c.config) = NodeKey(desired[i])
            /\ N(i) = c
  BY DEF Candidates, Candidate, NextRuntime
<1>3. ASSUME NEW c \in Candidates(desired, load)
      PROVE  LET k == NodeKey(c.config)
             IN  IF k \in Keys(current)
                   THEN c = Slot(current, k) \/ (~HasRoutes(c) /\ ~HasRoutes(Slot(current, k)))
                   ELSE ~HasRoutes(c)
  BY DEF NeedsFullReload
<1>4. \A r \in ToSet(current) : HasRoutes(r) => NodeKey(r.config) \in DesiredKeys(desired)
  BY DEF NeedsFullReload
<1>5. ASSUME NEW i \in staying, HasRoutes(N(i)) PROVE N(i) \in ToSet(current)
  <2>1. CASE i \in Found(desired, load)
    <3> DEFINE c == Candidate(desired, load, i)
    <3>1. c \in Candidates(desired, load) /\ N(i) = c
      BY <1>2, <2>1
    <3> HIDE DEF c
    <3>2. NodeKey(c.config) \in Keys(current) /\ c = Slot(current, NodeKey(c.config))
      BY <1>3, <1>5, <3>1
    <3>3. c \in ToSet(current)
      BY <3>2, SlotOf
    <3> QED
      BY <3>1, <3>3
  <2>2. CASE i \notin Found(desired, load)
    <3>1. NodeKey(desired[i]) \in Keys(current) /\ N(i) = Slot(current, NodeKey(desired[i]))
      BY <2>2 DEF Staying, Running, NextRuntime
    <3> QED
      BY <3>1, SlotOf
  <2> QED
    BY <2>1, <2>2
<1>6. ASSUME NEW r \in ToSet(current), HasRoutes(r) PROVE r \in ToSet(new)
  <2>1. PICK i \in Firsts(desired) : NodeKey(r.config) = NodeKey(desired[i])
    BY <1>4, <1>6 DEF DesiredKeys
  <2>2. NodeKey(desired[i]) \in Keys(current) /\ Slot(current, NodeKey(desired[i])) = r
    BY <2>1, SlotIs
  <2>3. i \in staying
    BY <2>1, <2>2 DEF Staying, Running, Firsts
  <2>4. N(i) = r
    <3>1. CASE i \in Found(desired, load)
      <4> DEFINE c == Candidate(desired, load, i)
      <4>1. c \in Candidates(desired, load) /\ N(i) = c /\ NodeKey(c.config) = NodeKey(desired[i])
        BY <1>2, <3>1
      <4> HIDE DEF c
      <4> QED
        BY <1>3, <1>6, <2>2, <4>1
    <3>2. CASE i \notin Found(desired, load)
      BY <2>2, <3>2 DEF NextRuntime
    <3> QED
      BY <3>1, <3>2
  <2> QED
    BY <1>1, <2>3, <2>4
<1>7. {r \in ToSet(new) : HasRoutes(r)} = {r \in ToSet(current) : HasRoutes(r)}
  BY <1>1, <1>5, <1>6
<1> QED
  BY <1>7 DEF new

\* A node whose panel does not describe it stays.
LEMMA SilentKept ==
    ASSUME NEW T, NEW desired \in Seq(T), NEW current, NEW load, SlotsOk(current),
           NEW r \in ToSet(current), NEW i \in Firsts(desired) \ Found(desired, load),
           NodeKey(desired[i]) = NodeKey(r.config)
    PROVE  r \in ToSet(NextRuntimes(current, desired, load))
<1>1. NodeKey(r.config) \in Keys(current) /\ Slot(current, NodeKey(r.config)) = r
  BY SlotIs
<1>2. i \in Staying(current, desired, load)
  BY <1>1 DEF Staying, Running, Firsts
<1>3. NextRuntime(current, desired, load, i) = r
  BY <1>1 DEF NextRuntime
<1>4. ToSet(NextRuntimes(current, desired, load)) =
        {NextRuntime(current, desired, load, k) : k \in Staying(current, desired, load)}
  BY NextSlots
<1> QED
  BY <1>2, <1>3, <1>4

\* A round, whatever runs, is wanted and is answered.
LEMMA EveryRound ==
    ASSUME NEW T, NEW desired \in Seq(T), NEW manager, DOMAIN manager = ManagerFields, NEW go, NEW load
    PROVE  ReconcileSafe(manager, desired, go, load)
<1> DEFINE current == manager.runtimes
           failing == Failing(current, desired, load)
           failures == At(desired, Positions(desired, failing))
           keys == DesiredKeys(desired)
           candidates == Candidates(desired, load)
           once == Reconcile(manager, desired, manager.realtime, go, load)
           twice == Reconcile(once.manager, desired, manager.realtime, go, load)
           Routed(m) == {r \in ToSet(m.runtimes) : HasRoutes(r)}
           Silent(r) == \E i \in Firsts(desired) \ Found(desired, load) :
                          NodeKey(desired[i]) = NodeKey(r.config)
           Still == /\ twice.ok /\ twice.manager = once.manager /\ twice.reload = once.reload
                      /\ twice.added = 0 /\ twice.removed = 0 /\ twice.restarted = 0
<1> SUFFICES /\ ~once.reload => Routed(once.manager) = Routed(manager)
             /\ \A r \in ToSet(current) : Silent(r) => r \in ToSet(once.manager.runtimes)
             /\ once.ok => Still
  BY DEF ReconcileSafe
<1>1. CASE once = Reconciled(FALSE, manager, FALSE, 0, 0, 0)
  <2> HIDE DEF once
  <2>1. once.manager = manager /\ ~once.ok
    BY <1>1 DEF Reconciled
  <2> QED
    BY <2>1
<1>2. CASE once = Reconciled(TRUE, manager, TRUE, 0, 0, 0)
  <2>1. once.manager = manager /\ once.ok /\ once.reload /\ once.added = 0 /\ once.removed = 0
        /\ once.restarted = 0
    <3> HIDE DEF once
    <3> QED
      BY <1>2 DEF Reconciled
  <2>2. twice = once
    BY <2>1
  <2> HIDE DEF once, twice
  <2> QED
    BY <2>1, <2>2
<1>3. CASE /\ SlotsOk(current) /\ (failing = {} \/ go) /\ candidates = {} /\ failing # {}
           /\ once = Reconciled(TRUE, [manager EXCEPT !.failures = failures], FALSE, 0, 0, 0)
  <2> DEFINE m == [manager EXCEPT !.failures = failures]
  <2>1. m.runtimes = current /\ [m EXCEPT !.failures = failures] = m
    BY DEF ManagerFields
  <2>2. once.manager = m /\ once.reload = FALSE
    <3> HIDE DEF once, m
    <3> QED
      BY <1>3 DEF m, Reconciled
  <2>3. Reconcile(m, desired, manager.realtime, go, load) =
          Reconciled(TRUE, [m EXCEPT !.failures = failures], FALSE, 0, 0, 0)
    <3> HIDE DEF m
    <3> QED
      BY <1>3, <2>1 DEF Reconcile
  <2>4. twice = Reconciled(TRUE, m, FALSE, 0, 0, 0)
    <3> HIDE DEF m, once
    <3> QED
      BY <2>1, <2>2, <2>3
  <2> HIDE DEF m, twice, once
  <2>5. twice.ok /\ twice.manager = m /\ twice.reload = FALSE
        /\ twice.added = 0 /\ twice.removed = 0 /\ twice.restarted = 0
    BY <2>4 DEF Reconciled
  <2> QED
    BY <2>1, <2>2, <2>5
<1>4. CASE /\ SlotsOk(current) /\ (failing = {} \/ go) /\ ~(candidates = {} /\ failing # {})
           /\ ~NeedsFullReload(current, keys, candidates)
           /\ once = Reconciled(TRUE,
                       [runtimes |-> NextRuntimes(current, desired, load),
                        failures |-> failures, realtime |-> manager.realtime,
                        continueOnError |-> go],
                       FALSE,
                       Cardinality(Staying(current, desired, load) \ Running(current, desired)),
                       Cardinality(Keys(current) \ keys),
                       Cardinality(Changed(current, desired, load)))
  <2> DEFINE new == NextRuntimes(current, desired, load)
             m == [runtimes |-> new, failures |-> failures, realtime |-> manager.realtime,
                   continueOnError |-> go]
  <2>1. once.manager = m /\ once.reload = FALSE /\ m.runtimes = new
    <3>1. m.runtimes = new
      OBVIOUS
    <3> HIDE DEF once
    <3>2. once.manager = m /\ once.reload = FALSE
      BY <1>4 DEF Reconciled
    <3> QED
      BY <3>1, <3>2
  <2>2. Routed(m) = Routed(manager)
    <3>1. {r \in ToSet(new) : HasRoutes(r)} = {r \in ToSet(current) : HasRoutes(r)}
      <4> HIDE DEF current
      <4> QED
        BY <1>4, RoutedKept
    <3> HIDE DEF m, new
    <3> QED
      BY <2>1, <3>1
  <2>3. \A r \in ToSet(current) : Silent(r) => r \in ToSet(new)
    <3> HIDE DEF current
    <3> QED
      BY <1>4, SilentKept
  <2>4. /\ SlotsOk(new)
        /\ Staying(new, desired, load) = Staying(current, desired, load)
        /\ Failing(new, desired, load) = failing
        /\ NextRuntimes(new, desired, load) = new
        /\ ~NeedsFullReload(new, keys, candidates)
        /\ Staying(new, desired, load) \ Running(new, desired) = {}
        /\ Keys(new) \ keys = {}
        /\ Changed(new, desired, load) = {}
    <3> HIDE DEF current
    <3> QED
      BY NextSlots, NextRound
  <2>5. Cardinality({}) = 0
    BY FS_EmptySet
  <2>6. Reconcile(m, desired, manager.realtime, go, load) = Reconciled(TRUE, m, FALSE, 0, 0, 0)
    <3> HIDE DEF new
    <3>1. m.runtimes = new
      OBVIOUS
    <3>2. m = [runtimes |-> new, failures |-> failures, realtime |-> manager.realtime,
               continueOnError |-> go]
      OBVIOUS
    <3> HIDE DEF m, failing, candidates, keys, current
    <3>3. Reconcile(m, desired, manager.realtime, go, load) =
            Reconciled(TRUE, [runtimes |-> NextRuntimes(new, desired, load),
                              failures |-> failures, realtime |-> manager.realtime,
                              continueOnError |-> go],
                       FALSE,
                       Cardinality(Staying(new, desired, load) \ Running(new, desired)),
                       Cardinality(Keys(new) \ keys),
                       Cardinality(Changed(new, desired, load)))
      BY <1>4, <2>4, <3>1 DEF Reconcile, keys, candidates
    <3> QED
      BY <2>4, <2>5, <3>2, <3>3
  <2>7. twice = Reconciled(TRUE, m, FALSE, 0, 0, 0)
    <3> HIDE DEF m, once
    <3> QED
      BY <2>1, <2>6
  <2> HIDE DEF m, twice, once, new
  <2>8. twice.ok /\ twice.manager = m /\ twice.reload = FALSE
        /\ twice.added = 0 /\ twice.removed = 0 /\ twice.restarted = 0
    BY <2>7 DEF Reconciled
  <2> QED
    BY <2>1, <2>2, <2>3, <2>8
<1> HIDE DEF once, twice, Still, Routed, Silent
<1>5. \/ once = Reconciled(FALSE, manager, FALSE, 0, 0, 0)
      \/ once = Reconciled(TRUE, manager, TRUE, 0, 0, 0)
      \/ /\ SlotsOk(current) /\ (failing = {} \/ go) /\ candidates = {} /\ failing # {}
         /\ once = Reconciled(TRUE, [manager EXCEPT !.failures = failures], FALSE, 0, 0, 0)
      \/ /\ SlotsOk(current) /\ (failing = {} \/ go) /\ ~(candidates = {} /\ failing # {})
         /\ ~NeedsFullReload(current, keys, candidates)
         /\ once = Reconciled(TRUE,
                       [runtimes |-> NextRuntimes(current, desired, load),
                        failures |-> failures, realtime |-> manager.realtime,
                        continueOnError |-> go],
                       FALSE,
                       Cardinality(Staying(current, desired, load) \ Running(current, desired)),
                       Cardinality(Keys(current) \ keys),
                       Cardinality(Changed(current, desired, load)))
  BY DEF once, Reconcile
<1> QED
  BY <1>1, <1>2, <1>3, <1>4, <1>5

---------------------------------------------------------------------------
(* Machine profiles (Bootstrap) *)

\* Every node's own config is found.
LEMMA OwnConfigs ==
    ASSUME NEW T, NEW configs \in Seq(T)
    PROVE  OwnConfig(configs)
<1> SUFFICES ASSUME NEW i \in DOMAIN configs
             PROVE  LET found == ConfigOf(configs, [url |-> configs[i].url, node |-> configs[i].node])
                    IN  found.url = configs[i].url /\ found.node = configs[i].node
  BY DEF OwnConfig
<1> DEFINE same == {c \in ToSet(configs) : c.node = configs[i].node /\ c.url = configs[i].url}
           exact == Among(configs, same)
<1>1. configs[i] \in same
  BY DEF ToSet
<1>2. same \subseteq ToSet(configs)
  OBVIOUS
<1> HIDE DEF same
<1>3. exact \in Seq(T) /\ ToSet(exact) = ToSet(configs) \cap same
  BY AmongElements
<1> HIDE DEF exact
<1>4. exact # <<>>
  BY <1>1, <1>2, <1>3 DEF ToSet
<1>5. exact[1] \in ToSet(exact)
  BY <1>3, <1>4 DEF ToSet
<1>6. exact[1].url = configs[i].url /\ exact[1].node = configs[i].node
  BY <1>3, <1>5 DEF same
<1>7. ConfigOf(configs, [url |-> configs[i].url, node |-> configs[i].node]) = exact[1]
  BY <1>4 DEF ConfigOf, exact, same
<1> QED
  BY <1>6, <1>7

\* Filtering a list is taking the positions of what is in the set.
LEMMA AmongPositions ==
    ASSUME NEW T, NEW list \in Seq(T), NEW S
    PROVE  Among(list, S) = At(list, Positions(list, {i \in DOMAIN list : list[i] \in S}))
<1> DEFINE D == DOMAIN list
           n == Len(list)
           all == [i \in D |-> i]
           P == {i \in D : list[i] \in S}
<1>1. D = 1..n /\ n \in Nat
  OBVIOUS
<1>2. all \in Seq(D) /\ Len(all) = n
  <2>1. all \in [1..n -> D]
    BY <1>1
  <2> HIDE DEF D, n, all
  <2> QED
    BY <1>1, <2>1
<1>3. PICK g : Filters(g, list, S, n) /\ Among(list, S) = g[n]
  BY AmongFilters
<1>4. PICK h : Filters(h, all, P, n) /\ Among(all, P) = h[n]
  <2> HIDE DEF D, n, all, P
  <2>1. \E h : Filters(h, all, P, Len(all)) /\ Among(all, P) = h[Len(all)]
    BY <1>2, AmongFilters
  <2> QED
    BY <1>2, <2>1
<1>5. Positions(list, P) = Among(all, P)
  BY DEF Positions
<1>6. \A i \in 1..n : (all[i] \in P <=> list[i] \in S) /\ all[i] = i /\ i \in D
  BY <1>1
<1> HIDE DEF D, n, all, P
<1> DEFINE N == {i \in Nat : i <= n => h[i] \in Seq(D) /\ g[i] = At(list, h[i])}
<1>7. 0 \in N
  <2>1. g[0] = <<>> /\ h[0] = <<>>
    BY <1>1, <1>3, <1>4 DEF Filters
  <2>2. At(list, <<>>) = <<>> /\ <<>> \in Seq(D)
    BY DEF At
  <2>3. h[0] \in Seq(D) /\ g[0] = At(list, h[0])
    BY <2>1, <2>2
  <2> QED
    BY <2>3
<1>8. ASSUME NEW i \in Nat, i \in N PROVE i + 1 \in N
  <2> SUFFICES ASSUME i + 1 <= n PROVE h[i + 1] \in Seq(D) /\ g[i + 1] = At(list, h[i + 1])
    OBVIOUS
  <2>1. h[i] \in Seq(D) /\ g[i] = At(list, h[i]) /\ i + 1 \in 1..n
    BY <1>1, <1>8
  <2>2. g[i + 1] = Kept(list, S, g[i], i + 1)
    BY <1>1, <1>3, <2>1 DEF Filters
  <2>3. h[i + 1] = Kept(all, P, h[i], i + 1)
    BY <1>1, <1>4, <2>1 DEF Filters
  <2>4. CASE list[i + 1] \in S
    <3>1. g[i + 1] = Append(g[i], list[i + 1]) /\ h[i + 1] = Append(h[i], i + 1) /\ i + 1 \in D
      BY <1>6, <2>1, <2>2, <2>3, <2>4 DEF Kept
    <3> DEFINE u == h[i]
    <3>2. u \in Seq(D)
      BY <2>1
    <3> HIDE DEF u
    <3>3. At(list, Append(u, i + 1)) = Append(At(list, u), list[i + 1])
      <4>1. Len(u) \in Nat /\ DOMAIN u = 1..Len(u) /\ DOMAIN Append(u, i + 1) = 1..(Len(u) + 1)
        BY <3>1, <3>2
      <4>2. /\ \A j \in 1..Len(u) : Append(u, i + 1)[j] = u[j]
            /\ Append(u, i + 1)[Len(u) + 1] = i + 1
        BY <3>1, <3>2
      <4> DEFINE a == At(list, u)
                 b == At(list, Append(u, i + 1))
      <4>3. /\ DOMAIN a = 1..Len(u) /\ \A j \in 1..Len(u) : a[j] = list[u[j]]
            /\ a = [j \in 1..Len(u) |-> list[u[j]]]
        BY <4>1 DEF At
      <4>4. b = [j \in 1..(Len(u) + 1) |-> list[Append(u, i + 1)[j]]]
        BY <4>1 DEF At
      <4>5. a \in Seq(T) /\ Len(a) = Len(u)
        <5>1. \A j \in 1..Len(u) : list[u[j]] \in T
          <6>1. \A j \in 1..Len(u) : u[j] \in D
            BY <3>2
          <6> QED
            BY <6>1 DEF D
        <5>2. a \in [1..Len(u) -> T]
          BY <4>3, <5>1
        <5> HIDE DEF a
        <5> QED
          BY <4>1, <5>2
      <4> HIDE DEF a, b
      <4>6. \A j \in 1..(Len(u) + 1) : b[j] = Append(a, list[i + 1])[j]
        <5> SUFFICES ASSUME NEW j \in 1..(Len(u) + 1) PROVE b[j] = Append(a, list[i + 1])[j]
          OBVIOUS
        <5>1. list[i + 1] \in T
          BY <3>1 DEF D
        <5>2. CASE j \in 1..Len(u)
          <6>1. b[j] = list[u[j]]
            BY <4>1, <4>2, <4>4, <5>2
          <6>2. Append(a, list[i + 1])[j] = a[j]
            BY <4>1, <4>5, <5>1, <5>2
          <6> QED
            BY <4>3, <5>2, <6>1, <6>2
        <5>3. CASE j = Len(u) + 1
          <6>1. b[j] = list[i + 1]
            BY <4>1, <4>2, <4>4, <5>3
          <6>2. Append(a, list[i + 1])[j] = list[i + 1]
            BY <4>5, <5>1, <5>3
          <6> QED
            BY <6>1, <6>2
        <5>4. j \in 1..Len(u) \/ j = Len(u) + 1
          BY <4>1
        <5> QED
          BY <5>2, <5>3, <5>4
      <4>7. b = Append(a, list[i + 1])
        <5>1. list[i + 1] \in T
          BY <3>1 DEF D
        <5>2. DOMAIN Append(a, list[i + 1]) = 1..(Len(u) + 1)
          BY <4>5, <5>1
        <5>3. Append(a, list[i + 1]) = [j \in 1..(Len(u) + 1) |-> Append(a, list[i + 1])[j]]
          BY <4>5, <5>1, <5>2
        <5> QED
          BY <4>4, <4>6, <5>3
      <4> QED
        BY <4>7 DEF a, b
    <3>4. Append(u, i + 1) \in Seq(D)
      BY <3>1, <3>2
    <3> QED
      BY <2>1, <3>1, <3>3, <3>4 DEF u
  <2>5. CASE list[i + 1] \notin S
    <3>1. g[i + 1] = g[i] /\ h[i + 1] = h[i]
      BY <1>6, <2>1, <2>2, <2>3, <2>5 DEF Kept
    <3> QED
      BY <2>1, <3>1
  <2> QED
    BY <2>4, <2>5
<1> HIDE DEF N
<1>9. Nat \subseteq N
  BY <1>7, <1>8, SetInduction
<1>10. g[n] = At(list, h[n])
  BY <1>1, <1>9 DEF N
<1> QED
  BY <1>3, <1>4, <1>5, <1>10 DEF P, D

\* g is the function that ProfileSum computes, on the first n profiles.
Sums(g, inputs, go, n) ==
    g = [i \in 0..n |-> IF i = 0 THEN NoProfiles(go) ELSE AddProfile(g[i - 1], inputs[i])]

\* There is such a function, for any profiles and any number of them.
LEMMA SumExists ==
    ASSUME NEW inputs, NEW go
    PROVE  \A n \in Nat : \E g : Sums(g, inputs, go, n)
<1> DEFINE N == {n \in Nat : \E g : Sums(g, inputs, go, n)}
<1>1. 0 \in N
  <2> DEFINE g == [i \in 0..0 |-> NoProfiles(go)]
  <2>1. Sums(g, inputs, go, 0)
    BY DEF Sums
  <2> QED
    BY <2>1
<1>2. ASSUME NEW n \in Nat, n \in N PROVE n + 1 \in N
  <2>1. PICK g : Sums(g, inputs, go, n)
    BY <1>2
  <2> DEFINE h == [i \in 0..(n + 1) |-> IF i <= n THEN g[i] ELSE AddProfile(g[n], inputs[n + 1])]
  <2>2. ASSUME NEW i \in 0..(n + 1)
        PROVE  h[i] = IF i = 0 THEN NoProfiles(go) ELSE AddProfile(h[i - 1], inputs[i])
    <3>1. CASE i = 0
      BY <3>1, <2>1 DEF Sums
    <3>2. CASE i # 0 /\ i <= n
      <4>1. h[i] = g[i] /\ h[i - 1] = g[i - 1]
        BY <3>2
      <4>2. g[i] = AddProfile(g[i - 1], inputs[i])
        BY <3>2, <2>1 DEF Sums
      <4> QED
        BY <4>1, <4>2, <3>2
    <3>3. CASE i = n + 1
      BY <3>3
    <3> QED
      BY <3>1, <3>2, <3>3
  <2>3. h = [i \in 0..(n + 1) |-> IF i = 0 THEN NoProfiles(go) ELSE AddProfile(h[i - 1], inputs[i])]
    BY <2>2
  <2>4. Sums(h, inputs, go, n + 1)
    BY <2>3 DEF Sums
  <2> QED
    BY <2>4
<1> HIDE DEF N
<1>3. Nat \subseteq N
  BY <1>1, <1>2, SetInduction
<1> QED
  BY <1>3 DEF N

\* ProfileSum computes it.
LEMMA SumIs ==
    ASSUME NEW T, NEW inputs \in Seq(T), NEW go
    PROVE  \E g : Sums(g, inputs, go, Len(inputs)) /\ ProfileSum(inputs, go) = g[Len(inputs)]
<1> DEFINE upTo == CHOOSE g : g = [i \in 0..Len(inputs) |->
                     IF i = 0 THEN NoProfiles(go) ELSE AddProfile(g[i - 1], inputs[i])]
<1>0. Len(inputs) \in Nat
  OBVIOUS
<1>1. \E g : Sums(g, inputs, go, Len(inputs))
  BY <1>0, SumExists
<1>2. \E g : g = [i \in 0..Len(inputs) |->
                    IF i = 0 THEN NoProfiles(go) ELSE AddProfile(g[i - 1], inputs[i])]
  BY <1>1 DEF Sums
<1>3. Sums(upTo, inputs, go, Len(inputs))
  BY <1>2 DEF Sums
<1>4. ProfileSum(inputs, go) = upTo[Len(inputs)]
  BY Zenon DEF ProfileSum
<1> QED
  BY <1>3, <1>4

\* Two of them agree on the profiles that come first in both lists.
LEMMA SumsAgree ==
    ASSUME NEW s, NEW t, NEW go, NEW n \in Nat, NEW m \in Nat, n <= m,
           \A i \in 1..n : s[i] = t[i],
           NEW g, NEW h, Sums(g, s, go, n), Sums(h, t, go, m)
    PROVE  g[n] = h[n]
<1> DEFINE N == {i \in Nat : i <= n => g[i] = h[i]}
<1>1. 0 \in N
  BY DEF Sums
<1>2. ASSUME NEW i \in Nat, i \in N PROVE i + 1 \in N
  <2> SUFFICES ASSUME i + 1 <= n PROVE g[i + 1] = h[i + 1]
    OBVIOUS
  <2>1. g[i] = h[i] /\ s[i + 1] = t[i + 1]
    BY <1>2
  <2>2. g[i + 1] = AddProfile(g[i], s[i + 1])
    BY DEF Sums
  <2>3. h[i + 1] = AddProfile(h[i], t[i + 1])
    BY DEF Sums
  <2> QED
    BY <2>1, <2>2, <2>3
<1> HIDE DEF N
<1>3. Nat \subseteq N
  BY <1>1, <1>2, SetInduction
<1> QED
  BY <1>3 DEF N

\* The sum of no profile.
LEMMA SumEmpty ==
    ASSUME NEW go
    PROVE  ProfileSum(<<>>, go) = NoProfiles(go)
<1>1. <<>> \in Seq({}) /\ Len(<<>>) = 0
  OBVIOUS
<1>2. PICK g : Sums(g, <<>>, go, Len(<<>>)) /\ ProfileSum(<<>>, go) = g[Len(<<>>)]
  BY <1>1, SumIs
<1> QED
  BY <1>1, <1>2 DEF Sums

\* The profile that is added comes last.
LEMMA SumAppend ==
    ASSUME NEW T, NEW s \in Seq(T), NEW x \in T, NEW go
    PROVE  ProfileSum(Append(s, x), go) = AddProfile(ProfileSum(s, go), x)
<1> DEFINE t == Append(s, x)
<1>1. t \in Seq(T) /\ Len(t) = Len(s) + 1 /\ t[Len(s) + 1] = x /\ Len(s) \in Nat
  OBVIOUS
<1>2. \A i \in 1..Len(s) : s[i] = t[i]
  OBVIOUS
<1>3. PICK g : Sums(g, s, go, Len(s)) /\ ProfileSum(s, go) = g[Len(s)]
  BY SumIs
<1>4. PICK h : Sums(h, t, go, Len(t)) /\ ProfileSum(t, go) = h[Len(t)]
  BY <1>1, SumIs
<1> HIDE DEF t
<1>5. g[Len(s)] = h[Len(s)]
  BY <1>1, <1>2, <1>3, <1>4, SumsAgree
<1>6. h[Len(s) + 1] = AddProfile(h[Len(s)], t[Len(s) + 1])
  BY <1>1, <1>4 DEF Sums
<1>7. ProfileSum(t, go) = AddProfile(ProfileSum(s, go), x)
  BY <1>1, <1>3, <1>4, <1>5, <1>6
<1> QED
  BY <1>7 DEF t

\* The same for AddNodes.
Adds(g, list, nodes, n) ==
    g = [i \in 0..n |-> IF i = 0 THEN list ELSE AddNodeOnce(g[i - 1], nodes[i])]

\* Adding a profile's nodes to a list of nodes makes a list of nodes.
LEMMA AddNodesList ==
    ASSUME NEW T, NEW list \in Seq(T), NEW nodes \in Seq(T)
    PROVE  AddNodes(list, nodes) \in Seq(T)
<1> DEFINE n == Len(nodes)
           upTo == CHOOSE g : g = [i \in 0..n |->
                     IF i = 0 THEN list ELSE AddNodeOnce(g[i - 1], nodes[i])]
<1>1. n \in Nat /\ \A i \in 1..n : nodes[i] \in T
  OBVIOUS
<1>2. AddNodes(list, nodes) = upTo[n]
  BY Zenon DEF AddNodes
<1>3. \A m \in Nat : \E g : Adds(g, list, nodes, m)
  <2> HIDE DEF n
  <2> DEFINE N == {m \in Nat : \E g : Adds(g, list, nodes, m)}
  <2>1. 0 \in N
    <3> DEFINE g == [i \in 0..0 |-> list]
    <3>1. Adds(g, list, nodes, 0)
      BY DEF Adds
    <3> QED
      BY <3>1
  <2>2. ASSUME NEW m \in Nat, m \in N PROVE m + 1 \in N
    <3>1. PICK g : Adds(g, list, nodes, m)
      BY <2>2
    <3> DEFINE h == [i \in 0..(m + 1) |-> IF i <= m THEN g[i] ELSE AddNodeOnce(g[m], nodes[m + 1])]
    <3>2. ASSUME NEW i \in 0..(m + 1)
          PROVE  h[i] = IF i = 0 THEN list ELSE AddNodeOnce(h[i - 1], nodes[i])
      <4>1. CASE i = 0
        BY <4>1, <3>1 DEF Adds
      <4>2. CASE i # 0 /\ i <= m
        <5>1. h[i] = g[i] /\ h[i - 1] = g[i - 1]
          BY <4>2
        <5>2. g[i] = AddNodeOnce(g[i - 1], nodes[i])
          BY <4>2, <3>1 DEF Adds
        <5> QED
          BY <5>1, <5>2, <4>2
      <4>3. CASE i = m + 1
        BY <4>3
      <4> QED
        BY <4>1, <4>2, <4>3
    <3>3. Adds(h, list, nodes, m + 1)
      BY <3>2 DEF Adds
    <3> QED
      BY <3>3
  <2> HIDE DEF N
  <2>3. Nat \subseteq N
    BY <2>1, <2>2, SetInduction
  <2> QED
    BY <2>3 DEF N
<1>4. upTo = [i \in 0..n |-> IF i = 0 THEN list ELSE AddNodeOnce(upTo[i - 1], nodes[i])]
  <2>1. \E g : Adds(g, list, nodes, n)
    BY <1>1, <1>3
  <2> QED
    BY <2>1 DEF Adds
<1> HIDE DEF upTo, n
<1>5. ASSUME NEW u \in Seq(T), NEW x \in T PROVE AddNodeOnce(u, x) \in Seq(T)
  BY DEF AddNodeOnce
<1> DEFINE P == {i \in Nat : i <= n => upTo[i] \in Seq(T)}
<1>6. 0 \in P
  BY <1>1, <1>4
<1>7. ASSUME NEW i \in Nat, i \in P PROVE i + 1 \in P
  <2> SUFFICES ASSUME i + 1 <= n PROVE upTo[i + 1] \in Seq(T)
    OBVIOUS
  <2>1. upTo[i] \in Seq(T) /\ nodes[i + 1] \in T
    BY <1>1, <1>7
  <2>2. upTo[i + 1] = AddNodeOnce(upTo[i], nodes[i + 1])
    BY <1>1, <1>4
  <2> QED
    BY <1>5, <2>1, <2>2
<1> HIDE DEF P
<1>8. Nat \subseteq P
  BY <1>6, <1>7, SetInduction
<1>9. upTo[n] \in Seq(T)
  BY <1>1, <1>8 DEF P
<1> QED
  BY <1>2, <1>9 DEF n

\* Nodes of a profile.
NodesOf(profile) ==
    {NodeConfig(profile.url, profile.token, id, profile.machine, MachineNodeDir(profile, id)) :
       id \in Nat}

\* A profile's nodes are a list of them.
LEMMA ProfileNodesList ==
    ASSUME NEW profile, NEW answer, answer.nodes \in Seq(Nat)
    PROVE  ProfileNodes(profile, answer) \in Seq(NodesOf(profile))
<1> DEFINE ids == Among(answer.nodes, {node \in ToSet(answer.nodes) : node > 0})
           F(id) == NodeConfig(profile.url, profile.token, id, profile.machine,
                               MachineNodeDir(profile, id))
           S == NodesOf(profile)
           list == [i \in DOMAIN ids |-> F(ids[i])]
<1>1. ids \in Seq(Nat)
  BY AmongElements
<1>2. \A id \in Nat : F(id) \in S
  BY DEF NodesOf
<1>3. ProfileNodes(profile, answer) = list
  BY DEF ProfileNodes
<1> HIDE DEF ids, F, S
<1>4. list \in [1..Len(ids) -> S] /\ Len(ids) \in Nat
  BY <1>1, <1>2
<1> HIDE DEF list
<1>5. list \in Seq(S)
  BY <1>4
<1> QED
  BY <1>3, <1>5 DEF S

SumFields == {"ok", "continueOnError", "nodes", "proxy", "failures", "successes"}

\* Two sums that count other failures and are the same otherwise.
Alike(a, b) ==
    /\ DOMAIN a = SumFields /\ DOMAIN b = SumFields
    /\ a.ok = TRUE /\ b.ok = TRUE /\ a.continueOnError = TRUE /\ b.continueOnError = TRUE
    /\ a.nodes = b.nodes /\ a.proxy = b.proxy /\ a.successes = b.successes

\* A profile without an answer is counted, one with an answer is added.
LEMMA ProfileFails ==
    ASSUME NEW a, NEW b, Alike(a, b), NEW x, ~x.answer.ok
    PROVE  /\ Alike(AddProfile(a, x), b)
           /\ AddProfile(a, x).nodes = a.nodes /\ AddProfile(a, x).successes = a.successes
<1>1. AddProfile(a, x) = [a EXCEPT !.failures = @ + 1]
  BY DEF AddProfile, Alike
<1> QED
  BY <1>1 DEF Alike, SumFields

LEMMA ProfileCounts ==
    ASSUME NEW a, NEW b, Alike(a, b), NEW x, x.answer.ok
    PROVE  /\ Alike(AddProfile(a, x), AddProfile(b, x))
           /\ AddProfile(a, x).nodes = AddNodes(a.nodes, ProfileNodes(x.profile, x.answer))
           /\ AddProfile(a, x).successes = a.successes + 1
<1> DEFINE nodes == ProfileNodes(x.profile, x.answer)
           added(sum) == AddNodes(sum.nodes, nodes)
           new(sum) == [sum EXCEPT
                          !.successes = @ + 1, !.nodes = added(sum),
                          !.failures = @ + Len(sum.nodes) + Len(nodes) - Len(added(sum)),
                          !.proxy = MergeAgent(@, ProfileProxy(x.profile, x.answer.proxy))]
<1>1. AddProfile(a, x) = new(a)
  BY DEF AddProfile, Alike
<1>2. AddProfile(b, x) = new(b)
  BY DEF AddProfile, Alike
<1>3. added(a) = added(b)
  BY DEF Alike
<1> HIDE DEF added, nodes
<1>4. /\ DOMAIN new(a) = SumFields /\ new(a).ok = TRUE /\ new(a).continueOnError = TRUE
      /\ new(a).successes = a.successes + 1 /\ new(a).nodes = added(a)
      /\ new(a).proxy = MergeAgent(a.proxy, ProfileProxy(x.profile, x.answer.proxy))
  BY DEF Alike, SumFields
<1>5. /\ DOMAIN new(b) = SumFields /\ new(b).ok = TRUE /\ new(b).continueOnError = TRUE
      /\ new(b).successes = b.successes + 1 /\ new(b).nodes = added(b)
      /\ new(b).proxy = MergeAgent(b.proxy, ProfileProxy(x.profile, x.answer.proxy))
  BY DEF Alike, SumFields
<1> HIDE DEF new
<1>6. Alike(new(a), new(b))
  BY <1>3, <1>4, <1>5 DEF Alike
<1> QED
  BY <1>1, <1>2, <1>4, <1>6 DEF added, nodes

\* The sum of all the profiles is that of the ones with an answer, but for the
\* failures it counts.
LEMMA SilentProfiles ==
    ASSUME NEW I, \A x \in I : x.answer.ok => x.answer.nodes \in Seq(Nat),
           NEW inputs \in Seq(I)
    PROVE  LET answering == Among(inputs, {x \in I : x.answer.ok})
               a == ProfileSum(inputs, TRUE)
           IN  /\ Alike(a, ProfileSum(answering, TRUE))
               /\ a.nodes \in Seq(UNION {NodesOf(x.profile) : x \in I})
               /\ a.successes \in Nat
               /\ answering # <<>> => a.successes # 0
<1> DEFINE T == UNION {NodesOf(x.profile) : x \in I}
           OK == {x \in I : x.answer.ok}
           A(s) == ProfileSum(s, TRUE)
           B(s) == ProfileSum(Among(s, OK), TRUE)
           Right(s) == /\ Alike(A(s), B(s))
                       /\ A(s).nodes \in Seq(T)
                       /\ A(s).successes \in Nat
                       /\ Among(s, OK) # <<>> => A(s).successes # 0
           P == {s \in Seq(I) : Right(s)}
<1>1. <<>> \in P
  <2>1. Among(<<>>, OK) = <<>> /\ <<>> \in Seq(T)
    BY AmongEmpty
  <2> DEFINE none == NoProfiles(TRUE)
  <2>2. A(<<>>) = none /\ B(<<>>) = none
    BY <2>1, SumEmpty
  <2>3. Alike(none, none) /\ none.nodes = <<>> /\ none.successes = 0
    BY DEF NoProfiles, Alike, SumFields
  <2> HIDE DEF T, OK, A, B, none
  <2>4. Right(<<>>)
    <3>1. Alike(A(<<>>), B(<<>>))
      BY <2>2, <2>3
    <3>2. A(<<>>).nodes = <<>> /\ A(<<>>).successes = 0
      BY <2>2, <2>3
    <3>3. A(<<>>).nodes \in Seq(T)
      BY <2>1, <3>2, Zenon
    <3>4. A(<<>>).successes \in Nat
      BY <3>2
    <3> QED
      BY <2>1, <3>1, <3>3, <3>4
  <2> QED
    BY <2>4
<1>2. ASSUME NEW s \in Seq(I), NEW x \in I, s \in P PROVE Append(s, x) \in P
  <2> DEFINE t == Append(s, x)
  <2>1. t \in Seq(I)
    OBVIOUS
  <2>2. A(t) = AddProfile(A(s), x)
    BY SumAppend
  <2>3. Among(t, OK) = IF x \in OK THEN Append(Among(s, OK), x) ELSE Among(s, OK)
    BY AmongAppend
  <2>4. Among(s, OK) \in Seq(I)
    BY AmongElements
  <2>5. Right(s)
    BY <1>2
  <2>6. CASE ~x.answer.ok
    <3>1. B(t) = B(s) /\ Among(t, OK) = Among(s, OK)
      BY <2>3, <2>6
    <3> HIDE DEF A, B, T, t
    <3>2. Alike(A(t), B(t)) /\ A(t).nodes = A(s).nodes /\ A(t).successes = A(s).successes
      BY <2>2, <2>5, <2>6, <3>1, ProfileFails
    <3>3. Right(t)
      BY <2>5, <3>1, <3>2
    <3> QED
      BY <2>1, <3>3 DEF t
  <2>7. CASE x.answer.ok
    <3>1. B(t) = AddProfile(B(s), x)
      <4> DEFINE u == Among(s, OK)
      <4>1. Among(t, OK) = Append(u, x)
        BY <2>3, <2>7
      <4> HIDE DEF u
      <4>2. ProfileSum(Append(u, x), TRUE) = AddProfile(ProfileSum(u, TRUE), x)
        BY <2>4, SumAppend DEF u
      <4> QED
        BY <4>1, <4>2 DEF u
    <3>2. ProfileNodes(x.profile, x.answer) \in Seq(T)
      <4> DEFINE S == NodesOf(x.profile)
      <4>1. ProfileNodes(x.profile, x.answer) \in Seq(S)
        BY <2>7, ProfileNodesList
      <4>2. S \subseteq T
        OBVIOUS
      <4> HIDE DEF S, T
      <4> QED
        BY <4>1, <4>2
    <3> HIDE DEF A, B, T, t
    <3>3. /\ Alike(A(t), B(t)) /\ A(t).successes = A(s).successes + 1
          /\ A(t).nodes = AddNodes(A(s).nodes, ProfileNodes(x.profile, x.answer))
      BY <2>2, <2>5, <2>7, <3>1, ProfileCounts
    <3>4. A(t).nodes \in Seq(T)
      BY <2>5, <3>2, <3>3, AddNodesList
    <3>5. A(t).successes \in Nat /\ A(t).successes # 0
      BY <2>5, <3>3
    <3>6. Right(t)
      BY <3>3, <3>4, <3>5
    <3> QED
      BY <2>1, <3>6 DEF t
  <2> QED
    BY <2>6, <2>7
<1> HIDE DEF P
<1>3. Seq(I) \subseteq P
  BY <1>1, <1>2, SeqInduction
<1>4. Right(inputs)
  BY <1>3 DEF P
<1> QED
  BY <1>4

Profiles(config) == [i \in DOMAIN config.profiles |-> ResolvedProfile(config, config.profiles[i])]

Inputs(profiles, answers) ==
    [i \in DOMAIN profiles |-> [profile |-> profiles[i], answer |-> answers[i]]]

\* What a complete file with profiles comes to, when the profiles have a sum.
LEMMA MachinePlan ==
    ASSUME NEW config, NEW answers,
           \A i \in DOMAIN Profiles(config) : ProfileComplete(Profiles(config)[i]),
           \A i \in DOMAIN FileNodes(config) : NodeComplete(FileNodes(config)[i]),
           Profiles(config) # <<>>,
           config.continueOnError \in {"unset", "yes"},
           config.continueOnError = "unset" => MachineMode(config) = TRUE,
           ProfileSum(Inputs(Profiles(config), answers), TRUE).ok = TRUE,
           ProfileSum(Inputs(Profiles(config), answers), TRUE).successes # 0
    PROVE  LET sum == ProfileSum(Inputs(Profiles(config), answers), TRUE)
               result == ResolveMachine(config, answers)
           IN  /\ result.ok
               /\ result.nodes = FileNodes(config) \o sum.nodes
               /\ result.proxy = MergeIntoFile(config.proxy, sum.proxy)
<1> DEFINE resolved == ResolveRuntime(config)
           sum == ProfileSum(Inputs(Profiles(config), answers), TRUE)
           inputs == Inputs(Profiles(config), answers)
           go == IF config.continueOnError = "unset" THEN MachineMode(config)
                 ELSE config.continueOnError = "yes"
<1>0. go = TRUE
  OBVIOUS
<1>1. resolved = [ok |-> TRUE, nodes |-> FileNodes(config), profiles |-> Profiles(config),
                  proxy |-> config.proxy, continueOnError |-> go]
  BY DEF ResolveRuntime, Profiles
<1> HIDE DEF go, resolved, sum
<1>2. /\ resolved.ok = TRUE /\ resolved.nodes = FileNodes(config) /\ resolved.proxy = config.proxy
      /\ resolved.profiles = Profiles(config) /\ resolved.continueOnError = TRUE
      /\ DOMAIN resolved = {"ok", "nodes", "profiles", "proxy", "continueOnError"}
  BY <1>0, <1>1
<1>3. ResolveProfiles(inputs, TRUE) = sum
  BY DEF ResolveProfiles, sum
<1>4. ResolveMachine(config, answers) =
        [resolved EXCEPT !.nodes = @ \o sum.nodes, !.proxy = MergeIntoFile(@, sum.proxy)]
  <2>1. [i \in DOMAIN resolved.profiles |-> [profile |-> resolved.profiles[i], answer |-> answers[i]]]
        = inputs
    BY <1>2 DEF Inputs
  <2>2. sum.ok = TRUE
    BY DEF sum
  <2> HIDE DEF inputs
  <2> QED
    BY <1>2, <1>3, <2>1, <2>2 DEF ResolveMachine, resolved
<1>5. LET result == ResolveMachine(config, answers)
      IN  /\ result.ok
          /\ result.nodes = FileNodes(config) \o sum.nodes
          /\ result.proxy = MergeIntoFile(config.proxy, sum.proxy)
  BY <1>2, <1>4
<1> QED
  BY <1>5 DEF sum

\* The resolved profiles and nodes of a file of which some profiles are taken.
LEMMA FewerProfiles ==
    ASSUME NEW config, DOMAIN config = ConfigFields, NEW T, config.profiles \in Seq(T),
           NEW order \in Seq(DOMAIN config.profiles), order # <<>>
    PROVE  LET rest == [config EXCEPT !.profiles = At(@, order)]
           IN  /\ Profiles(rest) = At(Profiles(config), order)
               /\ FileNodes(rest) = FileNodes(config)
               /\ rest.proxy = config.proxy
               /\ rest.continueOnError = config.continueOnError
               /\ MachineMode(rest) = TRUE /\ MachineMode(config) = TRUE
<1> DEFINE rest == [config EXCEPT !.profiles = At(@, order)]
<1>1. /\ rest.panel = config.panel /\ rest.nodes = config.nodes /\ rest.proxy = config.proxy
      /\ rest.machineEnabled = config.machineEnabled /\ rest.dir = config.dir
      /\ rest.continueOnError = config.continueOnError
      /\ rest.profiles = At(config.profiles, order)
  BY DEF ConfigFields
<1> HIDE DEF rest
<1>2. 1 \in DOMAIN order /\ \A i \in DOMAIN order : order[i] \in DOMAIN config.profiles
  OBVIOUS
<1>3. DOMAIN rest.profiles = DOMAIN order
  BY <1>1 DEF At
<1>4. rest.profiles # <<>> /\ config.profiles # <<>>
  <2>1. 1 \in DOMAIN rest.profiles /\ order[1] \in DOMAIN config.profiles
    BY <1>2, <1>3
  <2>2. DOMAIN <<>> = {}
    OBVIOUS
  <2> QED
    BY <2>1, <2>2, Zenon
<1>5. \A row : ResolvedProfile(rest, row) = ResolvedProfile(config, row)
  BY <1>1 DEF ResolvedProfile
<1>6. Profiles(rest) = At(Profiles(config), order)
  <2>1. \A i \in DOMAIN order : rest.profiles[i] = config.profiles[order[i]]
    BY <1>1 DEF At
  <2>2. DOMAIN Profiles(rest) = DOMAIN order /\ DOMAIN At(Profiles(config), order) = DOMAIN order
    BY <1>3 DEF Profiles, At
  <2>3. \A i \in DOMAIN order :
          Profiles(rest)[i] = ResolvedProfile(config, config.profiles[order[i]])
    BY <1>3, <1>5, <2>1 DEF Profiles
  <2>4. \A i \in DOMAIN order :
          At(Profiles(config), order)[i] = ResolvedProfile(config, config.profiles[order[i]])
    BY <1>2 DEF Profiles, At
  <2>5. /\ Profiles(rest) = [i \in DOMAIN order |-> Profiles(rest)[i]]
        /\ At(Profiles(config), order) = [i \in DOMAIN order |-> At(Profiles(config), order)[i]]
    BY <1>3 DEF Profiles, At
  <2> QED
    BY <2>3, <2>4, <2>5
<1>7. FileNodes(rest) = FileNodes(config)
  <2>1. \A row : ResolvedNode(rest, row) = ResolvedNode(config, row)
    BY <1>1 DEF ResolvedNode
  <2>2. CASE config.nodes # <<>>
    <3>1. FileNodes(rest) = [i \in DOMAIN config.nodes |-> ResolvedNode(rest, config.nodes[i])]
      BY <1>1, <2>2 DEF FileNodes
    <3>2. FileNodes(config) = [i \in DOMAIN config.nodes |-> ResolvedNode(config, config.nodes[i])]
      BY <2>2 DEF FileNodes
    <3> QED
      BY <2>1, <3>1, <3>2
  <2>3. CASE config.nodes = <<>>
    BY <1>1, <1>4, <2>3 DEF FileNodes
  <2> QED
    BY <2>2, <2>3
<1>8. MachineMode(rest) = TRUE /\ MachineMode(config) = TRUE
  BY <1>4 DEF MachineMode
<1> QED
  BY <1>1, <1>6, <1>7, <1>8 DEF rest

\* A machine whose silent profiles take nothing from the others.
LEMMA Isolated ==
    ASSUME NEW config, DOMAIN config = ConfigFields,
           NEW T, config.profiles \in Seq(T), NEW U, config.nodes \in Seq(U),
           NEW A, NEW answers \in Seq(A), DOMAIN answers = DOMAIN config.profiles,
           \A i \in DOMAIN answers : answers[i].ok => answers[i].nodes \in Seq(Nat),
           NEW broken
    PROVE  FailureIsolated(config, answers, broken)
<1> DEFINE D == DOMAIN answers
           order == Answered(answers)
           rest == [config EXCEPT !.profiles = At(@, order)]
           said == At(answers, order)
           profiles == Profiles(config)
           inputs == Inputs(profiles, answers)
           I == {inputs[i] : i \in D}
           OK == {x \in I : x.answer.ok}
           all == ResolveMachine(config, answers)
           less == ResolveMachine(rest, said)
           a == ProfileSum(inputs, TRUE)
           b == ProfileSum(Among(inputs, OK), TRUE)
<1> SUFFICES ASSUME ResolveRuntime(config).ok, ResolveRuntime(config).continueOnError, order # <<>>
             PROVE  /\ all.ok /\ less.ok /\ all.nodes = less.nodes /\ all.proxy = less.proxy
                    /\ OwnConfig(all.nodes)
  BY DEF FailureIsolated
<1>1. order \in Seq(D) /\ ToSet(order) = {i \in D : answers[i].ok}
  BY PositionsAre DEF Answered
<1>2. /\ DOMAIN profiles = D /\ DOMAIN inputs = D
      /\ \A i \in D : inputs[i] = [profile |-> profiles[i], answer |-> answers[i]]
  BY DEF Profiles, Inputs
<1>3. /\ \A i \in DOMAIN profiles : ProfileComplete(profiles[i])
      /\ \A i \in DOMAIN FileNodes(config) : NodeComplete(FileNodes(config)[i])
  BY DEF ResolveRuntime, Profiles, Failed
<1>4. config.continueOnError \in {"unset", "yes"}
  BY <1>3 DEF ResolveRuntime, Profiles
<1>5. /\ Profiles(rest) = At(profiles, order) /\ FileNodes(rest) = FileNodes(config)
      /\ rest.proxy = config.proxy /\ rest.continueOnError = config.continueOnError
      /\ MachineMode(rest) = TRUE /\ MachineMode(config) = TRUE
  <2> HIDE DEF order
  <2> QED
    BY <1>1, FewerProfiles
<1> HIDE DEF profiles, order
<1>6. inputs \in Seq(I)
  <2>1. D = 1..Len(answers) /\ Len(answers) \in Nat
    OBVIOUS
  <2>2. inputs = [i \in D |-> inputs[i]]
    BY <1>2 DEF Inputs
  <2> HIDE DEF inputs, D
  <2>3. inputs \in [1..Len(answers) -> I]
    BY <2>1, <2>2
  <2> HIDE DEF I
  <2> QED
    BY <2>1, <2>3
<1>7. Inputs(Profiles(rest), said) = At(inputs, order)
  <2>1. \A i \in DOMAIN order : order[i] \in D
    BY <1>1
  <2>2. Inputs(Profiles(rest), said) =
          [i \in DOMAIN order |-> [profile |-> profiles[order[i]], answer |-> answers[order[i]]]]
    BY <1>5 DEF Inputs, At
  <2>3. At(inputs, order) = [i \in DOMAIN order |-> inputs[order[i]]]
    BY DEF At
  <2> HIDE DEF D, inputs
  <2> QED
    BY <1>2, <2>1, <2>2, <2>3
<1>8. At(inputs, order) = Among(inputs, OK)
  <2>1. \A i \in D : inputs[i] \in I /\ inputs[i].answer = answers[i]
    <3> HIDE DEF inputs, D
    <3> QED
      BY <1>2
  <2>2. {i \in DOMAIN inputs : inputs[i] \in OK} = {i \in D : answers[i].ok}
    BY <1>2, <2>1
  <2>3. Positions(inputs, {i \in D : answers[i].ok}) = order
    BY <1>2 DEF order, Answered, Positions
  <2> HIDE DEF inputs, I, OK
  <2>4. Among(inputs, OK) = At(inputs, Positions(inputs, {i \in DOMAIN inputs : inputs[i] \in OK}))
    BY <1>6, AmongPositions
  <2> QED
    BY <2>2, <2>3, <2>4
<1>9. At(inputs, order) # <<>>
  <2>1. DOMAIN At(inputs, order) = DOMAIN order /\ 1 \in DOMAIN order
    BY <1>1 DEF At
  <2>2. DOMAIN <<>> = {}
    OBVIOUS
  <2> QED
    BY <2>1, <2>2, Zenon
<1>10. /\ Alike(a, b) /\ a.successes # 0
       /\ a.nodes \in Seq(UNION {NodesOf(x.profile) : x \in I})
  <2>1. \A x \in I : x.answer.ok => x.answer.nodes \in Seq(Nat)
    <3> SUFFICES ASSUME NEW i \in D, inputs[i].answer.ok
                 PROVE  inputs[i].answer.nodes \in Seq(Nat)
      OBVIOUS
    <3>1. inputs[i].answer = answers[i]
      <4> HIDE DEF inputs, D
      <4> QED
        BY <1>2
    <3> HIDE DEF inputs
    <3> QED
      BY <3>1
  <2> HIDE DEF inputs, I
  <2> QED
    BY <1>6, <1>8, <1>9, <2>1, SilentProfiles
<1> HIDE DEF inputs, I, OK
<1>11. /\ all.ok /\ all.nodes = FileNodes(config) \o a.nodes
       /\ all.proxy = MergeIntoFile(config.proxy, a.proxy)
  <2>1. profiles # <<>>
    <3>1. DOMAIN profiles # {} /\ DOMAIN <<>> = {}
      BY <1>1, <1>2
    <3> QED
      BY <3>1, Zenon
  <2>2. a.ok = TRUE /\ a.successes # 0
    BY <1>10 DEF Alike
  <2> QED
    BY <1>3, <1>4, <1>5, <2>1, <2>2, MachinePlan DEF profiles, inputs
<1>12. /\ less.ok /\ less.nodes = FileNodes(config) \o b.nodes
       /\ less.proxy = MergeIntoFile(config.proxy, b.proxy)
  <2> DEFINE c == ProfileSum(Inputs(Profiles(rest), said), TRUE)
  <2>1. c = b
    BY <1>7, <1>8
  <2>2. Profiles(rest) # <<>>
    <3>1. DOMAIN Profiles(rest) = DOMAIN order /\ 1 \in DOMAIN order /\ DOMAIN <<>> = {}
      BY <1>1, <1>5 DEF At
    <3> QED
      BY <3>1, Zenon
  <2>3. c.ok = TRUE /\ c.successes # 0
    BY <1>10, <2>1 DEF Alike
  <2>4. \A i \in DOMAIN Profiles(rest) : ProfileComplete(Profiles(rest)[i])
    <3>1. DOMAIN Profiles(rest) = DOMAIN order
      BY <1>5 DEF At
    <3>2. \A i \in DOMAIN order : Profiles(rest)[i] = profiles[order[i]] /\ order[i] \in D
      BY <1>1, <1>5 DEF At
    <3> QED
      BY <1>2, <1>3, <3>1, <3>2
  <2> HIDE DEF rest, said, b
  <2>5. /\ less.ok /\ less.nodes = FileNodes(rest) \o c.nodes
        /\ less.proxy = MergeIntoFile(rest.proxy, c.proxy)
    BY <1>3, <1>4, <1>5, <2>2, <2>3, <2>4, MachinePlan
  <2> QED
    BY <1>5, <2>1, <2>5
<1> HIDE DEF all, less, a, b
<1>13. all.nodes = less.nodes /\ all.proxy = less.proxy
  BY <1>10, <1>11, <1>12 DEF Alike
<1>14. OwnConfig(all.nodes)
  <2> DEFINE N == UNION {NodesOf(x.profile) : x \in I}
             F == {ResolvedNode(config, config.nodes[i]) : i \in DOMAIN config.nodes}
  <2>1. a.nodes \in Seq(N)
    BY <1>10
  <2>2. FileNodes(config) \in Seq(F)
    <3>1. Len(config.nodes) \in Nat /\ DOMAIN config.nodes = 1..Len(config.nodes)
      OBVIOUS
    <3>2. CASE config.nodes # <<>>
      <4>1. FileNodes(config) = [i \in DOMAIN config.nodes |-> ResolvedNode(config, config.nodes[i])]
        BY <3>2 DEF FileNodes
      <4>2. \A i \in DOMAIN config.nodes : ResolvedNode(config, config.nodes[i]) \in F
        OBVIOUS
      <4> HIDE DEF F
      <4>3. FileNodes(config) \in [1..Len(config.nodes) -> F]
        BY <3>1, <4>1, <4>2
      <4> QED
        BY <3>1, <4>3
    <3>3. CASE config.nodes = <<>>
      <4>1. config.profiles # <<>>
        <5>1. DOMAIN config.profiles # {} /\ DOMAIN <<>> = {}
          BY <1>1
        <5> QED
          BY <5>1, Zenon
      <4>2. FileNodes(config) = <<>>
        BY <3>3, <4>1 DEF FileNodes
      <4> HIDE DEF F
      <4> QED
        BY <4>2
    <3> QED
      BY <3>2, <3>3
  <2> HIDE DEF N, F
  <2>3. all.nodes \in Seq(N \cup F)
    <3>1. a.nodes \in Seq(N \cup F) /\ FileNodes(config) \in Seq(N \cup F)
      BY <2>1, <2>2
    <3> QED
      BY <1>11, <3>1
  <2> QED
    BY <2>3, OwnConfigs
<1> QED
  BY <1>11, <1>12, <1>13, <1>14

---------------------------------------------------------------------------
(* The planners of the core's configuration, whatever they are asked *)

\* What is asked is one of the inputs.
CoreAsked ==
  /\ topic = "inbound" => question \in NodeInputs
  /\ topic = "routes" => question \in RouteInputs
  /\ topic = "listeners" => question \in ListenerInputs
  /\ topic = "machine" => question \in MachineInputs
  /\ topic = "reconcile" => question \in ReconcileInputs

LEMMA CoreAlwaysAsked == CoreSpec => []CoreAsked
<1> DEFINE topics == {"inbound", "routes", "listeners", "machine", "reconcile"}
<1>1. NothingAsked => CoreAsked
  BY DEF NothingAsked, CoreAsked
<1>2. CoreAsked /\ [CoreAsk \/ topic' \notin topics]_planner => CoreAsked'
  BY DEF CoreAsked, CoreAsk, AskInbound, AskRoutes, AskListeners, AskMachine, AskReconcile,
         Ask, planner
<1> QED
  BY <1>1, <1>2, PTL DEF CoreSpec

\* Of any node of a panel and any canary switches: no path through
\* build_inbound_config, the checks and the renderer loses the encryption that
\* the panel asked for; an inbound without TLS is one the panel wants so, or one
\* whose TLS is taken off before the core (cert_mode_disables_tls).
THEOREM EncryptionKept == CoreSpec => []EncryptedStaysEncrypted
<1>1. EncryptedStaysEncrypted
  BY EveryNodeKept DEF EncryptedStaysEncrypted
<1> QED
  BY <1>1, PTL

\* Of any node of a panel, wherever it listens, with any routes, beside any other
\* and under any switches: what the preflight passes starts, but for the users and
\* fields it cannot see yet, refused routes and listeners of nodes that waited, and
\* what starts is never held back (main.rs:309).
THEOREM PreflightTruthful == CoreSpec => []PreflightKeepsWord
<1>1. CoreAsked => PreflightKeepsWord
  <2> SUFFICES ASSUME CoreAsked, topic = "inbound", NEW allow, NEW place,
                      NEW companion \in Companions
               PROVE  PreflightHonest(<<[tag |-> "asked", node |-> question, listen |-> place.listen,
                                         routes |-> place.routes], companion>>, allow)
    BY DEF PreflightKeepsWord
  <2> DEFINE asked == [tag |-> "asked", node |-> question, listen |-> place.listen,
                       routes |-> place.routes]
             pairOf == <<asked, companion>>
  <2>1. question \in PanelNodes /\ companion.node \in PanelNodes
    BY CoreInputsAssumption DEF CoreAsked
  <2>2. asked.node = question
    OBVIOUS
  <2> HIDE DEF asked
  <2>3. DOMAIN pairOf = 1..2 /\ pairOf[1] = asked /\ pairOf[2] = companion
    OBVIOUS
  <2> HIDE DEF pairOf
  <2>4. \A i \in DOMAIN pairOf : pairOf[i].node \in PanelNodes
    BY <2>1, <2>2, <2>3
  <2>5. PreflightHonest(pairOf, allow)
    BY <2>4, EveryPreflight
  <2> QED
    BY <2>5 DEF pairOf, asked
<1> QED
  BY <1>1, CoreAlwaysAsked, PTL

\* With the ordinary nodes among the panel's: every row of the capability table
\* that the renderer would accept is the row of a node that is rendered, so that
\* the field checks never forbid what the table promises; and no two rows have one
\* key, so that the lookup does not depend on their order
\* (native_capability.rs, validate_keli_core_rs_inbound).
THEOREM TableAlive == OrdinaryNodesIn(NodeInputs) => (CoreSpec => []NoDeadRow)
<1> SUFFICES ASSUME OrdinaryNodesIn(NodeInputs)
             PROVE  CoreSpec => []NoDeadRow
  OBVIOUS
<1>1. NoDeadRow
  BY TableReached DEF NoDeadRow
<1> QED
  BY <1>1, PTL

\* Of any routes, in any order: a rendered rule that sends to an outbound finds
\* it once in the outbound list of the same file (core.rs:501 and core.rs:522).
THEOREM RoutesResolve == CoreSpec => []RouteOutboundExists
<1>1. CoreAsked => RouteOutboundExists
  BY EveryRouteResolves, CoreInputsAssumption DEF CoreAsked, RouteOutboundExists
<1> QED
  BY <1>1, CoreAlwaysAsked, PTL

\* Of any inbounds in any order, on a host that has every address they name: no
\* two of those that are left open one socket, wildcard addresses and both
\* networks included, unless one hides its UDP socket from the other, which has
\* no TCP socket (runtime.rs:225, 355).
THEOREM NoSocketOpenedTwice == CoreSpec => []NoSocketTwice
<1>1. CoreAsked => NoSocketTwice
  <2> SUFFICES ASSUME CoreAsked, topic = "listeners"
               PROVE  NoDoubleBind(question, Hosts)
    BY DEF NoSocketTwice
  <2>1. /\ question \in Seq(ToSet(question))
        /\ \A i \in DOMAIN question : question[i].listen \in Hosts \/ Wildcard(question[i].listen)
    BY CoreInputsAssumption DEF CoreAsked
  <2> QED
    BY <2>1, EverySocket
<1> QED
  BY <1>1, CoreAlwaysAsked, PTL

\* Of any file with profiles, any answers of its panels and any nodes they cannot
\* describe: with continue_on_error and one answer the machine has a plan, and
\* the plan is that of a file without the silent profiles, so that the nodes that
\* start and the proxy are the same; every node's config is its own panel's
\* (machine.rs:248, node.rs:54, runtime.rs:200).
THEOREM FailuresIsolated == CoreSpec => []ProfileFailureIsolated
<1>1. CoreAsked => ProfileFailureIsolated
  <2> SUFFICES ASSUME CoreAsked, topic = "machine"
               PROVE  FailureIsolated(question.config, question.answers, question.broken)
    BY DEF ProfileFailureIsolated
  <2>1. MachineInput(question.config, question.answers)
    BY CoreInputsAssumption DEF CoreAsked
  <2> QED
    BY <2>1, Isolated DEF MachineInput
<1> QED
  BY <1>1, CoreAlwaysAsked, PTL

\* Of any running manager, any configs and any answers: a round that asks for no
\* full reload leaves every node with routes of its own as it is, a wanted node
\* whose panel is silent keeps running, and the same answers again change nothing
\* (node.rs:91).
THEOREM RoundsSettle == CoreSpec => []ReconcileSettles
<1>1. CoreAsked => ReconcileSettles
  <2> SUFFICES ASSUME CoreAsked, topic = "reconcile"
               PROVE  ReconcileSafe(question.manager, question.desired, question.go, question.load)
    BY DEF ReconcileSettles
  <2>1. DOMAIN question.manager = ManagerFields /\ question.desired \in Seq(ToSet(question.desired))
    BY CoreInputsAssumption DEF CoreAsked
  <2> QED
    BY <2>1, EveryRound
<1> QED
  BY <1>1, CoreAlwaysAsked, PTL

===========================================================================
