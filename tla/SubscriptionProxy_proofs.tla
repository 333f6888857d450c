------------------------ MODULE SubscriptionProxy_proofs ------------------------
(***************************************************************************)
(* Proofs about the subscription proxy.  Of SubscriptionProxy, for any     *)
(* settings, orders and faults: types, that the status tells the truth     *)
(* about the main server, and that TLS is not given up.  Of the operators  *)
(* that answer a request, for every input: the exchange is exact           *)
(* (HttpExchange), a request reaches its owner, and a redirect comes back  *)
(* (SubscriptionRoutes).                                                   *)
(***************************************************************************)
EXTENDS SubscriptionProxy, ProxyPlanning, TLAPS, FiniteSetTheorems,
        WellFoundedInduction, SequenceTheorems

Manager == [status : Status, main : Server, http : BOOLEAN]
Disk == [key : File, cert : File, challenge : 0..MaxOrders]

\* A manager is not the missing one.
LEMMA NoManagerIsNone == NoManager \notin Manager
  <1>1. ASSUME NoManager \in Manager PROVE FALSE
    <2>1. "main" \in DOMAIN NoManager  BY <1>1 DEF Manager
    <2>2. DOMAIN NoManager = {"none"}  BY DEF NoManager
    <2> QED  BY <2>1, <2>2
  <1> QED  BY <1>1

\* One file replaced, and the files that are lost after it.
LEMMA DiskChange ==
  ASSUME disk \in Disk, NEW f \in {"key", "cert"}, NEW c \in File,
         disk' = [disk EXCEPT ![f] = c]
  PROVE  /\ disk' \in Disk /\ disk'[f] = c
         /\ \A g \in {"key", "cert"} : g # f => disk'[g] = disk[g]
  <1>1. CASE f = "key"  BY <1>1 DEF Disk
  <1>2. CASE f = "cert"  BY <1>2 DEF Disk
  <1> QED  BY <1>1, <1>2

\* No step of a start takes a file away: what is lost afterwards was lost before,
\* and what was lost is lost or there again.
LEMMA LostAfter ==
  ASSUME TypeOK, FilesStay, disk' \in Disk, wasHttps' = wasHttps,
         lost' = {f \in lost : disk'[f] = 0},
         \A f \in {"key", "cert"} : disk[f] # 0 => disk'[f] # 0
  PROVE  lost' \subseteq {"key", "cert"} /\ FilesStay'
  BY DEF TypeOK, FilesStay

---------------------------------------------------------------------------
(* The servers at the end of a start                                       *)

\* What the status says and which server there is, for whatever was bound.
LEMMA StartedFacts ==
  ASSUME TypeOK, NEW taken
  PROVE  LET next == Started(taken)
         IN  /\ next \in Manager
             /\ next.status.state = "running" <=> next.main.mode # "none"
             /\ next.main.mode # "none" => next.main.mode = next.status.mode
             /\ next.main.mode = "https" =>
                  next.main.cert = next.main.key /\ disk.cert # 0 /\ disk.key # 0
             /\ next.main.mode = "http" =>
                  \E f \in {"key", "cert"} : disk[f] = 0 /\ next.main[f] = 0
  <1> DEFINE status == PlannedStatus
             next == Started(taken)
             ok == Bound(taken)
  <1>1. status \in Status /\ status.mode = ServeMode
        /\ (status.state = "running" <=> status.mode # "error")
    <2>1. ServeMode \in {"https", "http", "error"}
      BY DEF ServeMode
    <2>2. draft.need \in BOOLEAN /\ draft.csr \in File /\ draft.ready \in BOOLEAN
      BY DEF TypeOK, Draft
    <2> QED  BY <2>1, <2>2 DEF PlannedStatus, Status
  <1>2. status.mode \in {"https", "http", "error"}
    BY <1>1 DEF ServeMode
  <1>3. next.http \in BOOLEAN
    <2>1. (applied.settings.http /\ taken # "http") \in BOOLEAN  BY Zenon
    <2>2. next.http = (applied.settings.http /\ taken # "http")  BY DEF Started, Servers
    <2> QED  BY <2>1, <2>2, Zenon
  <1>4. CASE ok /\ status.mode # "error"
    <2>1. next.status = status
          /\ next.main = [mode |-> status.mode, cert |-> disk.cert, key |-> disk.key,
                          alive |-> TRUE]
      BY <1>1, <1>4 DEF Started, Servers
    <2>2. status.mode = "https" => disk.cert = disk.key /\ disk.cert # 0 /\ disk.key # 0
      BY <1>1, <1>4 DEF Bound, ServeMode
    <2>3. status.mode = "http" => disk.cert = 0 \/ disk.key = 0
      BY <1>1 DEF ServeMode
    <2>4. next.main \in Server
      BY <1>2, <1>4, <2>1 DEF Server, TypeOK
    <2>5. next \in Manager
      BY <1>1, <1>3, <2>1, <2>4 DEF Manager, Started
    <2>6. next.main.mode = "http" =>
            \E f \in {"key", "cert"} : disk[f] = 0 /\ next.main[f] = 0
      <3>1. CASE disk.cert = 0  BY <2>1, <3>1
      <3>2. CASE disk.key = 0  BY <2>1, <3>2
      <3> QED  BY <2>1, <2>3, <3>1, <3>2
    <2> QED  BY <1>1, <1>2, <1>4, <2>1, <2>2, <2>5, <2>6
  <1>5. CASE ~(ok /\ status.mode # "error")
    <2>1. next.main = NoServer /\ NoServer \in Server /\ NoServer.mode = "none"
      BY <1>1, <1>5 DEF Started, Servers, NoServer, Server, File
    <2>2. next.status \in Status /\ next.status.state # "running"
      BY <1>1, <1>5 DEF Started, Status
    <2>3. next \in Manager
      BY <1>3, <2>1, <2>2 DEF Manager, Started
    <2> QED  BY <2>1, <2>2, <2>3
  <1> QED  BY <1>4, <1>5

\* A manager whose settings are not valid has neither status nor server.
LEMMA InvalidManager ==
  LET none == [status |-> NoStatus, main |-> NoServer, http |-> FALSE]
  IN  none \in Manager /\ NoStatus \in Status /\ NoDraft \in Draft
  BY DEF Manager, NoStatus, NoDraft, Draft, NoServer, Status, Server, File

---------------------------------------------------------------------------
(* The invariant                                                           *)

ProxyInv == TypeOK /\ StatusIsServer /\ NoDowngrade /\ FilesStay /\ StartOver

LEMMA InitProxy == Init => ProxyInv
  <1> SUFFICES ASSUME Init PROVE ProxyInv  OBVIOUS
  <1>1. NoStatus \in Status /\ NoDraft \in Draft  BY InvalidManager
  <1>2. 0 \in 0..MaxOrders /\ 0 \in 0..MaxFaults /\ 0 \in 0..MaxChanges
    BY ConstantsAssumption
  <1>3. TypeOK
    BY <1>1, <1>2 DEF Init, TypeOK, File, Zerossl
  <1> QED
    BY <1>3 DEF Init, ProxyInv, StatusIsServer, NoDowngrade, FilesStay, StartOver, Running

LEMMA FaultTypes ==
  ASSUME TypeOK, NEW k, Fault(k) PROVE faults' \in 0..MaxFaults
  BY ConstantsAssumption DEF TypeOK, Fault

\* A step of a start before its last, which changes files and no manager.
LEMMA FileStep ==
  ASSUME ProxyInv, step # "none", disk' \in Disk, keys' \in Nat, draft' \in Draft,
         step' \in {"none", "challenge", "cert", "key", "request", "servers"},
         faults' \in 0..MaxFaults, harmed' \in BOOLEAN,
         UNCHANGED <<panel, applied, manager, wasHttps>>,
         lost' = {f \in lost : disk'[f] = 0},
         \A f \in {"key", "cert"} : disk[f] # 0 => disk'[f] # 0
  PROVE  ProxyInv'
  <1> USE DEF ProxyInv
  <1>1. ~Running /\ ~Running'
    BY DEF StartOver, Running
  <1>2. lost' \subseteq {"key", "cert"} /\ FilesStay'
    BY LostAfter
  <1>3. TypeOK'
    BY <1>2 DEF TypeOK, Disk, panel
  <1> QED  BY <1>1, <1>2, <1>3 DEF StatusIsServer, NoDowngrade, StartOver

LEMMA NextProxy ==
  ASSUME ProxyInv, [Next]_vars
  PROVE  ProxyInv'
  <1> USE DEF ProxyInv
  <1>d. disk \in Disk /\ draft \in Draft /\ applied.zerossl \in Zerossl
    BY DEF TypeOK, Disk
  <1>a. ASSUME UNCHANGED <<manager, wasHttps, disk, lost, step>>
        PROVE  StatusIsServer' /\ NoDowngrade' /\ FilesStay' /\ StartOver'
    BY <1>a DEF StatusIsServer, NoDowngrade, FilesStay, StartOver, Running
  <1>h. ASSUME NEW k, Harm(k) PROVE faults' \in 0..MaxFaults /\ harmed' \in BOOLEAN
    BY <1>h, FaultTypes DEF Harm
  <1>u. ASSUME UNCHANGED <<faults, harmed>> PROVE faults' \in 0..MaxFaults /\ harmed' \in BOOLEAN
    BY <1>u DEF TypeOK
  <1>1. ASSUME Start PROVE ProxyInv'
    <2>1. applied' \in [settings : Configs, zerossl : Zerossl]
      BY <1>1 DEF Start, TypeOK
    <2>2. CASE settings.valid
      <3>1. step' = "challenge" /\ UNCHANGED manager /\ ~Running
        BY <1>1, <2>2 DEF Start
      <3>2. TypeOK'
        BY <1>1, <2>1, <3>1 DEF Start, TypeOK, panel, observers
      <3> QED
        BY <1>1, <3>1, <3>2
        DEF Start, observers, StatusIsServer, NoDowngrade, FilesStay, StartOver, Running
    <2>3. CASE ~settings.valid
      <3>1. manager' = [status |-> NoStatus, main |-> NoServer, http |-> FALSE]
            /\ UNCHANGED step
        BY <1>1, <2>3 DEF Start
      <3>2. manager' \in Manager  BY <3>1, InvalidManager
      <3>3. TypeOK'
        BY <1>1, <2>1, <3>1, <3>2 DEF Start, TypeOK, Manager, panel, observers
      <3>4. manager'.main.mode = "none" /\ manager'.status.state = ""
        BY <3>1 DEF NoStatus, NoServer
      <3>5. step' = "none"
        BY <1>1, <3>1 DEF Start
      <3> QED
        BY <1>1, <3>3, <3>4, <3>5
        DEF Start, observers, StatusIsServer, NoDowngrade, FilesStay, StartOver
    <2> QED  BY <2>2, <2>3
  <1>2. ASSUME WriteChallenge PROVE ProxyInv'
    <2>1. PICK c \in 0..MaxOrders : disk' = [disk EXCEPT !.challenge = c]
      <3>1. applied.zerossl.challenge \in 0..MaxOrders /\ disk.challenge \in 0..MaxOrders
            /\ 0 \in 0..MaxOrders
        BY <1>d, ConstantsAssumption DEF Zerossl, Disk
      <3> QED  BY <1>2, <1>d, <3>1 DEF WriteChallenge, Disk
    <2>2. disk' \in Disk /\ disk'.key = disk.key /\ disk'.cert = disk.cert
      BY <1>d, <2>1 DEF Disk
    <2>3. draft' \in Draft
      <3>1. (applied.zerossl.challenge # 0) \in BOOLEAN  OBVIOUS
      <3> QED  BY <1>2, <1>d, <3>1 DEF WriteChallenge, Draft
    <2>4. faults' \in 0..MaxFaults /\ harmed' \in BOOLEAN
      BY <1>2, <1>h, <1>u DEF WriteChallenge
    <2>5. TypeOK'
      BY <1>2, <2>2, <2>3, <2>4 DEF WriteChallenge, TypeOK, Disk, panel
    <2>6. ~Running /\ ~Running'
      BY <1>2 DEF WriteChallenge, StartOver, Running
    <2>7. FilesStay'
      BY <1>2, <2>2 DEF WriteChallenge, FilesStay
    <2> QED  BY <2>5, <2>6, <2>7 DEF StatusIsServer, NoDowngrade, StartOver
  <1>3. ASSUME WriteCertificate PROVE ProxyInv'
    <2>1. PICK c \in File : disk' = [disk EXCEPT !.cert = c] /\ (disk.cert # 0 => c # 0)
      <3>1. applied.zerossl.cert \in File /\ disk.cert \in File
            /\ Broken \in File /\ Broken # 0
        BY <1>d DEF Zerossl, Disk, File, Broken
      <3> QED  BY <1>3, <1>d, <3>1 DEF WriteCertificate, Disk
    <2>2. disk' \in Disk /\ \A f \in {"key", "cert"} : disk[f] # 0 => disk'[f] # 0
      BY <1>d, <2>1 DEF Disk
    <2>3. faults' \in 0..MaxFaults /\ harmed' \in BOOLEAN
      BY <1>3, <1>h, <1>u DEF WriteCertificate
    <2>4. step # "none"
          /\ step' \in {"none", "challenge", "cert", "key", "request", "servers"}
      BY <1>3 DEF WriteCertificate
    <2>5. keys' \in Nat /\ draft' \in Draft
      BY <1>3 DEF WriteCertificate, TypeOK
    <2>6. UNCHANGED <<panel, applied, manager, wasHttps>> /\ lost' = {f \in lost : disk'[f] = 0}
      BY <1>3 DEF WriteCertificate
    <2> QED  BY <2>2, <2>3, <2>4, <2>5, <2>6, FileStep
  <1>4. ASSUME MakeKey PROVE ProxyInv'
    <2>1. disk' \in Disk /\ \A f \in {"key", "cert"} : disk[f] # 0 => disk'[f] # 0
      <3>1. CASE UNCHANGED disk  BY <1>d, <3>1
      <3>2. ASSUME MakesKey, NEW c \in File, disk' = [disk EXCEPT !.key = c]
            PROVE  disk' \in Disk /\ \A f \in {"key", "cert"} : disk[f] # 0 => disk'[f] # 0
        BY <1>d, <3>2 DEF Disk, MakesKey
      <3>3. 0 \in File /\ Broken \in File /\ keys + 1 \in File
        BY DEF File, Broken, TypeOK
      <3> QED  BY <1>4, <3>1, <3>2, <3>3 DEF MakeKey
    <2>2. faults' \in 0..MaxFaults /\ harmed' \in BOOLEAN
      BY <1>4, <1>h, <1>u DEF MakeKey
    <2>3. step # "none"
          /\ step' \in {"none", "challenge", "cert", "key", "request", "servers"}
      BY <1>4 DEF MakeKey
    <2>4. keys' \in Nat /\ draft' \in Draft
      BY <1>4 DEF MakeKey, TypeOK
    <2>5. UNCHANGED <<panel, applied, manager, wasHttps>> /\ lost' = {f \in lost : disk'[f] = 0}
      BY <1>4 DEF MakeKey
    <2> QED  BY <2>1, <2>2, <2>3, <2>4, <2>5, FileStep
  <1>5. ASSUME MakeRequest PROVE ProxyInv'
    <2>1. draft' \in Draft
      <3>1. disk.key \in File /\ (disk.cert = 0) \in BOOLEAN  BY <1>d DEF Disk
      <3> QED  BY <1>5, <1>d, <3>1 DEF MakeRequest, Draft
    <2>2. faults' \in 0..MaxFaults /\ harmed' \in BOOLEAN
      BY <1>5, <1>h, <1>u DEF MakeRequest
    <2>3. TypeOK'
      BY <1>5, <2>1, <2>2 DEF MakeRequest, TypeOK, panel
    <2>4. ~Running /\ ~Running'
      BY <1>5 DEF MakeRequest, StartOver, Running
    <2>5. FilesStay'
      BY <1>5 DEF MakeRequest, FilesStay
    <2> QED  BY <2>3, <2>4, <2>5 DEF StatusIsServer, NoDowngrade, StartOver
  <1>6. ASSUME StartServers PROVE ProxyInv'
    <2>1. PICK taken : manager' = Started(taken)
      BY <1>6 DEF StartServers
    <2> DEFINE next == Started(taken)
    <2>2. /\ next \in Manager
          /\ next.status.state = "running" <=> next.main.mode # "none"
          /\ next.main.mode # "none" => next.main.mode = next.status.mode
          /\ next.main.mode = "https" =>
               next.main.cert = next.main.key /\ disk.cert # 0 /\ disk.key # 0
          /\ next.main.mode = "http" =>
               \E f \in {"key", "cert"} : disk[f] = 0 /\ next.main[f] = 0
      BY StartedFacts
    <2>3. manager' = next  BY <2>1
    <2> HIDE DEF next
    <2>4. faults' \in 0..MaxFaults /\ harmed' \in BOOLEAN
      BY <1>6, <1>h, <1>u DEF StartServers
    <2>5. wasHttps' = (wasHttps \/ next.main.mode = "https")
      BY <1>6, <2>3 DEF StartServers
    <2>6. wasHttps' \in BOOLEAN
      BY <2>5, Zenon
    <2>7. TypeOK'
      BY <1>6, <2>2, <2>3, <2>4, <2>6, InvalidManager
      DEF StartServers, TypeOK, Manager, panel
    <2>8. FilesStay'
      BY <1>6, <2>2, <2>5 DEF StartServers, FilesStay
    <2>9. NoDowngrade'
      <3>1. SUFFICES ASSUME wasHttps', next.main.mode = "http"
                     PROVE  \E f \in lost' : next.main[f] = 0
        BY <2>3 DEF NoDowngrade
      <3>2. PICK f \in {"key", "cert"} : disk[f] = 0 /\ next.main[f] = 0
        BY <2>2, <3>1
      <3>3. wasHttps
        BY <2>5, <3>1
      <3>4. f \in lost /\ lost' = lost
        BY <1>6, <3>2, <3>3 DEF FilesStay, StartServers
      <3> QED  BY <3>2, <3>4
    <2>10. StatusIsServer'
      BY <2>2, <2>3 DEF StatusIsServer
    <2>11. StartOver'
      BY <1>6 DEF StartServers, StartOver
    <2> QED  BY <2>7, <2>8, <2>9, <2>10, <2>11
  <1>7. ASSUME End, faults' \in 0..MaxFaults PROVE ProxyInv'
    <2>1. TypeOK'
      BY <1>7 DEF End, TypeOK, panel, observers
    <2> QED
      BY <1>7, <2>1
      DEF End, observers, StatusIsServer, NoDowngrade, FilesStay, StartOver, Running
  <1>8. ASSUME Crash PROVE ProxyInv'
    <2>1. CASE \/ UNCHANGED disk
               \/ \E c \in File : c # 0 /\ disk' = [disk EXCEPT !.cert = c]
               \/ \E c \in File : c # 0 /\ disk' = [disk EXCEPT !.key = c]
               \/ disk' = [disk EXCEPT !.challenge = 0]
      <3>1. disk' \in Disk /\ \A f \in {"key", "cert"} : disk[f] # 0 => disk'[f] # 0
        <4>1. CASE UNCHANGED disk  BY <1>d, <4>1
        <4>2. ASSUME NEW c \in File, c # 0, disk' = [disk EXCEPT !.cert = c]
              PROVE  disk' \in Disk /\ \A f \in {"key", "cert"} : disk[f] # 0 => disk'[f] # 0
          BY <1>d, <4>2 DEF Disk
        <4>3. ASSUME NEW c \in File, c # 0, disk' = [disk EXCEPT !.key = c]
              PROVE  disk' \in Disk /\ \A f \in {"key", "cert"} : disk[f] # 0 => disk'[f] # 0
          BY <1>d, <4>3 DEF Disk
        <4>4. CASE disk' = [disk EXCEPT !.challenge = 0]
          BY <1>d, <4>4, ConstantsAssumption DEF Disk
        <4> QED  BY <2>1, <4>1, <4>2, <4>3, <4>4
      <3>2. faults' \in 0..MaxFaults
        BY <1>8, FaultTypes DEF Crash
      <3>3. step # "none" /\ keys' \in Nat /\ draft' \in Draft /\ harmed' \in BOOLEAN
            /\ step' \in {"none", "challenge", "cert", "key", "request", "servers"}
        BY <1>8, InvalidManager DEF Crash, TypeOK
      <3>4. UNCHANGED <<panel, applied, manager, wasHttps>> /\ lost' = {f \in lost : disk'[f] = 0}
        BY <1>8 DEF Crash
      <3> QED  BY <3>1, <3>2, <3>3, <3>4, FileStep
    <2>2. Broken \in File /\ Broken # 0  BY DEF File, Broken
    <2> QED  BY <1>8, <2>1, <2>2 DEF Crash
  <1>9. ASSUME Report PROVE ProxyInv'
    <2>1. manager.status \in Status
      BY <1>9 DEF Report, Running, TypeOK
    <2>2. TypeOK'  BY <1>9, <2>1 DEF Report, TypeOK, agent, observers
    <2> QED  BY <1>9, <1>a, <2>2 DEF Report, agent, observers
  <1>10. ASSUME Order PROVE ProxyInv'
    <2>a. order.id + 1 \in 0..MaxOrders
      <3>1. order.id \in 0..MaxOrders /\ order.id < MaxOrders  BY <1>10 DEF Order, TypeOK
      <3> QED  BY <3>1, ConstantsAssumption
    <2>b. seen.csr \in File /\ zerossl.cert \in File
      BY DEF TypeOK, Status, Zerossl
    <2>1. order' \in [id : 0..MaxOrders, key : File, open : BOOLEAN] /\ zerossl' \in Zerossl
      BY <1>10, <2>a, <2>b DEF Order, Zerossl
    <2>2. TypeOK'  BY <1>10, <2>1 DEF Order, TypeOK, agent, observers
    <2> QED  BY <1>10, <1>a, <2>2 DEF Order, agent, observers
  <1>11. ASSUME Issue PROVE ProxyInv'
    <2>1. order' \in [id : 0..MaxOrders, key : File, open : BOOLEAN] /\ zerossl' \in Zerossl
      BY <1>11 DEF Issue, TypeOK, Zerossl
    <2>2. TypeOK'  BY <1>11, <2>1 DEF Issue, TypeOK, agent, observers
    <2> QED  BY <1>11, <1>a, <2>2 DEF Issue, agent, observers
  <1>12. ASSUME Configure PROVE ProxyInv'
    <2>1. changes' \in 0..MaxChanges
      BY <1>12, ConstantsAssumption DEF Configure, TypeOK
    <2>2. TypeOK'  BY <1>12, <2>1 DEF Configure, TypeOK, agent, observers
    <2> QED  BY <1>12, <1>a, <2>2 DEF Configure, agent, observers
  <1>13. ASSUME NEW f \in {"key", "cert"}, LoseFile(f) PROVE ProxyInv'
    <2>1. 0 \in File /\ disk' = [disk EXCEPT ![f] = 0]
      BY <1>13 DEF LoseFile, File
    <2>2. disk' \in Disk /\ \A g \in {"key", "cert"} : g # f => disk'[g] = disk[g]
      BY <1>d, <2>1, DiskChange
    <2>3. faults' \in 0..MaxFaults /\ harmed' \in BOOLEAN
      BY <1>13, <1>h DEF LoseFile
    <2>4. TypeOK'
      BY <1>13, <2>2, <2>3 DEF LoseFile, TypeOK, Disk, panel
    <2>5. UNCHANGED <<manager, wasHttps, step>> /\ lost' = lost \cup {f}
      BY <1>13 DEF LoseFile
    <2>6. FilesStay'
      BY <2>2, <2>5 DEF FilesStay
    <2> QED
      BY <2>4, <2>5, <2>6 DEF StatusIsServer, NoDowngrade, StartOver, Running
  <1>14. ASSUME AcceptFails PROVE ProxyInv'
    <2>1. manager \in Manager  BY <1>14 DEF AcceptFails, Running, TypeOK, Manager
    <2>2. manager' = [manager EXCEPT !.main.alive = FALSE]  BY <1>14 DEF AcceptFails
    <2>3. manager' \in Manager /\ manager'.status = manager.status
          /\ manager'.main.mode = manager.main.mode /\ manager'.main.cert = manager.main.cert
          /\ manager'.main.key = manager.main.key
      BY <2>1, <2>2 DEF Manager, Server
    <2>4. faults' \in 0..MaxFaults /\ harmed' \in BOOLEAN
      BY <1>14, <1>h DEF AcceptFails
    <2>5. TypeOK'  BY <1>14, <2>3, <2>4 DEF AcceptFails, TypeOK, Manager, panel
    <2>6. Running /\ UNCHANGED <<disk, step, wasHttps, lost>>
      BY <1>14 DEF AcceptFails
    <2>7. StatusIsServer' /\ StartOver' /\ FilesStay'
      BY <2>3, <2>6 DEF StatusIsServer, StartOver, FilesStay
    <2>8. NoDowngrade'
      <3>1. lost \subseteq {"key", "cert"}  BY DEF TypeOK
      <3>2. \A f \in lost : manager'.main[f] = manager.main[f]
        BY <2>3, <3>1
      <3> QED  BY <2>3, <2>6, <3>2 DEF NoDowngrade
    <2> QED  BY <2>5, <2>7, <2>8
  <1>15. ASSUME UNCHANGED vars PROVE ProxyInv'
    <2>1. UNCHANGED <<panel, agent, faults, observers>>  BY <1>15 DEF vars
    <2>2. TypeOK'  BY <2>1 DEF panel, agent, observers, TypeOK
    <2> QED  BY <2>1, <1>a, <2>2 DEF agent, observers
  <1>16. Reload \/ Restart => End /\ faults' \in 0..MaxFaults
    BY FaultTypes DEF Reload, Restart, TypeOK
  <1> QED
    BY <1>1, <1>2, <1>3, <1>4, <1>5, <1>6, <1>7, <1>8, <1>9, <1>10, <1>11, <1>12, <1>13,
       <1>14, <1>15, <1>16 DEF Next, StartStep

\* The inductive invariant of every start and step of the proxy's manager: its
\* parts, and that a key or a certificate that was used is there, in whatever
\* state, unless it was lost (prepare_subscription_proxy_certificate_status).
THEOREM ProxyInvariant == Spec => []ProxyInv
  <1>1. ProxyInv /\ [Next]_vars => ProxyInv'  BY NextProxy
  <1> QED  BY <1>1, InitProxy, PTL DEF Spec

\* Every variable of the proxy keeps its type.
THEOREM ProxyTypeCorrect == Spec => []TypeOK
  <1>1. ProxyInv => TypeOK  BY DEF ProxyInv
  <1> QED  BY <1>1, ProxyInvariant, PTL

\* The status says "running" exactly of a main server that was started, in its
\* mode and with the certificate of its key (apply_and_start_with_file_system).
THEOREM StatusTruthful == Spec => []StatusIsServer
  <1>1. ProxyInv => StatusIsServer  BY DEF ProxyInv
  <1> QED  BY <1>1, ProxyInvariant, PTL

\* After TLS a run serves in the clear only for want of a key file or of a
\* certificate file that was lost (plan_subscription_proxy_serve_mode).
THEOREM TlsKept == Spec => []NoDowngrade
  <1>1. ProxyInv => NoDowngrade  BY DEF ProxyInv
  <1> QED  BY <1>1, ProxyInvariant, PTL


---------------------------------------------------------------------------
(* A request and its answer, byte by byte (HttpExchange) *)

\* The least element of a set of numbers.
LEMMA LeastOf ==
    ASSUME NEW S \in SUBSET Nat, S # {}
    PROVE  Min(S) \in S /\ \A p \in S : Min(S) <= p
<1>1. PICK x \in S : \A y \in S : ~ (<<y, x>> \in OpToRel(<, Nat))
  BY WFMin, NatLessThanWellFounded
<1>2. ASSUME NEW y \in S PROVE ~ (y < x)
  <2>1. <<y, x>> \notin OpToRel(<, Nat)
    BY <1>1
  <2>2. y \in Nat /\ x \in Nat
    OBVIOUS
  <2> QED
    BY <2>1, <2>2 DEF OpToRel
<1>3. \A y \in S : x <= y
  BY <1>2
<1>4. \E m \in S : \A y \in S : m <= y
  BY <1>3
<1> QED
  BY <1>4 DEF Min

\* A range of bytes, its length and its members.
LEMMA BytesTypes ==
    ASSUME NEW a \in Nat, NEW b \in Nat, a <= b
    PROVE  Bytes(a, b) \in Seq(Nat) /\ Len(Bytes(a, b)) = b - a /\ \A k \in 1..(b - a) : Bytes(a, b)[k] = a + k
<1>1. b - a \in Nat
  OBVIOUS
<1> DEFINE d == b - a
<1>2. Bytes(a, b) = [k \in 1..d |-> a + k]
  BY DEF Bytes
<1> HIDE DEF d
<1>3. d \in Nat
  BY <1>1 DEF d
<1>4. [k \in 1..d |-> a + k] \in Seq(Nat) /\ Len([k \in 1..d |-> a + k]) = d
  BY <1>3
<1> QED
  BY <1>2, <1>4 DEF d

\* Bytes that follow each other are put together, and cut, as they should.
LEMMA BytesJoin ==
    ASSUME NEW a \in Nat, NEW b \in Nat, NEW c \in Nat, a <= b, b <= c
    PROVE  /\ Bytes(a, b) \o Bytes(b, c) = Bytes(a, c)
           /\ SubSeq(Bytes(a, c), 1, b - a) = Bytes(a, b)
           /\ SubSeq(Bytes(a, c), b - a + 1, Len(Bytes(a, c))) = Bytes(b, c)
<1> DEFINE x == Bytes(a, b)
           y == Bytes(b, c)
           z == Bytes(a, c)
<1>0. a <= c
  OBVIOUS
<1>x. x \in Seq(Nat) /\ Len(x) = b - a /\ \A k \in 1..(b - a) : x[k] = a + k
  BY BytesTypes
<1>y. y \in Seq(Nat) /\ Len(y) = c - b /\ \A k \in 1..(c - b) : y[k] = b + k
  BY BytesTypes
<1>z. z \in Seq(Nat) /\ Len(z) = c - a /\ \A k \in 1..(c - a) : z[k] = a + k
  BY <1>0, BytesTypes
<1> HIDE DEF x, y, z
<1>2. x \o y = z
  <2> DEFINE w == x \o y
  <2>1. w \in Seq(Nat) /\ Len(w) = Len(x) + Len(y)
    BY <1>x, <1>y, ConcatProperties
  <2>2. Len(w) = c - a
    BY <1>x, <1>y, <2>1
  <2>3. \A k \in 1..Len(x) : w[k] = x[k]
    BY <1>x, <1>y
  <2>4. \A k \in 1..Len(y) : w[Len(x) + k] = y[k]
    BY <1>x, <1>y
  <2> HIDE DEF w
  <2>5. ASSUME NEW k \in 1..(c - a) PROVE w[k] = a + k
    <3>1. CASE k <= b - a
      <4>1. k \in 1..(b - a)
        BY <3>1
      <4> QED
        BY <1>x, <2>3, <4>1
    <3>2. CASE k > b - a
      <4> DEFINE j == k - (b - a)
      <4>1. j \in 1..(c - b) /\ k = (b - a) + j /\ b + j = a + k
        BY <3>2
      <4> HIDE DEF j
      <4>2. w[Len(x) + j] = y[j] /\ y[j] = b + j /\ Len(x) + j = k
        BY <1>x, <1>y, <2>4, <4>1
      <4> QED
        BY <4>1, <4>2
    <3> QED
      BY <3>1, <3>2
  <2>6. w = z
    BY <1>z, <2>1, <2>2, <2>5
  <2> QED
    BY <2>6 DEF w
<1>3. SubSeq(z, 1, b - a) = x
  <2> DEFINE w == SubSeq(z, 1, b - a)
  <2>1. w \in Seq(Nat) /\ Len(w) = b - a /\ \A k \in 1..(b - a) : w[k] = z[k]
    BY <1>z
  <2> HIDE DEF w
  <2>2. \A k \in 1..(b - a) : w[k] = x[k]
    BY <1>x, <1>z, <2>1
  <2>3. w = x
    BY <1>x, <2>1, <2>2
  <2> QED
    BY <2>3 DEF w
<1>4. SubSeq(z, b - a + 1, Len(z)) = y
  <2> DEFINE e == b - a
             w == SubSeq(z, e + 1, Len(z))
  <2>0. e \in Nat /\ e <= Len(z)
    BY <1>z
  <2> HIDE DEF e
  <2>1. w \in Seq(Nat) /\ Len(w) = Len(z) - e /\ \A k \in 1..(Len(z) - e) : w[k] = z[e + k]
    BY <1>z, <2>0
  <2> HIDE DEF w
  <2>2. Len(w) = c - b /\ \A k \in 1..(c - b) : w[k] = z[(b - a) + k]
    BY <1>z, <2>1 DEF e
  <2>3. \A k \in 1..(c - b) : z[(b - a) + k] = b + k
    BY <1>z
  <2>4. \A k \in 1..Len(w) : w[k] = y[k]
    BY <1>y, <2>2, <2>3
  <2>5. Len(w) = Len(y)
    BY <1>y, <2>2
  <2>6. w = y
    BY <1>y, <2>1, <2>4, <2>5, SeqEqual
  <2> QED
    BY <2>6 DEF w, e
<1> QED
  BY <1>2, <1>3, <1>4 DEF x, y, z

\* Reading of one and the same request.
LEMMA HeadTypes ==
    ASSUME NEW r, r.head \in Nat \ {0}, r.total \in Nat,
           NEW reads \in Readings(r), HeadRead(r, reads) # 0
    PROVE  HeadRead(r, reads) \in Nat /\ r.head <= HeadRead(r, reads) /\ HeadRead(r, reads) <= r.total
<1> DEFINE ends == {p \in reads : p > MaxHead \/ p >= r.head}
<1>1. reads \in SUBSET (1..r.total)
  BY DEF Readings
<1>2. ends \in SUBSET Nat
  <2>1. ends \subseteq reads
    OBVIOUS
  <2> HIDE DEF ends
  <2>2. 1..r.total \subseteq Nat
    OBVIOUS
  <2> QED
    BY <1>1, <2>1, <2>2
<1>3. ends # {} /\ ~(Min(ends) > MaxHead) /\ HeadRead(r, reads) = Min(ends)
  BY DEF HeadRead
<1>4. Min(ends) \in ends
  BY <1>2, <1>3, LeastOf
<1>5. Min(ends) \in 1..r.total /\ (Min(ends) > MaxHead \/ Min(ends) >= r.head)
  BY <1>1, <1>4
<1> DEFINE m == Min(ends)
<1>6. m \in 1..r.total /\ m >= r.head /\ HeadRead(r, reads) = m
  BY <1>3, <1>5
<1> HIDE DEF m
<1> QED
  BY <1>6

\* What is read does not depend on the cut once the head was found.
WholeRequest(r) ==
    LET n == CHOOSE n \in Lengths(r) : TRUE
    IN  IF ~LengthsAgree(r) \/ (Lengths(r) = {} /\ Chunked(r)) THEN <<>>
        ELSE IF Lengths(r) = {} THEN Bytes(0, r.head)
        ELSE IF n > MaxBody \/ r.total < r.head + n THEN <<>>
        ELSE Bytes(0, r.head + n)

\* Once the head is found, what is read does not depend on the cut.
LEMMA CutForgotten ==
    ASSUME NEW r, r.head \in Nat \ {0}, r.total \in Nat,
           NEW reads \in Readings(r)
    PROVE  ReadRequest(r, reads) = IF HeadRead(r, reads) = 0 THEN <<>> ELSE WholeRequest(r)
<1> DEFINE here == HeadRead(r, reads)
           n == CHOOSE n \in Lengths(r) : TRUE
<1>1. CASE here = 0
  BY <1>1 DEF ReadRequest
<1>2. CASE here # 0
  <2>1. here \in Nat /\ r.head <= here /\ here <= r.total
    BY <1>2, HeadTypes
  <2>2. CASE ~LengthsAgree(r) \/ Lengths(r) = {}
    BY <1>2, <2>2 DEF ReadRequest, WholeRequest
  <2>3. CASE LengthsAgree(r) /\ Lengths(r) # {}
    <3>1. n \in Lengths(r)
      BY <2>3
    <3>2. n \in Nat
      BY <3>1, LimitsAssumption DEF Lengths
    <3>3. ReadRequest(r, reads) =
            IF n > MaxBody THEN <<>>
            ELSE IF here - r.head > n THEN SubSeq(Bytes(0, here), 1, r.head + n)
            ELSE IF r.total < r.head + n THEN <<>>
            ELSE Bytes(0, here) \o Bytes(here, r.head + n)
      BY <1>2, <2>3 DEF ReadRequest
    <3>4. WholeRequest(r) = IF n > MaxBody \/ r.total < r.head + n THEN <<>>
                            ELSE Bytes(0, r.head + n)
      BY <2>3 DEF WholeRequest
    <3> HIDE DEF n, here
    <3> DEFINE m == r.head + n
    <3>m. m \in Nat
      BY <3>2
    <3>5. here - r.head > n => m <= here
      BY <2>1, <3>2
    <3>6. ~(here - r.head > n) => here <= m
      BY <2>1, <3>2
    <3>7. m <= here => SubSeq(Bytes(0, here), 1, m) = Bytes(0, m)
      <4> HIDE DEF m
      <4>0. 0 \in Nat /\ 0 <= m
        BY <3>m
      <4>1. m <= here => SubSeq(Bytes(0, here), 1, m - 0) = Bytes(0, m)
        BY ONLY <2>1, <3>m, <4>0, BytesJoin
      <4>2. m - 0 = m
        BY <3>m
      <4> QED
        BY <4>1, <4>2
    <3>8. here <= m => Bytes(0, here) \o Bytes(here, m) = Bytes(0, m)
      <4> HIDE DEF m
      <4>0. 0 \in Nat /\ 0 <= here
        BY <2>1
      <4> QED
        BY ONLY <2>1, <3>m, <4>0, BytesJoin
    <3>9. here - r.head > n => ~(r.total < m)
      BY <2>1, <3>2
    <3> QED
      BY <1>2, <3>3, <3>4, <3>5, <3>6, <3>7, <3>8, <3>9 DEF here
  <2> QED
    BY <2>2, <2>3
<1> QED
  BY <1>1, <1>2

\* The bytes of the body of a request that was read.
LEMMA BodyRead ==
    ASSUME NEW r, r.head \in Nat \ {0}, r.total \in Nat, WholeRequest(r) # <<>>
    PROVE  LET n == IF Lengths(r) = {} THEN 0 ELSE CHOOSE n \in Lengths(r) : TRUE
               raw == WholeRequest(r)
           IN  SubSeq(raw, r.head + 1, Len(raw)) = Bytes(r.head, r.head + n)
<1> DEFINE n == IF Lengths(r) = {} THEN 0 ELSE CHOOSE n \in Lengths(r) : TRUE
           raw == WholeRequest(r)
<1>1. n \in Nat
  <2>1. CASE Lengths(r) = {}
    BY <2>1
  <2>2. CASE Lengths(r) # {}
    <3>1. n \in Lengths(r)
      BY <2>2
    <3> QED
      BY <3>1, LimitsAssumption DEF Lengths
  <2> QED
    BY <2>1, <2>2
<1>2. raw = Bytes(0, r.head + n)
  BY DEF WholeRequest
<1> HIDE DEF n, raw
<1> DEFINE m == r.head + n
<1>3. m \in Nat /\ 0 <= r.head /\ r.head <= m
  BY <1>1
<1> HIDE DEF m
<1>4. SubSeq(Bytes(0, m), r.head - 0 + 1, Len(Bytes(0, m))) = Bytes(r.head, m)
  <2>1. 0 \in Nat /\ r.head \in Nat
    OBVIOUS
  <2> QED
    BY ONLY <1>3, <2>1, BytesJoin
<1>5. r.head - 0 + 1 = r.head + 1
  OBVIOUS
<1>6. SubSeq(raw, r.head + 1, Len(raw)) = Bytes(r.head, m)
  BY <1>2, <1>4, <1>5 DEF m
<1> QED
  BY <1>6 DEF m, n, raw

\* A head that fits is found, however the socket cuts it.
LEMMA HeadFound ==
    ASSUME NEW r, r.head \in Nat \ {0}, r.total \in Nat, HeadFits(r),
           r.total >= r.head, NEW reads \in Readings(r)
    PROVE  HeadRead(r, reads) # 0
<1> DEFINE ends == {p \in reads : p > MaxHead \/ p >= r.head}
           slack == {Chunk - 1, r.total - r.head}
           k == r.head - 1
<1>1. reads \in SUBSET (1..r.total) /\ \A q \in 0..(r.total - 1) : \E p \in reads : q < p /\ p <= q + Chunk
  BY DEF Readings
<1>2. k \in 0..(r.total - 1)
  OBVIOUS
<1>3. PICK p \in reads : k < p /\ p <= k + Chunk
  BY <1>1, <1>2
<1>4. p \in Nat /\ p >= r.head /\ p \in ends
  BY <1>1, <1>3
<1>5. ends \in SUBSET Nat /\ ends # {}
  <2>1. ends \subseteq reads
    OBVIOUS
  <2> HIDE DEF ends
  <2>2. 1..r.total \subseteq Nat
    OBVIOUS
  <2> QED
    BY <1>1, <1>4, <2>1, <2>2
<1>6. Min(ends) \in ends /\ Min(ends) <= p
  BY <1>4, <1>5, LeastOf
<1>7. slack \in SUBSET Nat /\ slack # {}
  BY LimitsAssumption
<1>8. Min(slack) \in slack
  BY <1>7, LeastOf
<1>9. r.head + Min(slack) <= MaxHead
  BY DEF HeadFits
<1> DEFINE m == Min(ends)
           g == Min(slack)
<1>10. m \in 1..r.total /\ m <= p
  BY <1>1, <1>6
<1>11. g = Chunk - 1 \/ g = r.total - r.head
  BY <1>8
<1>12. HeadRead(r, reads) = IF ends = {} \/ m > MaxHead THEN 0 ELSE m
  BY DEF HeadRead
<1> HIDE DEF m, g, ends
<1>13. r.head + g <= MaxHead
  BY <1>9 DEF g
<1>14. m <= MaxHead
  BY <1>3, <1>4, <1>10, <1>11, <1>13, LimitsAssumption
<1>15. m \in Nat /\ MaxHead \in Nat /\ m # 0
  BY <1>10, LimitsAssumption
<1>16. ~(m > MaxHead)
  BY <1>14, <1>15
<1> QED
  BY <1>5, <1>12, <1>15, <1>16

\* The whole request, and nothing else, however the socket cuts it.
LEMMA BodyWhole ==
    ASSUME NEW r, r.head \in Nat \ {0}, r.total \in Nat
    PROVE  BodyExact(r)
<1> DEFINE raws == {ReadRequest(r, reads) : reads \in Readings(r)}
           n == IF Lengths(r) = {} THEN 0 ELSE CHOOSE n \in Lengths(r) : TRUE
           W == WholeRequest(r)
<1> SUFFICES ASSUME r.total >= r.head
             PROVE  /\ \A raw \in raws \ {<<>>} :
                         UpstreamRequest(r, raw, "website").body
                           = (IF r.method = "HEAD" THEN <<>> ELSE Bytes(r.head, r.head + n))
                    /\ HeadFits(r) =>
                         /\ Cardinality(raws) = 1
                         /\ LengthsAgree(r) /\ Lengths(r) # {} /\ n <= MaxBody /\ r.total >= r.head + n
                              => <<>> \notin raws
  BY DEF BodyExact
<1>1. \A reads \in Readings(r) :
        ReadRequest(r, reads) = IF HeadRead(r, reads) = 0 THEN <<>> ELSE W
  BY CutForgotten
<1>2. \A raw \in raws \ {<<>>} : raw = W /\ W # <<>>
  BY <1>1
<1>3. W # <<>> => SubSeq(W, r.head + 1, Len(W)) = Bytes(r.head, r.head + n)
  BY BodyRead
<1>4. ASSUME HeadFits(r) PROVE raws = {W}
  <2>1. \A reads \in Readings(r) : HeadRead(r, reads) # 0
    BY <1>4, HeadFound
  <2>2. \A reads \in Readings(r) : ReadRequest(r, reads) = W
    BY <1>1, <2>1
  <2>3. 1..r.total \in Readings(r)
    <3> DEFINE R == 1..r.total
    <3>1. ASSUME NEW k \in 0..(r.total - 1) PROVE \E p \in R : k < p /\ p <= k + Chunk
      <4>1. k + 1 \in R /\ k < k + 1 /\ k + 1 <= k + Chunk
        BY LimitsAssumption
      <4> QED
        BY <4>1
    <3> QED
      BY <3>1 DEF Readings
  <2> HIDE DEF W
  <2> QED
    BY <2>2, <2>3
<1>5. Cardinality({W}) = 1
  BY FS_Singleton
<1>6. LengthsAgree(r) /\ Lengths(r) # {} /\ n <= MaxBody /\ r.total >= r.head + n => W # <<>>
  <2> SUFFICES ASSUME LengthsAgree(r), Lengths(r) # {}, n <= MaxBody, r.total >= r.head + n
               PROVE  W # <<>>
    OBVIOUS
  <2>1. n \in Lengths(r)
    OBVIOUS
  <2>2. n \in Nat
    BY <2>1, LimitsAssumption DEF Lengths
  <2>3. ~(n > MaxBody \/ r.total < r.head + n)
    BY <2>2, LimitsAssumption
  <2>4. W = Bytes(0, r.head + n)
    BY <2>3 DEF WholeRequest
  <2> HIDE DEF n, W
  <2> DEFINE m == r.head + n
  <2>5. m \in Nat /\ m # 0 /\ 0 \in Nat /\ 0 <= m /\ m - 0 = m
    BY <2>2
  <2> HIDE DEF m
  <2>6. Len(Bytes(0, m)) = m
    BY <2>5, BytesTypes
  <2>7. W = Bytes(0, m)
    BY <2>4 DEF m
  <2>8. Len(<<>>) = 0
    OBVIOUS
  <2> QED
    BY <2>5, <2>6, <2>7, <2>8
<1> HIDE DEF raws, n, W
<1>7. ASSUME NEW raw \in raws \ {<<>>}
      PROVE  UpstreamRequest(r, raw, "website").body
               = (IF r.method = "HEAD" THEN <<>> ELSE Bytes(r.head, r.head + n))
  <2>1. SubSeq(raw, r.head + 1, Len(raw)) = Bytes(r.head, r.head + n)
    BY <1>2, <1>3
  <2>2. UpstreamRequest(r, raw, "website").body
          = IF r.method = "HEAD" THEN <<>> ELSE SubSeq(raw, r.head + 1, Len(raw))
    BY DEF UpstreamRequest
  <2> QED
    BY <2>1, <2>2
<1> QED
  BY <1>4, <1>5, <1>6, <1>7

\* The headers of this connection stay here, the client's address is added.
LEMMA HeadersRight ==
    ASSUME NEW r
    PROVE  HeadersExact(r)
<1> DEFINE all == Headers(r.lines)
           dropped == HopByHop \cup {"host", "content-length"}
           kept == ForwardedHeaders(all)
           host == ValueOf(all, KeyOf(all, "host"))
           hosted == IF host = <<>> THEN kept ELSE Put(kept, <<"x-forwarded-host", "Std">>, host)
           full == Put(hosted, <<"x-forwarded-proto", "Std">>, <<"https">>)
           sent == UpstreamHeaders(all, r.peer)
           std == <<"x-forwarded-for", "Std">>
           low == <<"x-forwarded-for", "low">>
<1>1. sent = AppendForwardedFor(full, r.peer)
  BY DEF UpstreamHeaders
<1>2. /\ DOMAIN kept = {k \in DOMAIN all : k[1] \notin dropped}
      /\ \A k \in DOMAIN kept : kept[k] = all[k]
  BY DEF ForwardedHeaders
<1>3. {"x-forwarded-for", "x-forwarded-proto", "x-forwarded-host"} \cap dropped = {}
  BY DEF HopByHop
<1> HIDE DEF kept, dropped, all, host
<1> DEFINE xh == <<"x-forwarded-host", "Std">>
           xp == <<"x-forwarded-proto", "Std">>
<1> HIDE DEF xh, xp
<1>5. /\ \A k \in DOMAIN hosted : k \in DOMAIN kept \/ k = xh
      /\ DOMAIN kept \subseteq DOMAIN hosted
      /\ \A k \in DOMAIN kept : k # xh => hosted[k] = kept[k]
  <2>1. hosted = IF host = <<>> THEN kept ELSE Put(kept, xh, host)
    BY DEF xh
  <2> HIDE DEF hosted
  <2> DEFINE p == Put(kept, xh, host)
  <2>2. /\ DOMAIN p = DOMAIN kept \cup {xh}
        /\ \A k \in DOMAIN kept : k # xh => p[k] = kept[k]
    BY DEF Put
  <2> HIDE DEF p
  <2> QED
    BY <2>1, <2>2 DEF p
<1>6. /\ \A k \in DOMAIN full : k \in DOMAIN kept \/ k \in {xh, xp}
      /\ DOMAIN kept \subseteq DOMAIN full
      /\ \A k \in DOMAIN kept : k \notin {xh, xp} => full[k] = kept[k]
  <2> HIDE DEF hosted
  <2> DEFINE v == <<"https">>
  <2>1. full = Put(hosted, xp, v)
    BY DEF xp
  <2> HIDE DEF full, v
  <2>2. /\ DOMAIN full = DOMAIN hosted \cup {xp}
        /\ \A k \in DOMAIN hosted : k # xp => full[k] = hosted[k]
    BY <2>1 DEF Put
  <2> QED
    BY <1>5, <2>2
<1> HIDE DEF hosted
<1> HIDE DEF full
<1>7. \A k \in DOMAIN full : k[1] \notin dropped
  BY <1>2, <1>3, <1>6 DEF xh, xp
<1>8. ASSUME NEW k \in {std, low}
      PROVE  /\ k \in DOMAIN full <=> k \in DOMAIN all
             /\ k \in DOMAIN all => full[k] = all[k]
  <2>1. k[1] = "x-forwarded-for"
    OBVIOUS
  <2>2. k \notin {xh, xp}
    BY DEF xh, xp
  <2> QED
    BY <1>2, <1>3, <1>6, <2>1, <2>2
<1> DEFINE key == KeyOf(full, "x-forwarded-for")
           said == ValueOf(all, KeyOf(all, "x-forwarded-for"))
<1>9. key = KeyOf(all, "x-forwarded-for") /\ key \in {std, low}
  BY <1>8 DEF KeyOf
<1>10. ValueOf(full, key) = said
  BY <1>8, <1>9 DEF ValueOf
<1> HIDE DEF said
<1>11. CASE r.peer = ""
  <2>1. sent = full
    BY <1>1, <1>11 DEF AppendForwardedFor
  <2> HIDE DEF sent
  <2>2. \A k \in DOMAIN sent : k[1] \notin dropped
    BY <1>7, <2>1
  <2> QED
    BY <1>11, <2>2 DEF HeadersExact, sent, all, dropped
<1>12. CASE r.peer # ""
  <2> DEFINE value == Append(said, r.peer)
  <2>1. sent = Put(full, key, value)
    BY <1>1, <1>10, <1>12 DEF AppendForwardedFor
  <2> HIDE DEF sent, key, value
  <2>2. DOMAIN sent = DOMAIN full \cup {key} /\ sent[key] = value
    BY <2>1 DEF Put
  <2>3. key[1] \notin dropped
    BY <1>3, <1>9
  <2>4. \A k \in DOMAIN sent : k[1] \notin dropped
    BY <1>7, <2>2, <2>3
  <2>5. \E k \in DOMAIN sent : sent[k] = Append(said, r.peer)
    BY <2>2 DEF value
  <2> QED
    BY <2>4, <2>5 DEF HeadersExact, sent, all, dropped, said
<1> QED
  BY <1>11, <1>12

\* Answers of the proxy's own, and answers passed on, have one length.
LEMMA Rendered ==
    ASSUME NEW status, NEW headers, NEW size,
           \A key \in DOMAIN headers : key[1] # "content-length"
    PROVE  Render(Reply(status, headers, size)) = Reply(status, headers, size)
<1> DEFINE p == Reply(status, headers, size)
           own == {key \in DOMAIN p.headers : key[1] = "content-length"}
<1>1. p = [status |-> status, headers |-> headers, lengths |-> {size}, size |-> size]
  BY DEF Reply
<1>2. own = {}
  BY <1>1
<1> HIDE DEF own
<1>3. {Number[p.headers[key][1]] : key \in own} = {}
  BY <1>2
<1>4. Render(p) = [p EXCEPT !.lengths = @ \cup {Number[p.headers[key][1]] : key \in own}]
  BY DEF Render, own
<1>5. Render(p) = [p EXCEPT !.lengths = @ \cup {}]
  BY <1>3, <1>4
<1>6. [p EXCEPT !.lengths = @ \cup {}] = p
  BY <1>1
<1> QED
  BY <1>5, <1>6

\* A reply of the proxy's own is rendered as it is.
LEMMA PlainRendered ==
    ASSUME NEW status
    PROVE  Render(Plain(status)) = Plain(status) /\ Plain(status).lengths = {Plain(status).size}
<1> DEFINE h == [key \in {<<"content-type", "Std">>} |-> <<"text">>]
<1>1. \A key \in DOMAIN h : key[1] # "content-length"
  OBVIOUS
<1>2. Plain(status) = Reply(status, h, 1)
  BY DEF Plain
<1> HIDE DEF h
<1>3. Render(Reply(status, h, 1)) = Reply(status, h, 1)
  BY <1>1, Rendered
<1>4. Reply(status, h, 1).lengths = {Reply(status, h, 1).size}
  BY DEF Reply
<1> QED
  BY <1>2, <1>3, <1>4

\* An answer that is passed on is whole.
LEMMA AnswerWhole ==
    ASSUME NEW r, NEW route, NEW up, up.size \in Nat
    PROVE  AnswerExact(r, route, up)
<1> SUFFICES ASSUME NEW reads \in Readings(r)
             PROVE  LET reply == Serve(r, reads, route, up)
                    IN  /\ reply.lengths = {reply.size}
                        /\ reply \notin OwnReplies =>
                             /\ reply.status = up.status
                             /\ IF r.method = "HEAD" THEN reply.size = 0
                                ELSE reply.size = up.size /\ up.size <= MaxResponse
  BY DEF AnswerExact
<1> DEFINE reply == Serve(r, reads, route, up)
           headOnly == r.method = "HEAD"
           body == IF headOnly THEN 0 ELSE LimitedBody(up.size)
           h == ForwardedHeaders(up.headers)
           pass == Reply(up.status, h, body)
<1>1. \/ \E status \in {400, 404, 405, 502} : reply = Render(Plain(status))
      \/ reply = Render(pass) /\ ~(body > MaxResponse)
  BY DEF Serve, UpstreamReply
<1>2. CASE \E status \in {400, 404, 405, 502} : reply = Render(Plain(status))
  <2>1. PICK status \in {400, 404, 405, 502} : reply = Render(Plain(status))
    BY <1>2
  <2>2. reply = Plain(status) /\ reply.lengths = {reply.size}
    BY <2>1, PlainRendered
  <2>3. reply \in OwnReplies
    BY <2>2 DEF OwnReplies
  <2> QED
    BY <2>2, <2>3
<1>3. CASE reply = Render(pass) /\ ~(body > MaxResponse)
  <2>1. \A key \in DOMAIN h : key[1] # "content-length"
    BY DEF ForwardedHeaders
  <2> HIDE DEF h, body
  <2>2. reply = pass
    BY <1>3, <2>1, Rendered
  <2>3. reply.status = up.status /\ reply.size = body /\ reply.lengths = {reply.size}
    BY <2>2 DEF Reply
  <2>4. CASE headOnly
    BY <2>3, <2>4 DEF body
  <2>5. CASE ~headOnly
    <3> DEFINE sizes == {up.size, MaxResponse + 1}
    <3>1. body = Min(sizes)
      BY <2>5 DEF body, LimitedBody
    <3>2. sizes \in SUBSET Nat /\ sizes # {}
      BY LimitsAssumption
    <3>3. Min(sizes) \in sizes /\ \A p \in sizes : Min(sizes) <= p
      BY <3>2, LeastOf
    <3>4. body \in {up.size, MaxResponse + 1} /\ ~(body > MaxResponse)
      BY <1>3, <3>1, <3>3
    <3>5. body = up.size /\ up.size <= MaxResponse
      BY <3>4, LimitsAssumption
    <3> QED
      BY <2>3, <2>5, <3>5
  <2> QED
    BY <2>4, <2>5
<1> QED
  BY <1>1, <1>2, <1>3

\* Of any request, however the socket cuts its bytes, any route and any answers of
\* the upstream: the body sent on is the announced one, byte by byte, no header of
\* the connection is passed on, and the client gets the upstream's whole answer
\* with its length or one of the proxy's own replies
\* (read_subscription_proxy_http_request, upstream_forwarded_headers,
\* plan_subscription_proxy_response).
LEMMA EveryExchange ==
    ASSUME NEW r, r.head \in Nat \ {0}, r.total \in Nat,
           NEW routes, NEW ups, \A up \in ups : up.size \in Nat
    PROVE  ExchangeExact(r, routes, ups)
  BY BodyWhole, HeadersRight, AnswerWhole DEF ExchangeExact

---------------------------------------------------------------------------
(* Where a request goes and what a redirect becomes (SubscriptionRoutes) *)


\* What being a prefix means, element by element.
LEMMA PrefixMeans ==
    ASSUME NEW T, NEW p \in Seq(T), NEW s \in Seq(T)
    PROVE  IsPrefix(p, s) <=> Len(p) <= Len(s) /\ \A i \in 1..Len(p) : p[i] = s[i]
<1> DEFINE k == Len(p)
           u == SubSeq(p, 1, k)
           v == SubSeq(s, 1, k)
<1>1. k \in Nat /\ Len(s) \in Nat
  OBVIOUS
<1>2. u = p
  OBVIOUS
<1>3. k <= Len(s) => v \in Seq(T) /\ Len(v) = k /\ \A i \in 1..k : v[i] = s[i]
  OBVIOUS
<1>4. k <= Len(s) => (p = v <=> \A i \in 1..k : p[i] = v[i])
  <2> HIDE DEF v
  <2> SUFFICES ASSUME k <= Len(s), \A i \in 1..k : p[i] = v[i] PROVE p = v
    OBVIOUS
  <2> QED
    BY <1>3, SeqEqual
<1>5. IsPrefix(p, s) <=> k <= Len(s) /\ u = v
  BY DEF IsPrefix
<1> HIDE DEF u, v
<1> QED
  BY <1>2, <1>3, <1>4, <1>5

\* The first elements are a prefix.
LEMMA CutIsPrefix ==
    ASSUME NEW T, NEW s \in Seq(T), NEW k \in 0..Len(s)
    PROVE  IsPrefix(SubSeq(s, 1, k), s)
<1> DEFINE c == SubSeq(s, 1, k)
<1>0. Len(s) \in Nat /\ k \in Nat /\ k <= Len(s) /\ 1 \in Int /\ k \in Int
  OBVIOUS
<1>1. \A i \in 1..k : s[i] \in T
  BY <1>0
<1>2. /\ c \in Seq(T) /\ Len(c) = IF 1 <= k THEN k - 1 + 1 ELSE 0
      /\ \A i \in 1..k - 1 + 1 : c[i] = s[1 + i - 1]
  BY <1>0, <1>1, SubSeqProperties
<1> HIDE DEF c
<1>3. Len(c) = k /\ \A i \in 1..k : c[i] = s[i]
  BY <1>0, <1>2
<1>4. IsPrefix(c, s)
  BY <1>0, <1>2, <1>3, PrefixMeans
<1> QED
  BY <1>4 DEF c

\* A prefix is cut off what it was put before.
LEMMA PrefixCut ==
    ASSUME NEW T, NEW p \in Seq(T), NEW s \in Seq(T)
    PROVE  /\ p \o s \in Seq(T) /\ IsPrefix(p, p \o s)
           /\ SubSeq(p \o s, Len(p) + 1, Len(p \o s)) = s
<1> DEFINE u == p \o s
           v == SubSeq(u, Len(p) + 1, Len(u))
<1>1. /\ u \in Seq(T) /\ Len(u) = Len(p) + Len(s)
      /\ \A i \in 1 .. Len(p) + Len(s) : u[i] = IF i <= Len(p) THEN p[i] ELSE s[i - Len(p)]
  BY ConcatProperties
<1> HIDE DEF u
<1>2. Len(p) \in Nat /\ Len(s) \in Nat
  OBVIOUS
<1>3. IsPrefix(p, u)
  <2>1. Len(p) <= Len(u) /\ \A i \in 1..Len(p) : p[i] = u[i]
    BY <1>1, <1>2
  <2> QED
    BY <1>1, <2>1, PrefixMeans
<1>4. v \in Seq(T) /\ Len(v) = Len(u) - Len(p) /\ \A i \in 1..(Len(u) - Len(p)) : v[i] = u[Len(p) + i]
  BY <1>1, <1>2
<1> HIDE DEF v
<1>5. Len(v) = Len(s)
  BY <1>1, <1>2, <1>4
<1>6. \A i \in 1..Len(v) : v[i] = s[i]
  <2> SUFFICES ASSUME NEW i \in 1..Len(s) PROVE v[i] = s[i]
    BY <1>5
  <2>1. v[i] = u[Len(p) + i]
    BY <1>1, <1>2, <1>4
  <2>2. Len(p) + i \in 1 .. Len(p) + Len(s) /\ ~(Len(p) + i <= Len(p)) /\ (Len(p) + i) - Len(p) = i
    BY <1>2
  <2>3. u[Len(p) + i] = s[(Len(p) + i) - Len(p)]
    BY <1>1, <2>2
  <2> QED
    BY <2>1, <2>2, <2>3
<1>7. v = s
  BY <1>4, <1>5, <1>6, SeqEqual
<1> QED
  BY <1>1, <1>3, <1>7 DEF u, v

\* The website that is found has the longest of the prefixes that match, and is
\* the last of those that have it.
Best(websites, path, i) ==
    /\ i \in DOMAIN websites /\ Matches(websites[i].prefix, path)
    /\ \A k \in DOMAIN websites : Matches(websites[k].prefix, path) =>
         \/ Len(websites[i].prefix) > Len(websites[k].prefix)
         \/ Len(websites[i].prefix) = Len(websites[k].prefix) /\ i >= k

\* Bounded numbers have a greatest one among them.
LEMMA GreatestOf ==
    ASSUME NEW S, S # {}, NEW f, NEW bound \in Nat, \A i \in S : f[i] \in 0..bound
    PROVE  \E a \in S : \A k \in S : f[k] <= f[a]
<1> DEFINE gaps == {x \in Nat : \E i \in S : x = bound - f[i]}
<1>1. \A i \in S : bound - f[i] \in gaps
  OBVIOUS
<1>2. gaps \in SUBSET Nat /\ gaps # {}
  BY <1>1
<1>3. PICK g \in gaps : \A h \in gaps : g <= h
  <2> HIDE DEF gaps
  <2> QED
    BY <1>2, LeastOf
<1>4. PICK a \in S : g = bound - f[a]
  BY <1>3
<1> HIDE DEF gaps
<1>5. ASSUME NEW k \in S PROVE f[k] <= f[a]
  <2>1. bound - f[a] <= bound - f[k]
    BY <1>1, <1>3, <1>4
  <2>2. f[a] \in Nat /\ f[k] \in Nat
    OBVIOUS
  <2> QED
    BY <2>1, <2>2
<1> QED
  BY <1>5

\* WebsiteMatch finds the best website, or none matches.
LEMMA BestMatch ==
    ASSUME NEW W, \A w \in W : w.prefix \in Seq(STRING),
           NEW websites \in Seq(W), NEW path \in Seq(STRING)
    PROVE  \/ WebsiteMatch(websites, path) = <<>> /\ \A i \in DOMAIN websites : ~Matches(websites[i].prefix, path)
           \/ \E i \in DOMAIN websites : Best(websites, path, i) /\ WebsiteMatch(websites, path) = <<websites[i]>>
<1> DEFINE m == {i \in DOMAIN websites : Matches(websites[i].prefix, path)}
           Beats(i, k) == \/ Len(websites[i].prefix) > Len(websites[k].prefix)
                          \/ Len(websites[i].prefix) = Len(websites[k].prefix) /\ i >= k
           c == CHOOSE i \in m : \A k \in m : Beats(i, k)
           size(i) == Len(websites[i].prefix)
<1>0. /\ DOMAIN websites = 1..Len(websites) /\ Len(websites) \in Nat /\ Len(path) \in Nat
      /\ \A i \in DOMAIN websites : size(i) \in Nat
  OBVIOUS
<1>1. \A i \in m : size(i) <= Len(path)
  BY DEF Matches, IsPrefix
<1>2. WebsiteMatch(websites, path) = IF m = {} THEN <<>> ELSE <<websites[c]>>
  BY Zenon DEF WebsiteMatch
<1>3. ASSUME m # {} PROVE \E i \in m : \A k \in m : Beats(i, k)
  <2> DEFINE f == [i \in m |-> size(i)]
  <2>1. \A i \in m : f[i] \in 0..Len(path)
    BY <1>0, <1>1
  <2>2. PICK a \in m : \A k \in m : f[k] <= f[a]
    <3> HIDE DEF f, m
    <3> QED
      BY <1>0, <1>3, <2>1, GreatestOf
  <2>3. \A k \in m : size(k) <= size(a)
    BY <2>2
  <2> DEFINE long == {i \in m : size(i) = size(a)}
             e == [i \in long |-> i]
  <2>5. long # {} /\ \A i \in long : e[i] \in 0..Len(websites)
    <3>1. a \in long
      OBVIOUS
    <3>2. \A i \in long : i \in 1..Len(websites)
      BY <1>0
    <3>3. \A i \in long : e[i] = i
      OBVIOUS
    <3> HIDE DEF long, e
    <3> QED
      BY <1>0, <3>1, <3>2, <3>3
  <2>6. PICK b \in long : \A k \in long : e[k] <= e[b]
    <3> HIDE DEF e, long
    <3> QED
      BY <1>0, <2>5, GreatestOf
  <2>7. \A k \in long : k <= b
    BY <2>6
  <2>9. \A k \in m : Beats(b, k)
    <3> SUFFICES ASSUME NEW k \in m PROVE Beats(b, k)
      OBVIOUS
    <3>1. b \in m /\ size(b) = size(a) /\ size(k) <= size(a)
      BY <2>3
    <3>2. size(k) \in Nat /\ size(a) \in Nat /\ k \in Nat /\ b \in Nat
      BY <1>0, <3>1
    <3>3. size(k) = size(a) => k <= b
      BY <2>7
    <3> HIDE DEF size, long, m
    <3>4. size(b) > size(k) \/ (size(b) = size(k) /\ b >= k)
      BY <3>1, <3>2, <3>3
    <3> QED
      BY <3>4 DEF size
  <2> QED
    BY <2>9
<1>4. m # {} => c \in m /\ \A k \in m : Beats(c, k)
  <2> HIDE DEF m, Beats
  <2> QED
    BY <1>3
<1>5. m # {} => Best(websites, path, c)
  BY <1>4 DEF Best
<1> QED
  BY <1>2, <1>4, <1>5

\* A configuration and requests as the proxy has them.
ProxyConfig(n) ==
    \E P, W : /\ n.profiles \in Seq(P) /\ n.websites \in Seq(W)
              /\ \A w \in W : w.prefix \in Seq(STRING)

\* The route of a refused request, of one whose token cannot be decoded, of one
\* for a site, of one for a website.
Refuses(route) == route = Error(404) \/ route = Error(405)
BadToken(path, route) == route = Error(502) /\ ~Decodes(Token(path))
ToSite(n, path, route) ==
    /\ route.kind = "upstream" /\ route.rewrite = FALSE
    /\ \E i \in DOMAIN n.profiles : route.profile = n.profiles[i]
    /\ route.profile.site = path[2]
ToWebsite(n, path, route) ==
    /\ route.kind = "upstream" /\ route.rewrite = TRUE
    /\ \E i \in DOMAIN n.websites :
         /\ Best(n.websites, path, i) /\ route.profile = n.websites[i]
         /\ route.url = Join(n.websites[i].up, UpstreamPath(n.websites[i].prefix, path))

\* What a request of the proxy's sites becomes: refused, refused for its token,
\* or passed on.
LEMMA SiteRouted ==
    ASSUME NEW n, NEW P, n.profiles \in Seq(P), NEW request
    PROVE  LET route == SiteRoute(n, request)
           IN  Refuses(route) \/ BadToken(request.path, route) \/ ToSite(n, request.path, route)
<1> DEFINE route == SiteRoute(n, request)
           found == OfSite(n, request.path[2])
           site == n.profiles[Min(found)]
           token == Token(request.path)
           url == SiteUrl(site, token)
           up == Upstream(url, site, FALSE, FALSE, TRUE)
           short == Len(request.path) < 3 \/ request.path[2] = "" \/ token = <<"">>
<1>1. route = IF request.method \notin {"GET", "HEAD"} THEN Error(405)
              ELSE IF short THEN Error(404)
              ELSE IF found = {} THEN Error(404)
              ELSE IF ~Decodes(token) THEN Error(502)
              ELSE IF BlankToken(token) THEN Error(404)
              ELSE up
  BY DEF SiteRoute
<1>2. up.kind = "upstream" /\ up.rewrite = FALSE /\ up.profile = site
  <2> HIDE DEF url, site
  <2> QED
    BY DEF Upstream
<1>3. ASSUME found # {} PROVE Min(found) \in DOMAIN n.profiles /\ site.site = request.path[2]
  <2>1. found \in SUBSET Nat
    BY DEF OfSite
  <2>2. Min(found) \in found
    <3> HIDE DEF found
    <3> QED
      BY <1>3, <2>1, LeastOf
  <2> QED
    BY <2>2 DEF OfSite
<1>4. found # {} => ToSite(n, request.path, up)
  <2> HIDE DEF up
  <2> QED
    BY <1>2, <1>3 DEF ToSite
<1>5. ~Decodes(token) => BadToken(request.path, Error(502))
  BY DEF BadToken
<1> HIDE DEF route, up, found, short, token
<1>6. \/ route = Error(405) \/ route = Error(404) \/ (found # {} /\ route = up)
      \/ (~Decodes(token) /\ route = Error(502))
  BY <1>1
<1> QED
  BY <1>4, <1>5, <1>6 DEF Refuses, route

\* What a request for a website becomes.
LEMMA WebsiteRouted ==
    ASSUME NEW n, NEW W, n.websites \in Seq(W), \A w \in W : w.prefix \in Seq(STRING),
           NEW request, request.path \in Seq(STRING)
    PROVE  /\ Refuses(WebsiteRoute(n, request)) \/ ToWebsite(n, request.path, WebsiteRoute(n, request))
           /\ request.method # "TRACE" /\ (\E i \in DOMAIN n.websites : Matches(n.websites[i].prefix, request.path))
                => ToWebsite(n, request.path, WebsiteRoute(n, request))
<1> DEFINE route == WebsiteRoute(n, request)
           web == WebsiteMatch(n.websites, request.path)
           url == Join(web[1].up, UpstreamPath(web[1].prefix, request.path))
           body == request.method # "HEAD"
           up == Upstream(url, web[1], TRUE, body, FALSE)
<1>1. route = IF request.method = "TRACE" THEN Error(405) ELSE IF web = <<>> THEN Error(404) ELSE up
  BY DEF WebsiteRoute
<1>2. up.kind = "upstream" /\ up.rewrite = TRUE /\ up.profile = web[1] /\ up.url = url
  <2> HIDE DEF url, web, body
  <2> QED
    BY DEF Upstream
<1>3. \/ web = <<>> /\ \A i \in DOMAIN n.websites : ~Matches(n.websites[i].prefix, request.path)
      \/ \E i \in DOMAIN n.websites : Best(n.websites, request.path, i) /\ web = <<n.websites[i]>>
  BY BestMatch
<1> HIDE DEF web
<1>4. ASSUME NEW i \in DOMAIN n.websites, Best(n.websites, request.path, i), web = <<n.websites[i]>>
      PROVE  web # <<>> /\ ToWebsite(n, request.path, up)
  <2>1. web[1] = n.websites[i] /\ web # <<>>
    BY <1>4
  <2>2. url = Join(n.websites[i].up, UpstreamPath(n.websites[i].prefix, request.path))
    BY <2>1
  <2> HIDE DEF url, up
  <2> QED
    BY <1>2, <1>4, <2>1, <2>2 DEF ToWebsite
<1> HIDE DEF up, route
<1>5. CASE web = <<>> /\ \A i \in DOMAIN n.websites : ~Matches(n.websites[i].prefix, request.path)
  BY <1>1, <1>5 DEF Refuses, route
<1>6. CASE \E i \in DOMAIN n.websites : Best(n.websites, request.path, i) /\ web = <<n.websites[i]>>
  <2>1. web # <<>> /\ ToWebsite(n, request.path, up)
    BY <1>4, <1>6
  <2>2. route = IF request.method = "TRACE" THEN Error(405) ELSE up
    BY <1>1, <2>1
  <2> QED
    BY <2>1, <2>2 DEF Refuses, route
<1> QED
  BY <1>3, <1>5, <1>6

\* The paths that are the proxy's own sites.
OwnSite(path) == Len(path) >= 2 /\ path[1] = "sub"

\* Where a request goes.
LEMMA Routed ==
    ASSUME NEW n, ProxyConfig(n), NEW request, request.path \in Seq(STRING)
    PROVE  LET route == PlanRequest(n, request)
               path == request.path
           IN  /\ path = <<"health">> => route = Health \/ Refuses(route)
               /\ path # <<"health">> /\ OwnSite(path) =>
                    Refuses(route) \/ BadToken(path, route) \/ ToSite(n, path, route)
               /\ path # <<"health">> /\ ~OwnSite(path) =>
                    /\ Refuses(route) \/ ToWebsite(n, path, route)
                    /\ request.method # "TRACE" /\ (\E i \in DOMAIN n.websites : Matches(n.websites[i].prefix, path))
                         => ToWebsite(n, path, route)
<1> DEFINE route == PlanRequest(n, request)
           path == request.path
<1>1. PICK P, W : /\ n.profiles \in Seq(P) /\ n.websites \in Seq(W)
                  /\ \A w \in W : w.prefix \in Seq(STRING)
  BY DEF ProxyConfig
<1>2. route = IF path = <<"health">>
                THEN IF request.method \in {"GET", "HEAD"} THEN Health ELSE Error(405)
              ELSE IF OwnSite(path) THEN SiteRoute(n, request) ELSE WebsiteRoute(n, request)
  BY DEF PlanRequest, OwnSite
<1>3. \/ Refuses(SiteRoute(n, request)) \/ BadToken(path, SiteRoute(n, request))
      \/ ToSite(n, path, SiteRoute(n, request))
  BY <1>1, SiteRouted
<1>4. /\ Refuses(WebsiteRoute(n, request)) \/ ToWebsite(n, path, WebsiteRoute(n, request))
      /\ request.method # "TRACE" /\ (\E i \in DOMAIN n.websites : Matches(n.websites[i].prefix, path))
           => ToWebsite(n, path, WebsiteRoute(n, request))
  BY <1>1, WebsiteRouted
<1> HIDE DEF route
<1>5. path = <<"health">> => route = Health \/ Refuses(route)
  BY <1>2 DEF Refuses
<1> QED
  BY <1>2, <1>3, <1>4, <1>5 DEF route

\* Of any configuration the proxy normalizes and any requests: a request under
\* /sub/<site> goes to the profile of that site or nowhere, every other one to
\* a website and never to a profile, an upstream that fails is answered 502
\* where one that works is passed on, and no other request but one whose token
\* cannot be decoded
\* (plan_subscription_proxy_request, build_subscription_upstream_url).
LEMMA EveryRoute ==
    ASSUME NEW n, ProxyConfig(n), NEW requests, \A r \in requests : r.path \in Seq(STRING)
    PROVE  RoutesToOwner(n, requests)
<1> SUFFICES ASSUME NEW request \in requests
             PROVE  LET route == PlanRequest(n, request)
                    IN  /\ Answer(n, request, 0) = 502 <=> Answer(n, request, 201) \in {201, 502}
                        /\ Answer(n, request, 201) = 502 =>
                             request.path[1] = "sub" /\ ~Decodes(Token(request.path))
                        /\ route.kind = "upstream" /\ request.path[1] # ".well-known" =>
                             ChallengeAnswer(request, {"f"}) \in {404, 405}
                        /\ route.kind = "upstream" =>
                             IF request.path[1] = "sub" /\ Len(request.path) > 1
                               THEN /\ \E i \in DOMAIN n.profiles : route.profile = n.profiles[i]
                                    /\ route.profile.site = request.path[2]
                               ELSE /\ request.path # <<"health">>
                                    /\ \E i \in DOMAIN n.websites : route.profile = n.websites[i]
  BY DEF RoutesToOwner
<1> DEFINE route == PlanRequest(n, request)
           path == request.path
<1>0. path \in Seq(STRING) /\ Len(path) \in Nat
  OBVIOUS
<1>1. /\ path = <<"health">> => route = Health \/ Refuses(route)
      /\ path # <<"health">> /\ OwnSite(path) =>
           Refuses(route) \/ BadToken(path, route) \/ ToSite(n, path, route)
      /\ path # <<"health">> /\ ~OwnSite(path) => Refuses(route) \/ ToWebsite(n, path, route)
  BY Routed
<1>2. /\ Refuses(route) => route.kind = "error" /\ route.code \in {404, 405}
      /\ BadToken(path, route) => route.kind = "error" /\ route.code = 502
      /\ route = Health => route.kind = "health"
  BY DEF Refuses, BadToken, Error, Health
<1>3. \A up : Answer(n, request, up) =
               IF route.kind = "error" THEN route.code
               ELSE IF route.kind = "health" THEN 200
               ELSE IF route.kind = "upstream" /\ up = 0 THEN 502
               ELSE up
  BY DEF Answer
<1>4. path # <<"health">> /\ path[1] # ".well-known" => ChallengeAnswer(request, {"f"}) \in {404, 405}
  <2>1. SubSeq(path, 1, 2) = <<".well-known", "pki-validation">> => path[1] = ".well-known"
    <3> SUFFICES ASSUME SubSeq(path, 1, 2) = <<".well-known", "pki-validation">> PROVE path[1] = ".well-known"
      OBVIOUS
    <3>1. SubSeq(path, 1, 2)[1] = path[1]
      OBVIOUS
    <3>2. <<".well-known", "pki-validation">>[1] = ".well-known"
      OBVIOUS
    <3> QED
      BY <3>1, <3>2
  <2> QED
    BY <2>1 DEF ChallengeAnswer
<1> HIDE DEF route
<1>5. /\ Answer(n, request, 0) = 502 <=> Answer(n, request, 201) \in {201, 502}
      /\ Answer(n, request, 201) = 502 => path[1] = "sub" /\ ~Decodes(Token(path))
  <2>1. \/ route.kind = "upstream" \/ (route.kind = "error" /\ route.code \in {404, 405})
        \/ route.kind = "health" \/ (route.kind = "error" /\ route.code = 502)
    BY <1>1, <1>2 DEF ToSite, ToWebsite
  <2>2. route.kind = "error" /\ route.code = 502 => path[1] = "sub" /\ ~Decodes(Token(path))
    <3>1. SUFFICES ASSUME route.kind = "error", route.code = 502
                   PROVE  path # <<"health">> /\ OwnSite(path) /\ BadToken(path, route)
      BY DEF OwnSite, BadToken
    <3>2. ~Refuses(route) /\ route # Health
      BY <1>2, <3>1
    <3>3. ~ToSite(n, path, route) /\ ~ToWebsite(n, path, route)
      BY <3>1 DEF ToSite, ToWebsite
    <3> QED
      BY <1>1, <3>2, <3>3
  <2> QED
    BY <1>3, <2>1, <2>2
<1>6. route.kind = "upstream" => path # <<"health">>
  BY <1>1, <1>2
<1>7. route.kind = "upstream" =>
        IF path[1] = "sub" /\ Len(path) > 1
          THEN /\ \E i \in DOMAIN n.profiles : route.profile = n.profiles[i]
               /\ route.profile.site = path[2]
          ELSE \E i \in DOMAIN n.websites : route.profile = n.websites[i]
  <2>1. OwnSite(path) <=> path[1] = "sub" /\ Len(path) > 1
    BY <1>0 DEF OwnSite
  <2> QED
    BY <1>1, <1>2, <2>1 DEF ToSite, ToWebsite
<1> QED
  BY <1>4, <1>5, <1>6, <1>7 DEF route

\* What a prefix is put before comes back without it.
LEMMA PrefixedBack ==
    ASSUME NEW prefix \in Seq(STRING), NEW target \in Seq(STRING), target # <<>>
    PROVE  LET full == Prefixed(prefix, target)
           IN  /\ full \in Seq(STRING) /\ IsPrefix(prefix, full)
               /\ UpstreamPath(prefix, full) = target
               /\ prefix = <<>> => full = target
<1> DEFINE full == Prefixed(prefix, target)
           rest == SubSeq(full, Len(prefix) + 1, Len(full))
<1>0. UpstreamPath(prefix, full) = IF rest = <<>> THEN Root ELSE rest
  BY DEF UpstreamPath
<1>1. CASE target = Root /\ prefix # <<>>
  <2>1. full = prefix
    BY <1>1 DEF Prefixed
  <2>2. rest = <<>>
    <3> HIDE DEF full
    <3>1. Len(prefix) \in Nat /\ Len(prefix) + 1 > Len(prefix)
      OBVIOUS
    <3> QED
      BY <2>1, <3>1
  <2>3. IsPrefix(prefix, prefix)
    BY PrefixMeans
  <2> HIDE DEF full, rest
  <2> QED
    BY <1>0, <1>1, <2>1, <2>2, <2>3 DEF full
<1>2. CASE ~(target = Root /\ prefix # <<>>)
  <2>1. full = prefix \o target
    BY <1>2 DEF Prefixed
  <2>2. full \in Seq(STRING) /\ IsPrefix(prefix, full) /\ rest = target
    BY <2>1, PrefixCut
  <2>3. prefix = <<>> => full = target
    <3> SUFFICES ASSUME prefix = <<>> PROVE full = target
      OBVIOUS
    <3>1. <<>> \o target = target
      BY ConcatEmptySeq
    <3> HIDE DEF full
    <3> QED
      BY <2>1, <3>1
  <2> HIDE DEF full, rest
  <2> QED
    BY <1>0, <2>2, <2>3 DEF full
<1> QED
  BY <1>1, <1>2

\* An address of the website's own comes back under its prefix, with or without
\* the origin.
LEMMA Rewritten ==
    ASSUME NEW w, w.up.path = <<>>, NEW target \in Seq(STRING), target # <<>>
    PROVE  /\ Rewrite(w, Url(w.up.origin, target)) = Url("", Prefixed(w.prefix, target))
           /\ Rewrite(w, Url("", target)) = Url("", Prefixed(w.prefix, target))
<1> DEFINE Loc(o) == Url(o, target)
<1>1. \A o : Loc(o).origin = o /\ Loc(o).path = target
  BY DEF Url
<1>2. IsPrefix(<<>>, target)
  <2>1. SubSeq(target, 1, 0) = <<>> /\ 0 \in 0..Len(target)
    OBVIOUS
  <2> QED
    BY <2>1, CutIsPrefix
<1>3. UpstreamPath(<<>>, target) = target
  <2>1. SubSeq(target, 1, Len(target)) = target
    OBVIOUS
  <2>2. Len(<<>>) + 1 = 1
    OBVIOUS
  <2> QED
    BY <2>1, <2>2 DEF UpstreamPath
<1> HIDE DEF Loc
<1>4. \A o : o = w.up.origin \/ o = "" => Rewrite(w, Loc(o)) = Url("", Prefixed(w.prefix, target))
  BY <1>1, <1>2, <1>3 DEF Rewrite
<1> QED
  BY <1>4 DEF Loc

\* Of any configuration and requests: what a website redirects to within itself,
\* as an absolute address or a path, is rewritten to an address that the proxy
\* sends back to the same place of the same website, and its cookies cover that
\* address (rewrite_website_location,
\* rewrite_website_set_cookie and plan_subscription_proxy_request agree).
LEMMA EveryRedirect ==
    ASSUME NEW n, ProxyConfig(n),
           NEW requests, \A r \in requests : r.path \in Seq(STRING) \ {<<>>}
    PROVE  RedirectComesBack(n, requests)
<1> DEFINE Own(path) == path = <<"health">> \/ (Len(path) >= 2 /\ path[1] = "sub")
<1> SUFFICES ASSUME NEW request \in requests, NEW target \in {r.path : r \in requests},
                    LET route == PlanRequest(n, request)
                        w == route.profile
                        full == Prefixed(w.prefix, target)
                        other == {i \in DOMAIN n.websites :
                                    Len(n.websites[i].prefix) > Len(w.prefix)
                                      /\ Matches(n.websites[i].prefix, full)}
                    IN  /\ route.kind = "upstream" /\ route.rewrite
                        /\ w.up.path = <<>> /\ ~Own(full) /\ other = {}
             PROVE  LET route == PlanRequest(n, request)
                        w == route.profile
                        cookies == [domain : {"", w.up.origin},
                                    path : {SubSeq(target, 1, k) : k \in 0..Len(target)}]
                        back == Rewrite(w, Url("", target))
                        again == PlanRequest(n, [method |-> "GET", path |-> back.path])
                    IN  /\ Rewrite(w, Url(w.up.origin, target)) = back
                        /\ \A cookie \in cookies :
                             LET kept == RewriteCookie(w, cookie)
                             IN  kept.domain = "" /\ IsPrefix(kept.path, back.path)
                        /\ again.kind = "upstream" /\ again.url = Url(w.up.origin, target)
  BY DEF RedirectComesBack
<1> DEFINE route == PlanRequest(n, request)
           w == route.profile
           full == Prefixed(w.prefix, target)
           back == Rewrite(w, Url("", target))
           ask == [method |-> "GET", path |-> back.path]
           again == PlanRequest(n, ask)
<1>0. /\ request.path \in Seq(STRING) /\ target \in Seq(STRING) /\ target # <<>>
      /\ w.up.path = <<>> /\ ~Own(full) /\ route.kind = "upstream" /\ route.rewrite
      /\ \A i \in DOMAIN n.websites :
           Matches(n.websites[i].prefix, full) => ~(Len(n.websites[i].prefix) > Len(w.prefix))
  OBVIOUS
<1>1. ToWebsite(n, request.path, route)
  <2>1. /\ Refuses(route) \/ BadToken(request.path, route) => route.kind = "error"
        /\ route = Health => route.kind = "health"
        /\ ToSite(n, request.path, route) => ~route.rewrite
    BY DEF Refuses, BadToken, Error, Health, ToSite
  <2> QED
    BY <1>0, <2>1, Routed
<1>2. PICK i \in DOMAIN n.websites : Best(n.websites, request.path, i) /\ w = n.websites[i]
  BY <1>1 DEF ToWebsite
<1>3. PICK P, W : /\ n.profiles \in Seq(P) /\ n.websites \in Seq(W)
                  /\ \A x \in W : x.prefix \in Seq(STRING)
  BY DEF ProxyConfig
<1>4. \A k \in DOMAIN n.websites : n.websites[k].prefix \in Seq(STRING) /\ k \in Nat
  BY <1>3
<1> HIDE DEF route, w, full, back, again, Own
<1>5. w.prefix \in Seq(STRING)
  BY <1>2, <1>4
<1>6. /\ full \in Seq(STRING) /\ IsPrefix(w.prefix, full)
      /\ UpstreamPath(w.prefix, full) = target
      /\ w.prefix = <<>> => full = target
  BY <1>0, <1>5, PrefixedBack DEF full
<1>7. back = Url("", full) /\ Rewrite(w, Url(w.up.origin, target)) = back
  BY <1>0, Rewritten DEF full, back
<1>8. back.path = full
  <2>1. Url("", full).path = full
    BY DEF Url
  <2> QED
    BY <1>7, <2>1
<1>9. ask.path = full /\ ask.method = "GET"
  BY <1>8
<1> HIDE DEF ask
<1>10. ToWebsite(n, full, again)
  <2>1. full # <<"health">> /\ ~OwnSite(full)
    BY <1>0 DEF Own, OwnSite
  <2>2. \E k \in DOMAIN n.websites : Matches(n.websites[k].prefix, full)
    BY <1>2, <1>6 DEF Matches
  <2> QED
    BY <1>6, <1>9, <2>1, <2>2, Routed DEF again
<1>11. PICK j \in DOMAIN n.websites :
         /\ Best(n.websites, full, j) /\ again.profile = n.websites[j]
         /\ again.url = Join(n.websites[j].up, UpstreamPath(n.websites[j].prefix, full))
  BY <1>10 DEF ToWebsite
<1> DEFINE p == n.websites[i].prefix
           q == n.websites[j].prefix
<1>12. /\ p \in Seq(STRING) /\ q \in Seq(STRING) /\ Len(p) \in Nat /\ Len(q) \in Nat
       /\ i \in Nat /\ j \in Nat /\ w.prefix = p
  BY <1>2, <1>4
<1>13. Len(q) = Len(p) /\ j >= i
  <2>1. ~(Len(q) > Len(p))
    BY <1>0, <1>2, <1>11 DEF Best
  <2>2. Len(q) > Len(p) \/ (Len(q) = Len(p) /\ j >= i)
    BY <1>2, <1>6, <1>11 DEF Best, Matches
  <2> QED
    BY <2>1, <2>2
<1>14. q = p
  <2>1. IsPrefix(q, full) /\ IsPrefix(p, full)
    BY <1>6, <1>11, <1>12 DEF Best, Matches
  <2> HIDE DEF p, q
  <2>2. \A k \in 1..Len(q) : q[k] = p[k]
    BY <1>6, <1>12, <1>13, <2>1, PrefixMeans
  <2> QED
    BY <1>12, <1>13, <2>2, SeqEqual
<1>15. i = j
  <2>1. Matches(n.websites[j].prefix, request.path)
    BY <1>2, <1>14 DEF Best
  <2>2. Len(p) > Len(q) \/ (Len(p) = Len(q) /\ i >= j)
    BY <1>2, <2>1 DEF Best
  <2> HIDE DEF p, q
  <2> QED
    BY <1>12, <1>13, <2>2
<1>16. again.url = Url(w.up.origin, target)
  <2>1. again.url = Join(w.up, target)
    BY <1>2, <1>6, <1>11, <1>15
  <2>2. <<>> \o target = target
    BY <1>0, ConcatEmptySeq
  <2> QED
    BY <1>0, <2>1, <2>2 DEF Join
<1>17. again.kind = "upstream"
  BY <1>10 DEF ToWebsite
<1>18. ASSUME NEW cookie \in [domain : {"", w.up.origin}, path : {SubSeq(target, 1, k) : k \in 0..Len(target)}]
       PROVE  RewriteCookie(w, cookie).domain = "" /\ IsPrefix(RewriteCookie(w, cookie).path, back.path)
  <2> DEFINE kept == RewriteCookie(w, cookie)
  <2>1. kept.domain = "" /\ kept.path = IF w.prefix = <<>> THEN cookie.path ELSE w.prefix
    BY DEF RewriteCookie
  <2>2. PICK k \in 0..Len(target) : cookie.path = SubSeq(target, 1, k)
    OBVIOUS
  <2> DEFINE c == SubSeq(target, 1, k)
  <2>4. IsPrefix(c, target)
    BY <1>0, CutIsPrefix
  <2> HIDE DEF c, kept
  <2>5. IsPrefix(kept.path, back.path)
    BY <1>6, <1>8, <2>1, <2>2, <2>4 DEF c
  <2> QED
    BY <2>1, <2>5 DEF kept
<1> QED
  BY <1>7, <1>16, <1>17, <1>18 DEF again, ask, back, w, route

---------------------------------------------------------------------------
(* What a configuration is normalized to *)

\* Induction over the naturals, for a set.
LEMMA SetInduction ==
    ASSUME NEW S, 0 \in S, \A n \in Nat : n \in S => n + 1 \in S
    PROVE  Nat \subseteq S
<1> SUFFICES ASSUME Nat \ S # {} PROVE FALSE
  OBVIOUS
<1>1. PICK x \in Nat \ S : \A y \in Nat \ S : x <= y
  BY LeastOf
<1>2. x - 1 \in Nat /\ ~ (x <= x - 1) /\ x = (x - 1) + 1
  OBVIOUS
<1> QED
  BY <1>1, <1>2

\* What is kept of the profiles up to each of them.
Keeps(g, profiles, fields, m) ==
    g = [k \in 0..m |-> IF k = 0 THEN <<>> ELSE Keep(g[k - 1], profiles[k], fields)]

LEMMA KeepsExists ==
    ASSUME NEW profiles, NEW fields
    PROVE  \A m \in Nat : \E g : Keeps(g, profiles, fields, m)
<1> DEFINE N == {m \in Nat : \E g : Keeps(g, profiles, fields, m)}
<1>1. 0 \in N
  <2> DEFINE g == [k \in 0..0 |-> <<>>]
  <2>1. Keeps(g, profiles, fields, 0)
    BY DEF Keeps
  <2> QED
    BY <2>1
<1>2. ASSUME NEW m \in Nat, m \in N PROVE m + 1 \in N
  <2>1. PICK g : Keeps(g, profiles, fields, m)
    BY <1>2
  <2> DEFINE h == [k \in 0..(m + 1) |-> IF k <= m THEN g[k] ELSE Keep(g[m], profiles[m + 1], fields)]
  <2>2. ASSUME NEW k \in 0..(m + 1)
        PROVE  h[k] = IF k = 0 THEN <<>> ELSE Keep(h[k - 1], profiles[k], fields)
    <3>1. CASE k = 0
      BY <3>1, <2>1 DEF Keeps
    <3>2. CASE k # 0 /\ k <= m
      <4>1. h[k] = g[k] /\ h[k - 1] = g[k - 1]
        BY <3>2
      <4>2. g[k] = Keep(g[k - 1], profiles[k], fields)
        BY <3>2, <2>1 DEF Keeps
      <4> QED
        BY <4>1, <4>2, <3>2
    <3>3. CASE k = m + 1
      BY <3>3
    <3> QED
      BY <3>1, <3>2, <3>3
  <2>3. h = [k \in 0..(m + 1) |-> IF k = 0 THEN <<>> ELSE Keep(h[k - 1], profiles[k], fields)]
    BY <2>2
  <2>4. Keeps(h, profiles, fields, m + 1)
    BY <2>3 DEF Keeps
  <2> QED
    BY <2>4
<1> HIDE DEF N
<1>3. Nat \subseteq N
  BY <1>1, <1>2, SetInduction
<1> QED
  BY <1>3 DEF N

\* What is kept is a list of what was given.
LEMMA DedupeTypes ==
    ASSUME NEW T, NEW profiles \in Seq(T), NEW fields
    PROVE  Dedupe(profiles, fields).out \in Seq(T)
<1> DEFINE last == Len(profiles)
           upTo == CHOOSE g : g = [k \in 0..last |->
                     IF k = 0 THEN <<>> ELSE Keep(g[k - 1], profiles[k], fields)]
<1>0. last \in Nat
  OBVIOUS
<1>1. \E g : Keeps(g, profiles, fields, last)
  BY <1>0, KeepsExists
<1>2. Keeps(upTo, profiles, fields, last)
  BY <1>1 DEF Keeps
<1>3. \/ Dedupe(profiles, fields) = [ok |-> FALSE, out |-> <<>>]
      \/ Dedupe(profiles, fields) = [ok |-> TRUE, out |-> upTo[last]]
  BY Zenon DEF Dedupe
<1> HIDE DEF upTo
<1> DEFINE N == {k \in Nat : k <= last => upTo[k] \in Seq(T)}
<1>4. 0 \in N
  BY <1>0, <1>2 DEF Keeps
<1>5. ASSUME NEW k \in Nat, k \in N PROVE k + 1 \in N
  <2>1. CASE k + 1 <= last
    <3>1. upTo[k] \in Seq(T) /\ profiles[k + 1] \in T
      BY <1>0, <1>5, <2>1
    <3>2. upTo[k + 1] = Keep(upTo[k], profiles[k + 1], fields)
      BY <1>0, <1>2, <2>1 DEF Keeps
    <3> HIDE DEF last
    <3>3. upTo[k + 1] \in Seq(T)
      BY <3>1, <3>2 DEF Keep
    <3> QED
      BY <3>3
  <2> QED
    BY <2>1, <1>0
<1> HIDE DEF N
<1>6. Nat \subseteq N
  BY <1>4, <1>5, SetInduction
<1>7. upTo[last] \in Seq(T)
  BY <1>0, <1>6 DEF N
<1>8. <<>> \in Seq(T)
  OBVIOUS
<1>9. Dedupe(profiles, fields).out \in {<<>>, upTo[last]}
  <2> HIDE DEF last
  <2> QED
    BY <1>3
<1> QED
  BY <1>7, <1>8, <1>9

LEMMA NormalizeTypes ==
    ASSUME NEW c \in ProxyInputs
    PROVE  ProxyConfig(Normalize(c))
<1> DEFINE P == ToSet(c.profiles) \cup {c.single}
           W == ToSet(c.websites)
           given == IF c.single.site # "" \/ c.single.up # NoUrl
                    THEN Append(c.profiles, c.single) ELSE c.profiles
<1>1. /\ c.profiles \in Seq(ToSet(c.profiles)) /\ c.websites \in Seq(W)
      /\ \A w \in W : w.prefix \in Seq(STRING)
  BY ProxyInputsAssumption
<1>2. given \in Seq(P)
  <2> DEFINE S == ToSet(c.profiles)
  <2>1. c.profiles \in Seq(S)
    BY <1>1
  <2> HIDE DEF S
  <2>2. c.profiles \in Seq(S \cup {c.single})
    BY <2>1
  <2>3. Append(c.profiles, c.single) \in Seq(S \cup {c.single})
    BY <2>2
  <2> QED
    BY <2>2, <2>3 DEF S
<1>3. /\ Normalize(c).profiles = Dedupe(given, {"site"}).out
      /\ Normalize(c).websites = Dedupe(c.websites, {"site", "prefix"}).out
  BY DEF Normalize
<1> HIDE DEF P, W, given
<1>4. /\ Dedupe(given, {"site"}).out \in Seq(P)
      /\ Dedupe(c.websites, {"site", "prefix"}).out \in Seq(W)
  BY <1>1, <1>2, DedupeTypes
<1> QED
  BY <1>1, <1>3, <1>4 DEF ProxyConfig

---------------------------------------------------------------------------
(* The planners of the proxy, whatever they are asked *)

\* What is asked is one of the inputs.
ProxyAsked ==
    /\ topic = "proxy" => question \in ProxyInputs
    /\ topic = "http" => question \in RawInputs

LEMMA ProxyAlwaysAsked == ProxySpec => []ProxyAsked
<1>1. NothingAsked => ProxyAsked
  BY DEF NothingAsked, ProxyAsked
<1>2. ProxyAsked /\ [ProxyAsk \/ topic' \notin {"proxy", "http"}]_planner => ProxyAsked'
  BY DEF ProxyAsked, ProxyAsk, AskProxy, AskHttp, Ask, planner
<1> QED
  BY <1>1, <1>2, PTL DEF ProxySpec

\* Whatever a client sends, however the socket cuts it and whatever an upstream
\* answers: the body passed on is the announced one, byte by byte, no header of
\* the connection goes along, and the client gets the whole answer with its
\* length or one of the proxy's own (read_subscription_proxy_http_request,
\* upstream_forwarded_headers, plan_subscription_proxy_response).
THEOREM ExchangesExact == ProxySpec => []ExchangeIsExact
<1>1. ProxyAsked => ExchangeIsExact
  <2> SUFFICES ASSUME ProxyAsked, topic = "http"
               PROVE  ExchangeExact(question, {"site", "website", "none"}, Answers)
    BY DEF ExchangeIsExact
  <2>1. /\ question.head \in Nat \ {0} /\ question.total \in Nat
        /\ \A up \in Answers : up.size \in Nat
    BY ProxyInputsAssumption DEF ProxyAsked
  <2> QED
    BY <2>1, EveryExchange
<1> QED
  BY <1>1, ProxyAlwaysAsked, PTL

\* Of any settings of the proxy and any requests, a subscription goes to the
\* panel of the site it names or nowhere, every other request to a website, and
\* 502 is answered where an upstream is asked, and else only to a subscription
\* whose token cannot be decoded
\* (normalize_subscription_proxy_config, plan_subscription_proxy_request,
\* handle_subscription_proxy_request).
THEOREM SubscriptionsReachOwner == ProxySpec => []SubscriptionGoesToOwner
<1>1. ProxyAsked => SubscriptionGoesToOwner
  <2> SUFFICES ASSUME ProxyAsked, topic = "proxy"
               PROVE  RoutesToOwner(Normalize(question), Requests)
    BY DEF SubscriptionGoesToOwner
  <2>1. ProxyConfig(Normalize(question))
    BY NormalizeTypes DEF ProxyAsked
  <2>2. \A request \in Requests : request.path \in Seq(STRING)
    BY ProxyInputsAssumption
  <2> QED
    BY <2>1, <2>2, EveryRoute
<1> QED
  BY <1>1, ProxyAlwaysAsked, PTL

\* Of any settings and any requests, a browser that follows a redirect of a
\* website within itself reaches, through the proxy, the page it names and
\* brings the cookies along (rewrite_website_location,
\* rewrite_website_set_cookie, plan_subscription_proxy_request).
THEOREM RedirectsComeBack == ProxySpec => []RedirectReturns
<1>1. ProxyAsked => RedirectReturns
  <2> DEFINE asked == {r \in Requests : r.method = "GET"}
  <2> SUFFICES ASSUME ProxyAsked, topic = "proxy"
               PROVE  RedirectComesBack(Normalize(question), asked)
    BY DEF RedirectReturns
  <2>1. ProxyConfig(Normalize(question))
    BY NormalizeTypes DEF ProxyAsked
  <2>2. \A request \in asked : request.path \in Seq(STRING) \ {<<>>}
    BY ProxyInputsAssumption
  <2> HIDE DEF asked
  <2> QED
    BY <2>1, <2>2, EveryRedirect
<1> QED
  BY <1>1, ProxyAlwaysAsked, PTL

===========================================================================
