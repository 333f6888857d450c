---------------------------- MODULE SubscriptionProxy --------------------------
(***************************************************************************)
(* The subscription proxy's servers and its certificate.                   *)
(*                                                                         *)
(* Each run of the agent makes a manager.  Step by step it writes the files *)
(* the panel sent, makes a key when there is no key file, makes a signing  *)
(* request, and starts the challenge server and the main server, over TLS  *)
(* when there are a certificate file and a key file.  The agent may end    *)
(* between two steps and within one.  The panel learns of the request from *)
(* the agent's status, orders a certificate, has its challenge served by   *)
(* the agent and sends the certificate with the configuration of a later   *)
(* run.                                                                    *)
(***************************************************************************)
EXTENDS Integers

CONSTANTS
    Configs,     \* the settings [valid, http, fallback, domain] the panel may send
    Faults,      \* which kinds of fault may happen
    MaxFaults,   \* bound: faults in one behaviour
    MaxOrders,   \* bound: certificates ordered
    MaxChanges   \* bound: times the settings change

\* write: a file cannot be written; openssl: a key or a request cannot be made;
\* bind: a port is taken; loss: the key or the certificate file is lost; restart:
\* the agent restarts; accept: a listener fails.
FaultKinds == {"write", "openssl", "bind", "loss", "restart", "accept"}

ASSUME ConstantsAssumption ==
    /\ Configs \subseteq [valid : BOOLEAN, http : BOOLEAN, fallback : BOOLEAN, domain : BOOLEAN]
    /\ Faults \subseteq FaultKinds
    /\ {MaxFaults, MaxOrders, MaxChanges} \subseteq Nat

VARIABLES
    settings,  \* the proxy's settings: valid upstreams, http_listen, allow_http_fallback,
               \* and whether certificate_domain is set
    zerossl,   \* what the panel sends of the order: its challenge and, issued, the certificate
    applied,   \* the settings and the zerossl part the manager was made with
    disk,      \* the key, the certificate (by the number of its key) and the challenge
    keys,      \* keys made so far; a key is its number, 0 is none
    step,      \* what a start does next, "none" outside of a start
    draft,     \* the certificate's part of the status, while a start makes it
    manager,   \* SubscriptionProxyRuntimeManager, or NoManager until its start is over
    seen,      \* the status the panel has got last
    order,     \* the panel's order at the certificate authority
    faults, changes,   \* how many so far
    harmed,    \* observer: a fault that nothing in the agent makes good
    wasHttps,  \* observer: the main server has been started over TLS
    lost       \* observer: the files that were lost and not written since

panel == <<settings, zerossl, seen, order, changes>>
agent == <<applied, disk, keys, step, draft, manager>>
observers == <<harmed, wasHttps, lost>>
vars == <<panel, agent, faults, observers>>

Broken == -1   \* a key or a certificate file that was cut short
NoServer == [mode |-> "none", cert |-> 0, key |-> 0, alive |-> FALSE]
NoManager == [none |-> TRUE]

\* SubscriptionProxyStatus; state "" is the default of a manager that applied nothing.
NoStatus == [state |-> "", mode |-> "", need |-> FALSE, csr |-> 0, ready |-> FALSE]
NoDraft == [need |-> FALSE, csr |-> 0, ready |-> FALSE]

Init ==
    /\ settings \in Configs
    /\ zerossl = [challenge |-> 0, cert |-> 0]
    /\ applied = [settings |-> settings, zerossl |-> zerossl]
    /\ disk = [key |-> 0, cert |-> 0, challenge |-> 0]
    /\ keys = 0
    /\ step = "none" /\ draft = NoDraft
    /\ manager = NoManager
    /\ seen = NoStatus
    /\ order = [id |-> 0, key |-> 0, open |-> FALSE]
    /\ faults = 0 /\ changes = 0 /\ harmed = FALSE /\ wasHttps = FALSE /\ lost = {}

Running == manager # NoManager
Fault(k) == k \in Faults /\ faults < MaxFaults /\ faults' = faults + 1

\* A fault that the agent does not make good before its next run.
Harm(k) == Fault(k) /\ harmed' = TRUE

-----------------------------------------------------------------------------
(* apply_and_start_with_file_system, called once by each manager.          *)

\* start_subscription_proxy_manager.  Settings that are not valid end it before
\* the status is touched.
Start ==
    /\ ~Running /\ step = "none"
    /\ applied' = [settings |-> settings, zerossl |-> zerossl]
    /\ IF settings.valid
         THEN step' = "challenge" /\ UNCHANGED manager
         ELSE /\ manager' = [status |-> NoStatus, main |-> NoServer, http |-> FALSE]
              /\ UNCHANGED step
    /\ UNCHANGED <<panel, disk, keys, draft, faults, observers>>

\* prepare_subscription_proxy_certificate_status_with_file_writes, in four steps:
\* what the panel sent is written at each start, in place.
WriteChallenge ==
    /\ step = "challenge" /\ step' = "cert"
    /\ LET sent == applied.zerossl.challenge
       IN  \/ /\ disk' = [disk EXCEPT !.challenge = IF sent = 0 THEN @ ELSE sent]
              /\ draft' = [draft EXCEPT !.ready = (sent # 0)]
              /\ UNCHANGED <<faults, harmed>>
           \/ /\ sent # 0 /\ Harm("write")
              /\ \E c \in {disk.challenge, 0, sent} : disk' = [disk EXCEPT !.challenge = c]
              /\ UNCHANGED draft
    /\ UNCHANGED <<panel, applied, keys, manager, wasHttps, lost>>

WriteCertificate ==
    /\ step = "cert"
    /\ step' = IF applied.settings.domain THEN "key" ELSE "servers"
    /\ LET sent == applied.zerossl.cert
       IN  \/ /\ disk' = [disk EXCEPT !.cert = IF sent = 0 THEN @ ELSE sent]
              /\ UNCHANGED <<faults, harmed>>
           \/ /\ sent # 0 /\ Harm("write")
              /\ \E c \in {disk.cert, Broken, sent} : disk' = [disk EXCEPT !.cert = c]
    /\ lost' = {f \in lost : disk'[f] = 0}
    /\ UNCHANGED <<panel, applied, keys, draft, manager, wasHttps>>

\* Mutant of MakesKey: every start makes a key.
MakesKeyAlways == TRUE

\* ensure_subscription_proxy_csr_with_openssl: any key file that is there is taken.
MakesKey == disk.key = 0

\* openssl genrsa, which may fail and leave a part of the file.
MakeKey ==
    /\ step = "key"
    /\ \/ /\ ~MakesKey /\ step' = "request"
          /\ UNCHANGED <<disk, keys, faults, harmed>>
       \/ /\ MakesKey /\ step' = "request"
          /\ keys' = keys + 1 /\ disk' = [disk EXCEPT !.key = keys + 1]
          /\ UNCHANGED <<faults, harmed>>
       \/ /\ MakesKey /\ Harm("openssl") /\ step' = "servers"
          /\ \E k \in {0, Broken} : disk' = [disk EXCEPT !.key = k]
          /\ UNCHANGED keys
    /\ lost' = {f \in lost : disk'[f] = 0}
    /\ UNCHANGED <<panel, applied, draft, manager, wasHttps>>

\* openssl req, which wants a whole key.  A certificate is called for only after it.
MakeRequest ==
    /\ step = "request" /\ step' = "servers"
    /\ \/ /\ disk.key \notin {0, Broken}
          /\ draft' = [draft EXCEPT !.csr = disk.key, !.need = (disk.cert = 0)]
          /\ UNCHANGED <<faults, harmed>>
       \/ disk.key \in {0, Broken} /\ UNCHANGED <<draft, faults, harmed>>
       \/ disk.key \notin {0, Broken} /\ Harm("openssl") /\ UNCHANGED draft
    /\ UNCHANGED <<panel, applied, disk, keys, manager, wasHttps, lost>>

\* Mutant of ServeMode: the fallback wins.
ServeModeFallback ==
    IF applied.settings.fallback THEN "http"
    ELSE IF disk.cert # 0 /\ disk.key # 0 THEN "https" ELSE "error"

\* plan_subscription_proxy_serve_mode: a file that is there counts, whole or not.
ServeMode ==
    IF disk.cert # 0 /\ disk.key # 0 THEN "https"
    ELSE IF applied.settings.fallback THEN "http"
    ELSE "error"

\* sync_servers_for_apply_plan: the challenge server first, then the main one;
\* TLS wants a certificate of its key.
Bound(taken) ==
    /\ applied.settings.http => taken # "http"
    /\ ServeMode # "error" => taken # "main"
    /\ ServeMode = "https" => disk.cert = disk.key /\ disk.key # Broken

\* plan_subscription_proxy_apply.
PlannedStatus ==
    [state |-> IF ServeMode = "error" THEN "error" ELSE "running", mode |-> ServeMode,
     need |-> draft.need, csr |-> draft.csr, ready |-> draft.ready]

Servers(taken) ==
    [main |-> IF Bound(taken) /\ ServeMode # "error"
                THEN [mode |-> ServeMode, cert |-> disk.cert, key |-> disk.key, alive |-> TRUE]
                ELSE NoServer,
     http |-> applied.settings.http /\ taken # "http"]

\* Mutant of Started: the status is left as it was planned.
StartedAnyway(taken) ==
    [status |-> PlannedStatus, main |-> Servers(taken).main, http |-> Servers(taken).http]

\* The servers, and the status corrected when they could not be started.
Started(taken) ==
    [status |-> IF Bound(taken) THEN PlannedStatus
                ELSE [PlannedStatus EXCEPT !.state = "error", !.mode = "error"],
     main |-> Servers(taken).main,
     http |-> Servers(taken).http]

\* An end between the two servers leaves what an end before them leaves: nothing.
StartServers ==
    /\ step = "servers" /\ step' = "none" /\ draft' = NoDraft
    /\ \/ manager' = Started("nothing") /\ UNCHANGED <<faults, harmed>>
       \/ Harm("bind") /\ \E t \in {"http", "main"} : manager' = Started(t)
    /\ wasHttps' = (wasHttps \/ manager'.main.mode = "https")
    /\ UNCHANGED <<panel, applied, disk, keys, lost>>

\* The run ends: the manager is dropped, which stops both servers.
End ==
    /\ Running
    /\ manager' = NoManager
    /\ UNCHANGED <<panel, applied, disk, keys, step, draft, observers>>

\* The panel asks for a reload when it has something new.
Reload == [settings |-> settings, zerossl |-> zerossl] # applied /\ End /\ UNCHANGED faults
Restart == Fault("restart") /\ End

\* The agent ends within a start: the file it is at is as it was or cut short.
\* The next start writes challenge and certificate again, and takes the key.
Crash ==
    /\ step # "none" /\ Fault("restart")
    /\ step' = "none" /\ draft' = NoDraft
    /\ \/ UNCHANGED disk
       \/ /\ step = "challenge" /\ applied.zerossl.challenge # 0
          /\ disk' = [disk EXCEPT !.challenge = 0]
       \/ /\ step = "cert" /\ applied.zerossl.cert # 0
          /\ disk' = [disk EXCEPT !.cert = Broken]
       \/ /\ step = "key" /\ MakesKey
          /\ disk' = [disk EXCEPT !.key = Broken]
    /\ lost' = {f \in lost : disk'[f] = 0}
    /\ UNCHANGED <<panel, applied, keys, manager, harmed, wasHttps>>

-----------------------------------------------------------------------------
(* The status, the panel and the certificate authority.                    *)

Report ==
    /\ Running
    /\ seen' = manager.status
    /\ UNCHANGED <<settings, zerossl, order, changes, agent, faults, observers>>

\* The panel orders a certificate: one is needed, or the old one runs out.
Order ==
    /\ order.id < MaxOrders /\ ~order.open
    /\ seen.csr # 0 /\ (seen.need \/ zerossl.cert # 0)
    /\ order' = [id |-> order.id + 1, key |-> seen.csr, open |-> TRUE]
    /\ zerossl' = [challenge |-> order.id + 1, cert |-> zerossl.cert]
    /\ UNCHANGED <<settings, seen, changes, agent, faults, observers>>

\* The authority fetches the challenge from the agent (handle_subscription_proxy_
\* http_request), and the panel sends the certificate on.
Issue ==
    /\ order.open /\ Running /\ manager.http
    /\ disk.challenge = order.id
    /\ order' = [order EXCEPT !.open = FALSE]
    /\ zerossl' = [zerossl EXCEPT !.cert = order.key]
    /\ UNCHANGED <<settings, seen, changes, agent, faults, observers>>

Configure ==
    /\ changes < MaxChanges /\ changes' = changes + 1
    /\ settings' \in Configs \ {settings}
    /\ UNCHANGED <<zerossl, seen, order, agent, faults, observers>>

\* The key file or the certificate file is lost, at any moment.
LoseFile(f) ==
    /\ disk[f] # 0 /\ Harm("loss")
    /\ disk' = [disk EXCEPT ![f] = 0]
    /\ lost' = lost \cup {f}
    /\ UNCHANGED <<panel, applied, keys, step, draft, manager, wasHttps>>

\* An accept call fails and ends its server unnoticed.
AcceptFails ==
    /\ Running /\ manager.main.alive /\ Harm("accept")
    /\ manager' = [manager EXCEPT !.main.alive = FALSE]
    /\ UNCHANGED <<panel, applied, disk, keys, step, draft, wasHttps, lost>>

StartStep == WriteChallenge \/ WriteCertificate \/ MakeKey \/ MakeRequest \/ StartServers

Next ==
    \/ Start \/ StartStep \/ Reload \/ Restart \/ Crash \/ Report \/ Order \/ Issue
    \/ Configure \/ (\E f \in {"key", "cert"} : LoseFile(f)) \/ AcceptFails

Spec == Init /\ [][Next]_vars

\* A run follows the other and its start goes on, the status is reported with
\* every tick, and panel and authority do their part.
FairSpec ==
    /\ Spec
    /\ WF_vars(Start) /\ WF_vars(StartStep) /\ WF_vars(Reload) /\ WF_vars(Report)
    /\ WF_vars(seen.need /\ Order) /\ SF_vars(Issue)

-----------------------------------------------------------------------------
(* Properties.                                                             *)

File == Nat \cup {Broken}
Draft == [need : BOOLEAN, csr : File, ready : BOOLEAN]
Status == [state : {"", "running", "error"}, mode : {"", "https", "http", "error"},
           need : BOOLEAN, csr : File, ready : BOOLEAN]
Server == [mode : {"none", "https", "http"}, cert : File, key : File, alive : BOOLEAN]
Zerossl == [challenge : 0..MaxOrders, cert : File]

TypeOK ==
    /\ settings \in Configs
    /\ zerossl \in Zerossl
    /\ applied \in [settings : Configs, zerossl : Zerossl]
    /\ disk \in [key : File, cert : File, challenge : 0..MaxOrders]
    /\ keys \in Nat
    /\ step \in {"none", "challenge", "cert", "key", "request", "servers"}
    /\ draft \in Draft
    /\ manager \in {NoManager} \cup [status : Status, main : Server, http : BOOLEAN]
    /\ seen \in Status
    /\ order \in [id : 0..MaxOrders, key : File, open : BOOLEAN]
    /\ faults \in 0..MaxFaults /\ changes \in 0..MaxChanges
    /\ harmed \in BOOLEAN /\ wasHttps \in BOOLEAN
    /\ lost \subseteq {"key", "cert"}

\* The status says "running" exactly when the main server was started, in the
\* mode it was started in, and TLS has the certificate of its key, whichever of
\* the steps before failed (apply_and_start_with_file_system).
StatusIsServer ==
    Running =>
      /\ manager.status.state = "running" <=> manager.main.mode # "none"
      /\ manager.main.mode # "none" => manager.main.mode = manager.status.mode
      /\ manager.main.mode = "https" => manager.main.cert = manager.main.key

\* Once subscriptions were served over TLS a later run serves them in the clear
\* only for want of a key file or of a certificate file that was lost and that
\* its start did not bring back: a file cut short, a write or an openssl that
\* fails, a new order and a crash at any step are not enough
\* (plan_subscription_proxy_serve_mode, with allow_http_fallback).
NoDowngrade ==
    wasHttps /\ Running /\ manager.main.mode = "http" => \E f \in lost : manager.main[f] = 0

\* Without a fault of those that count as harm (a failed write or openssl, a
\* taken port, a lost file, a dead listener), an agent whose settings name a
\* certificate's domain and let it serve the challenge ends up with TLS, one
\* order after the other and with restarts at any step of a start, but for one:
\* an end within openssl genrsa leaves a part of a key file, which every later
\* start takes for the key and none replaces
\* (ensure_subscription_proxy_csr_with_openssl).
CertificateArrives ==
    []~harmed =>
      <>[](settings.valid /\ settings.http /\ settings.domain /\ Running =>
             manager.main.mode = "https" \/ disk.key = Broken)

-----------------------------------------------------------------------------
(* Inductive invariant.                                                    *)

\* A file that was once used is there, in whatever state, or was lost.
FilesStay == wasHttps => \A f \in {"key", "cert"} : disk[f] # 0 \/ f \in lost

\* A manager comes to be at the end of a start.
StartOver == Running => step = "none"

==============================================================================
