----------------------------- MODULE RealtimeLoop -----------------------------
(***************************************************************************)
(* How realtime messages of the panels drive the runtime loop.             *)
(*                                                                         *)
(* Each node has a worker with a connection of its own.  It acknowledges a *)
(* message, puts an event in the queue of the loop and waits for the reply *)
(* before it reads on.  The loop takes an event only while it sleeps; a    *)
(* user refresh is run and answered, a reload ends the loop, and with it   *)
(* the queue, the connections and the workers.  What a tick does to the    *)
(* core is the subject of UserSync; here it is one step with the outcomes  *)
(* that a worker's reply depends on.                                       *)
(***************************************************************************)
EXTENDS Naturals, Sequences

CONSTANTS
    Nodes,           \* nodes with a realtime worker
    None,            \* no event is being handled
    Faults,          \* which kinds of fault the environment may inject
    MaxRev,          \* bound: user revisions a panel publishes for one node
    MaxCfg,          \* bound: node configurations the panel publishes
    MaxFaults        \* bound: faults injected in one behaviour

\* net: a connection breaks; panel: a user request fails; tick: a tick fails;
\* status: the status report gets no answer; stop: the agent is shut down.
FaultKinds == {"net", "panel", "tick", "status", "stop"}

ASSUME ConstantsAssumption ==
    /\ None \notin Nodes
    /\ Faults \subseteq FaultKinds
    /\ MaxRev \in Nat
    /\ MaxCfg \in Nat
    /\ MaxFaults \in Nat

VARIABLES
    users,    \* users[n]: user revision of n on the panel
    cfg,      \* version of the node configuration on the panel
    conn,     \* nodes whose connection works
    wire,     \* wire[n]: messages on their way to the worker of n
    wpc,      \* wpc[n]: where the worker of n is
    wmsg,     \* wmsg[n]: the message it is handling
    queue,    \* the event channel: the nodes whose workers sent the events
    reply,    \* reply[n]: the reply to the event of n, "none" before it
    reports,  \* panel_report_interval = 1 (a machine panel exists)
    lenient,  \* machine.continue_on_error
    lpc,      \* where the loop is
    exitTo,   \* "boot" after a reload signal, "down" after an error
    event,    \* the node whose event is being handled, or None
    todo,     \* nodes the refresh has not asked about yet
    skipped,  \* nodes whose request failed in this refresh
    tags,     \* nodes this refresh found users to bring to the core for
    fetched,  \* fetched[n]: user revision in the cache and its file
    ticked,   \* ticked[n]: user revision a tick brought to the core
    inPlan,   \* nodes whose users the loop's runtime plan has
    missing,  \* nodes whose users the last tick for them left out
    loopCfg,  \* configuration the loop was built from
    faults    \* faults injected so far

panelVars == <<users, cfg>>
workerVars == <<conn, wire, wpc, wmsg>>
options == <<reports, lenient>>
userVars == <<fetched, ticked, inPlan, missing>>
loopVars == <<lpc, exitTo, event, todo, skipped, tags, userVars, loopCfg>>
vars == <<panelVars, workerVars, queue, reply, options, loopVars, faults>>

Message == [kind : {"users", "config"}, at : Nat]
NoMessage == [kind |-> "users", at |-> 0]

TypeOK ==
    /\ users \in [Nodes -> 0..MaxRev]
    /\ cfg \in 0..MaxCfg
    /\ conn \in SUBSET Nodes
    /\ wire \in [Nodes -> Seq(Message)]
    /\ wpc \in [Nodes -> {"off", "dial", "serve", "wait"}]
    /\ wmsg \in [Nodes -> Message]
    /\ queue \in Seq(Nodes)
    /\ reply \in [Nodes -> {"none", "queued", "applied", "failed"}]
    /\ reports \in BOOLEAN
    /\ lenient \in BOOLEAN
    /\ lpc \in {"down", "boot", "refresh", "select", "sleep", "exit"}
    /\ exitTo \in {"boot", "down"}
    /\ event \in Nodes \cup {None}
    /\ todo \in SUBSET Nodes
    /\ skipped \in SUBSET Nodes
    /\ tags \in SUBSET Nodes
    /\ fetched \in [Nodes -> 0..MaxRev]
    /\ ticked \in [Nodes -> 0..MaxRev]
    /\ inPlan \in SUBSET Nodes
    /\ missing \in SUBSET Nodes
    /\ loopCfg \in 0..MaxCfg
    /\ faults \in 0..MaxFaults

Init ==
    /\ users = [n \in Nodes |-> 0]
    /\ cfg = 0
    /\ conn = {}
    /\ wire = [n \in Nodes |-> <<>>]
    /\ wpc = [n \in Nodes |-> "off"]
    /\ wmsg = [n \in Nodes |-> NoMessage]
    /\ queue = <<>>
    /\ reply = [n \in Nodes |-> "none"]
    /\ reports \in BOOLEAN
    /\ lenient \in BOOLEAN
    /\ lpc = "boot"
    /\ exitTo = "boot"
    /\ event = None
    /\ todo = {}
    /\ skipped = {}
    /\ tags = {}
    /\ fetched = [n \in Nodes |-> 0]
    /\ ticked = [n \in Nodes |-> 0]
    /\ inPlan = {}
    /\ missing = {}
    /\ loopCfg = 0
    /\ faults = 0

Fault(k) == k \in Faults /\ faults < MaxFaults /\ faults' = faults + 1

-----------------------------------------------------------------------------
(* The panels: a change is published, and announced on a connection that   *)
(* works.                                                                  *)

PanelPublish(n) ==
    /\ users[n] < MaxRev
    /\ users' = [users EXCEPT ![n] = @ + 1]
    /\ wire' = IF n \in conn
                 THEN [wire EXCEPT ![n] = Append(@, [kind |-> "users", at |-> users'[n]])]
                 ELSE wire
    /\ UNCHANGED <<cfg, conn, wpc, wmsg, queue, reply, options, loopVars, faults>>

PanelReconfigure ==
    /\ cfg < MaxCfg
    /\ cfg' = cfg + 1
    /\ wire' = [n \in Nodes |-> IF n \in conn
                                  THEN Append(wire[n], [kind |-> "config", at |-> cfg'])
                                  ELSE wire[n]]
    /\ UNCHANGED <<users, conn, wpc, wmsg, queue, reply, options, loopVars, faults>>

-----------------------------------------------------------------------------
(* The workers (run_realtime_runtime_worker).                              *)

Connect(n) ==
    /\ wpc[n] = "dial"
    /\ wpc' = [wpc EXCEPT ![n] = "serve"]
    /\ conn' = conn \cup {n}
    /\ UNCHANGED <<panelVars, wire, wmsg, queue, reply, options, loopVars, faults>>

\* The connection breaks and what was on it is lost.  A worker that reads from
\* it dials again; one that waits for its reply finds out when it answers.
Disconnect(n) ==
    /\ Fault("net") /\ n \in conn
    /\ conn' = conn \ {n}
    /\ wire' = [wire EXCEPT ![n] = <<>>]
    /\ wpc' = IF wpc[n] = "serve" THEN [wpc EXCEPT ![n] = "dial"] ELSE wpc
    /\ UNCHANGED <<panelVars, wmsg, queue, reply, options, loopVars>>

\* Mutant of Receive: the worker reads on and does not wait for the reply.
ReceiveNoWait(n) ==
    /\ wpc[n] = "serve" /\ wire[n] # <<>>
    /\ wmsg' = [wmsg EXCEPT ![n] = Head(wire[n])]
    /\ wire' = [wire EXCEPT ![n] = Tail(@)]
    /\ queue' = Append(queue, n)
    /\ UNCHANGED <<panelVars, conn, wpc, reply, options, loopVars, faults>>

\* send_realtime_runtime_event: the receipt "received", the event, the wait.
Receive(n) ==
    /\ wpc[n] = "serve" /\ wire[n] # <<>>
    /\ wmsg' = [wmsg EXCEPT ![n] = Head(wire[n])]
    /\ wire' = [wire EXCEPT ![n] = Tail(@)]
    /\ queue' = Append(queue, n)
    /\ wpc' = [wpc EXCEPT ![n] = "wait"]
    /\ UNCHANGED <<panelVars, conn, reply, options, loopVars, faults>>

\* The reply is sent as the final receipt, if the connection still works.
Answer(n) ==
    /\ wpc[n] = "wait" /\ reply[n] # "none"
    /\ reply' = [reply EXCEPT ![n] = "none"]
    /\ wpc' = [wpc EXCEPT ![n] = IF n \in conn THEN "serve" ELSE "dial"]
    /\ wmsg' = [wmsg EXCEPT ![n] = NoMessage]
    /\ UNCHANGED <<panelVars, conn, wire, queue, options, loopVars, faults>>

-----------------------------------------------------------------------------
(* The loop (run_agent_once, run_runtime_loop_async_with_events).          *)

\* The top of the loop, or an event: every node is to be asked about.
StartRefresh == lpc' = "refresh" /\ todo' = Nodes /\ skipped' = {} /\ tags' = {}

\* bootstrap_from_config: the configuration is fetched, and the workers are
\* started before the first tick.
Boot ==
    /\ lpc \in {"boot", "down"}
    /\ loopCfg' = cfg
    /\ wpc' = [n \in Nodes |-> "dial"]
    /\ StartRefresh
    /\ UNCHANGED <<panelVars, conn, wire, wmsg, queue, reply, options, exitTo, event,
                   userVars, faults>>

\* The nodes are asked about in the order the plan has them, whatever it is.
Asked(n) == lpc = "refresh" /\ todo # {} /\ n = CHOOSE k \in todo : TRUE

\* refresh_users, one node at a time, for a tick or for an event: there is
\* something to do for a node whose users changed, and for one whose users the
\* plan lacks.  What an earlier tick left out is neither.
Refresh(n) ==
    /\ Asked(n)
    /\ fetched' = [fetched EXCEPT ![n] = users[n]]
    /\ tags' = IF users[n] # fetched[n] \/ (users[n] > 0 /\ n \notin inPlan)
                 THEN tags \cup {n} ELSE tags
    /\ todo' = todo \ {n}
    /\ UNCHANGED <<panelVars, workerVars, queue, reply, options, lpc, exitTo, event,
                   skipped, ticked, inPlan, missing, loopCfg, faults>>

\* The handler ends: the reply of the event, if there is one, is r.
Finish(r) ==
    /\ reply' = IF event = None THEN reply ELSE [reply EXCEPT ![event] = r]
    /\ event' = None

RefreshFails(n) ==
    /\ Asked(n) /\ Fault("panel")
    /\ \/ /\ lenient
          /\ skipped' = skipped \cup {n}
          /\ todo' = todo \ {n}
          /\ UNCHANGED <<reply, event, lpc, exitTo>>
       \/ /\ ~lenient
          /\ Finish("failed")
          /\ lpc' = "exit" /\ exitTo' = "down"
          /\ UNCHANGED <<todo, skipped>>
    /\ UNCHANGED <<panelVars, workerVars, queue, options, tags, userVars, loopCfg>>

\* All nodes were asked.
Refreshed == lpc = "refresh" /\ todo = {}

\* An event that found nothing to do is answered without a tick.  After an event
\* the loop is at its top, and asks again.
NothingToDo ==
    /\ Refreshed /\ event # None /\ tags = {}
    /\ Finish("applied") /\ StartRefresh
    /\ UNCHANGED <<panelVars, workerVars, queue, options, exitTo, userVars, loopCfg, faults>>

\* What a tick does with the users: the changed ones go to the core as deltas, or
\* the plan is rebuilt with those of every node; which one depends on the core
\* (UserSync).  With continue_on_error the nodes whose inbound is missing are left
\* out, and a missing inbound ends the deltas of the nodes after it (Deferred).
TickUsers ==
    \E rebuilt \in BOOLEAN : LET for == IF rebuilt THEN Nodes ELSE tags IN
      \E left \in SUBSET {n \in for : fetched[n] > 0} :
        /\ left # {} => lenient
        /\ ticked' = [n \in Nodes |-> IF n \in for \ left THEN fetched[n] ELSE ticked[n]]
        /\ missing' = (missing \ for) \cup left
        /\ inPlan' = IF rebuilt THEN {n \in Nodes : fetched[n] > 0} ELSE inPlan

\* run_tick of an event: nothing is reported, and the worker gets its reply, the
\* same one whether its users went to the core or were left out.
EventTick ==
    /\ Refreshed /\ event # None /\ tags # {}
    /\ TickUsers
    /\ Finish("applied") /\ StartRefresh
    /\ UNCHANGED <<panelVars, workerVars, queue, options, exitTo, fetched, loopCfg, faults>>

\* run_tick of the timer: the status answer may ask for a reload; an answer
\* that does not come asks for nothing.
TimerTick ==
    /\ Refreshed /\ event = None
    /\ TickUsers
    /\ \/ /\ lpc' = IF reports /\ loopCfg # cfg THEN "exit" ELSE "select"
          /\ UNCHANGED faults
       \/ lpc' = "select" /\ reports /\ Fault("status")
    /\ exitTo' = "boot" /\ tags' = {} /\ skipped' = {}
    /\ UNCHANGED <<panelVars, workerVars, queue, reply, options, event, todo, fetched,
                   loopCfg>>

\* The plan cannot be rebuilt or applied: the error ends the agent.
TickFails ==
    /\ Refreshed /\ (event # None => tags # {}) /\ Fault("tick")
    /\ Finish("failed")
    /\ lpc' = "exit" /\ exitTo' = "down"
    /\ UNCHANGED <<panelVars, workerVars, queue, options, todo, skipped, tags, userVars,
                   loopCfg>>

\* Mutant of TakeEvent: a reload is answered and the loop goes on.
TakeEventNoSignal ==
    /\ lpc \in {"select", "sleep"} /\ queue # <<>>
    /\ queue' = Tail(queue)
    /\ IF wmsg[Head(queue)].kind = "config"
         THEN /\ reply' = [reply EXCEPT ![Head(queue)] = "queued"]
              /\ event' = None
         ELSE event' = Head(queue) /\ UNCHANGED reply
    /\ StartRefresh
    /\ UNCHANGED <<panelVars, workerVars, options, exitTo, userVars, loopCfg, faults>>

\* Mutant of TakeEvent: the worker is answered before the refresh.
TakeEventAnswered ==
    /\ lpc \in {"select", "sleep"} /\ queue # <<>>
    /\ queue' = Tail(queue)
    /\ IF wmsg[Head(queue)].kind = "config"
         THEN /\ reply' = [reply EXCEPT ![Head(queue)] = "queued"]
              /\ lpc' = "exit" /\ exitTo' = "boot"
              /\ UNCHANGED <<todo, skipped, tags>>
         ELSE /\ reply' = [reply EXCEPT ![Head(queue)] = "applied"]
              /\ StartRefresh
              /\ UNCHANGED exitTo
    /\ event' = None
    /\ UNCHANGED <<panelVars, workerVars, options, userVars, loopCfg, faults>>

\* handle_runtime_loop_event: a reload is answered "queued" and ends the loop,
\* a user refresh is started.  An event that is waiting is taken before the
\* timer can fire.
TakeEvent ==
    /\ lpc \in {"select", "sleep"} /\ queue # <<>>
    /\ queue' = Tail(queue)
    /\ IF wmsg[Head(queue)].kind = "config"
         THEN /\ reply' = [reply EXCEPT ![Head(queue)] = "queued"]
              /\ lpc' = "exit" /\ exitTo' = "boot"
              /\ UNCHANGED <<event, todo, skipped, tags>>
         ELSE /\ event' = Head(queue)
              /\ StartRefresh
              /\ UNCHANGED <<reply, exitTo>>
    /\ UNCHANGED <<panelVars, workerVars, options, userVars, loopCfg, faults>>

FallAsleep ==
    /\ lpc = "select" /\ queue = <<>>
    /\ lpc' = "sleep"
    /\ UNCHANGED <<panelVars, workerVars, queue, reply, options, exitTo, event, todo,
                   skipped, tags, userVars, loopCfg, faults>>

\* The timer fires; an event that came in the meantime may be passed over.
WakeUp ==
    /\ lpc = "sleep"
    /\ StartRefresh
    /\ UNCHANGED <<panelVars, workerVars, queue, reply, options, exitTo, event,
                   userVars, loopCfg, faults>>

\* A shutdown signal drops the loop wherever it waits; the reply of the event
\* that was being handled is dropped with it.
Shutdown ==
    /\ lpc \in {"refresh", "select", "sleep"} /\ Fault("stop")
    /\ Finish("failed")
    /\ lpc' = "exit" /\ exitTo' = "down"
    /\ UNCHANGED <<panelVars, workerVars, queue, options, todo, skipped, tags, userVars,
                   loopCfg>>

\* The workers are aborted; the queue, and every wait for a reply, is dropped.
\* The core stays over a reload and ends with the agent; the cache has its file,
\* and the plan of the next loop has no users.
Exit ==
    /\ lpc = "exit"
    /\ conn' = {} /\ wire' = [n \in Nodes |-> <<>>]
    /\ wpc' = [n \in Nodes |-> "off"] /\ wmsg' = [n \in Nodes |-> NoMessage]
    /\ queue' = <<>>
    /\ reply' = [n \in Nodes |-> "none"]
    /\ lpc' = exitTo
    /\ ticked' = IF exitTo = "down" THEN [n \in Nodes |-> 0] ELSE ticked
    /\ todo' = {} /\ skipped' = {} /\ tags' = {} /\ inPlan' = {} /\ missing' = {}
    /\ exitTo' = "boot"
    /\ UNCHANGED <<panelVars, options, event, fetched, loopCfg, faults>>

-----------------------------------------------------------------------------
PanelStep == PanelReconfigure \/ \E n \in Nodes : PanelPublish(n)

WorkerStep(n) == Connect(n) \/ Receive(n) \/ Answer(n)

LoopStep ==
    \/ Boot \/ NothingToDo \/ EventTick \/ TimerTick \/ TakeEvent
    \/ FallAsleep \/ WakeUp \/ Exit
    \/ \E n \in Nodes : Refresh(n)

FaultStep ==
    \/ TickFails \/ Shutdown
    \/ \E n \in Nodes : Disconnect(n) \/ RefreshFails(n)

Next == PanelStep \/ LoopStep \/ FaultStep \/ \E n \in Nodes : WorkerStep(n)

Spec == Init /\ [][Next]_vars

\* The loop's task and the workers' tasks are scheduled; the service manager
\* starts the agent again.
FairSpec == Spec /\ WF_vars(LoopStep) /\ \A n \in Nodes : WF_vars(WorkerStep(n))

-----------------------------------------------------------------------------
(* Properties.                                                             *)

\* The unbounded channel never holds more than one event of a worker, and
\* only of workers that wait for their reply: its length is bounded by the
\* number of workers, however fast the panels send, and no reply meets a
\* worker that has gone on (send_realtime_runtime_event).
OneEventPerWorker ==
    /\ \A i, j \in 1..Len(queue) : queue[i] = queue[j] => i = j
    /\ \A i \in 1..Len(queue) :
         wpc[queue[i]] = "wait" /\ reply[queue[i]] = "none" /\ queue[i] # event
    /\ event # None => wpc[event] = "wait" /\ reply[event] = "none"

\* A worker is told "applied" only when a tick has brought the users its message
\* announced, or newer ones, to the core: README.md, "so user refresh can report
\* applied or failed" (handle_runtime_loop_event).  With continue_on_error, and only
\* then, "applied" is also the answer when the request for the users failed and was
\* skipped, or when a tick left the node out because its inbound is missing and no
\* later refresh found them changed.
AppliedMeansTicked ==
    [][\A n \in Nodes : reply[n] = "none" /\ reply'[n] = "applied"
         => ticked'[n] >= wmsg[n].at \/ (lenient /\ n \in skipped \cup missing')]_vars

\* A message that was acknowledged takes effect, even when its event is dropped
\* with the queue because another event, an error or a shutdown ended the loop:
\* the users it announced are brought to the core, or a tick that continues on
\* errors left their node out, and the configuration it announced is loaded
\* (run_agent_once, run_runtime_loop_async_with_events).
ReceivedTakesEffect ==
    \A n \in Nodes :
      /\ \A r \in 1..MaxRev :
           (wpc[n] = "wait" /\ wmsg[n] = [kind |-> "users", at |-> r])
             ~> (ticked[n] >= r \/ (lenient /\ n \in missing))
      /\ \A c \in 1..MaxCfg :
           (wpc[n] = "wait" /\ wmsg[n] = [kind |-> "config", at |-> c]) ~> (loopCfg >= c)

==============================================================================
