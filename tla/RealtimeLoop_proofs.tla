------------------------- MODULE RealtimeLoop_proofs -------------------------
(***************************************************************************)
(* Proofs about RealtimeLoop, for every set of nodes and every bound: a    *)
(* worker never has two events in the loop, and it is told "applied" only  *)
(* after a tick brought the users its message announced to the core, unless*)
(* the agent continues on errors and their node was skipped or left out.   *)
(***************************************************************************)
EXTENDS RealtimeLoop, TLAPS

\* A reply is there only for a worker that waits for it.
ReplyIsAwaited == \A n \in Nodes : wpc[n] # "wait" => reply[n] = "none"

\* Between two loops there is neither an event nor a worker, and a loop that
\* sleeps or ends handles no event.
IdleLoop ==
    /\ lpc \in {"boot", "down"} => queue = <<>> /\ \A n \in Nodes : wpc[n] = "off"
    /\ lpc # "refresh" => event = None

\* The panel announces only what it has published.
Announced(n, m) == m.kind = "users" => m.at <= users[n]
OnlyPublished ==
    \A n \in Nodes :
      /\ Announced(n, wmsg[n])
      /\ \A i \in 1..Len(wire[n]) : Announced(n, wire[n][i])

\* While the event of a user message is handled, its node is still to be asked
\* about, was skipped, or has an answer as new as the message.
EventServed ==
    event # None => /\ wmsg[event].kind = "users"
                    /\ \/ event \in todo \/ event \in skipped
                       \/ fetched[event] >= wmsg[event].at

\* What the cache has is in the core, is to be brought there by the tick that
\* follows, was left out, or is the plan's to take up at the next refresh; and a
\* refresh that asked about a node has found out which.
Caught(n) == fetched[n] <= ticked[n] \/ n \in tags \/ n \in missing \/ n \notin inPlan
AllCaught ==
    /\ lpc # "exit" => \A n \in Nodes : Caught(n)
    /\ lpc \notin {"refresh", "exit"} => tags = {}
    /\ lpc = "refresh" => \A n \in Nodes \ (todo \cup skipped) :
                            n \in tags \/ fetched[n] = 0 \/ n \in inPlan

\* Only an agent that continues on errors passes over a node.
OnlyLenient == skipped \cup missing # {} => lenient

LoopInv == TypeOK /\ OneEventPerWorker /\ ReplyIsAwaited /\ IdleLoop

ServeInv == LoopInv /\ OnlyPublished /\ EventServed /\ AllCaught /\ OnlyLenient

-----------------------------------------------------------------------------
\* The node that is asked about is one of those that are left.
LEMMA AskedOne == \A n : Asked(n) => n \in todo /\ lpc = "refresh"
  BY DEF Asked

\* What a tick did to the users, with the nodes it was for and those left out.
LEMMA Ticked ==
  ASSUME TypeOK, TickUsers
  PROVE  \E rebuilt \in BOOLEAN, of, left \in SUBSET Nodes :
           /\ of = IF rebuilt THEN Nodes ELSE tags
           /\ left \subseteq of /\ (left # {} => lenient)
           /\ ticked' = [n \in Nodes |-> IF n \in of \ left THEN fetched[n] ELSE ticked[n]]
           /\ missing' = (missing \ of) \cup left
           /\ inPlan' = IF rebuilt THEN {n \in Nodes : fetched[n] > 0} ELSE inPlan
<1>1. PICK rebuilt \in BOOLEAN :
        LET of == IF rebuilt THEN Nodes ELSE tags IN
        \E left \in SUBSET {n \in of : fetched[n] > 0} :
          /\ left # {} => lenient
          /\ ticked' = [n \in Nodes |-> IF n \in of \ left THEN fetched[n] ELSE ticked[n]]
          /\ missing' = (missing \ of) \cup left
          /\ inPlan' = IF rebuilt THEN {n \in Nodes : fetched[n] > 0} ELSE inPlan
  BY Zenon DEF TickUsers
<1> DEFINE of == IF rebuilt THEN Nodes ELSE tags
<1>2. of \in SUBSET Nodes
  BY DEF TypeOK
<1> HIDE DEF of
<1>3. PICK left \in SUBSET {n \in of : fetched[n] > 0} :
        /\ left # {} => lenient
        /\ ticked' = [n \in Nodes |-> IF n \in of \ left THEN fetched[n] ELSE ticked[n]]
        /\ missing' = (missing \ of) \cup left
        /\ inPlan' = IF rebuilt THEN {n \in Nodes : fetched[n] > 0} ELSE inPlan
  BY <1>1, Zenon DEF of
<1>4. left \in SUBSET Nodes /\ left \subseteq of
  BY <1>2
<1>5. of = IF rebuilt THEN Nodes ELSE tags
  BY DEF of
<1> QED
  BY <1>2, <1>3, <1>4, <1>5

\* A tick keeps the types of what it assigns.
LEMMA TickTypes ==
  ASSUME TypeOK, TickUsers
  PROVE  /\ ticked' \in [Nodes -> 0..MaxRev]
         /\ inPlan' \in SUBSET Nodes /\ missing' \in SUBSET Nodes
<1>1. PICK rebuilt \in BOOLEAN, of, left \in SUBSET Nodes :
        /\ ticked' = [n \in Nodes |-> IF n \in of \ left THEN fetched[n] ELSE ticked[n]]
        /\ missing' = (missing \ of) \cup left
        /\ inPlan' = IF rebuilt THEN {n \in Nodes : fetched[n] > 0} ELSE inPlan
  BY Ticked
<1> QED
  BY <1>1 DEF TypeOK

\* Every step of the panels, the workers and the loop keeps the types.
LEMMA TypeStep == TypeOK /\ [Next]_vars => TypeOK'
<1> SUFFICES ASSUME TypeOK, [Next]_vars PROVE TypeOK'
  OBVIOUS
<1> USE ConstantsAssumption
<1>1. CASE PanelReconfigure
  <2> DEFINE m == [kind |-> "config", at |-> cfg']
  <2>1. cfg' \in 0..MaxCfg /\ m \in Message
    BY <1>1 DEF PanelReconfigure, TypeOK, Message
  <2>2. ASSUME NEW n \in Nodes PROVE Append(wire[n], m) \in Seq(Message)
    BY <2>1 DEF TypeOK
  <2>3. wire' \in [Nodes -> Seq(Message)]
    BY <1>1, <2>2, Zenon DEF PanelReconfigure, TypeOK
  <2> QED
    BY <1>1, <2>1, <2>3 DEF PanelReconfigure, panelVars, workerVars, options, loopVars, userVars, TypeOK
<1>2. ASSUME NEW n \in Nodes, PanelPublish(n) PROVE TypeOK'
  <2> DEFINE m == [kind |-> "users", at |-> users'[n]]
  <2>1. users' \in [Nodes -> 0..MaxRev] /\ m \in Message
    <3>1. users[n] \in 0..MaxRev /\ users[n] < MaxRev
      BY <1>2 DEF PanelPublish, TypeOK
    <3>2. users' = [users EXCEPT ![n] = users[n] + 1] /\ users[n] + 1 \in 0..MaxRev
      BY <1>2, <3>1 DEF PanelPublish
    <3>3. users' \in [Nodes -> 0..MaxRev] /\ users'[n] \in Nat
      BY <3>2 DEF TypeOK
    <3> QED
      BY <3>3 DEF Message
  <2>2. Append(wire[n], m) \in Seq(Message)
    BY <2>1 DEF TypeOK
  <2>3. wire' \in [Nodes -> Seq(Message)]
    BY <1>2, <2>2, Zenon DEF PanelPublish, TypeOK
  <2> QED
    BY <1>2, <2>1, <2>3 DEF PanelPublish, panelVars, workerVars, options, loopVars, userVars, TypeOK
<1>3. ASSUME NEW n \in Nodes, Connect(n) PROVE TypeOK'
  BY <1>3 DEF Connect, panelVars, workerVars, options, loopVars, userVars, TypeOK, Message
<1>4. ASSUME NEW n \in Nodes, Receive(n) PROVE TypeOK'
  <2>1. Head(wire[n]) \in Message /\ Tail(wire[n]) \in Seq(Message)
    BY <1>4 DEF Receive, TypeOK
  <2>2. Append(queue, n) \in Seq(Nodes)
    BY DEF TypeOK
  <2>3. wire' \in [Nodes -> Seq(Message)] /\ wmsg' \in [Nodes -> Message]
    BY <1>4, <2>1 DEF Receive, TypeOK
  <2> QED
    BY <1>4, <2>2, <2>3 DEF Receive, panelVars, workerVars, options, loopVars, userVars, TypeOK
<1>5. ASSUME NEW n \in Nodes, Answer(n) PROVE TypeOK'
  BY <1>5 DEF Answer, NoMessage, panelVars, workerVars, options, loopVars, userVars, TypeOK, Message
<1>6. ASSUME NEW n \in Nodes, Disconnect(n) PROVE TypeOK'
  BY <1>6 DEF Disconnect, Fault, panelVars, workerVars, options, loopVars, userVars, TypeOK, Message
<1>7. ASSUME NEW n \in Nodes, RefreshFails(n) PROVE TypeOK'
  <2>1. CASE /\ skipped' = skipped \cup {n} /\ todo' = todo \ {n}
             /\ UNCHANGED <<reply, event, lpc, exitTo>>
    BY <1>7, <2>1 DEF RefreshFails, Fault, panelVars, workerVars, options, loopVars, userVars, TypeOK
  <2>2. CASE Finish("failed") /\ lpc' = "exit" /\ exitTo' = "down" /\ UNCHANGED <<todo, skipped>>
    BY <1>7, <2>2 DEF RefreshFails, Finish, Fault, panelVars, workerVars, options, loopVars, userVars, TypeOK
  <2> QED
    BY <1>7, <2>1, <2>2, Zenon DEF RefreshFails
<1>8. ASSUME NEW n \in Nodes, Refresh(n) PROVE TypeOK'
  <2>1. fetched' \in [Nodes -> 0..MaxRev] /\ tags' \in SUBSET Nodes /\ todo' \in SUBSET Nodes
    BY <1>8 DEF Refresh, TypeOK
  <2> QED
    BY <1>8, <2>1 DEF Refresh, Asked, panelVars, workerVars, options, TypeOK
<1>9. CASE Boot
  BY <1>9 DEF Boot, StartRefresh, panelVars, workerVars, options, loopVars, userVars, TypeOK, Message
<1>11. CASE NothingToDo
  BY <1>11 DEF NothingToDo, Finish, StartRefresh, panelVars, workerVars, options, loopVars, userVars, TypeOK, Message
<1>12. CASE EventTick
  BY <1>12, TickTypes DEF EventTick, Finish, StartRefresh, panelVars, workerVars, options, TypeOK
<1>13. CASE TimerTick
  <2>1. /\ ticked' \in [Nodes -> 0..MaxRev]
        /\ inPlan' \in SUBSET Nodes /\ missing' \in SUBSET Nodes
    BY <1>13, TickTypes DEF TimerTick
  <2>2. lpc' \in {"select", "exit"} /\ faults' \in 0..MaxFaults
    BY <1>13 DEF TimerTick, Fault, TypeOK
  <2> QED
    BY <1>13, <2>1, <2>2 DEF TimerTick, panelVars, workerVars, options, TypeOK
<1>14. CASE TakeEvent
  <2>1. Head(queue) \in Nodes /\ Tail(queue) \in Seq(Nodes)
    BY <1>14 DEF TakeEvent, TypeOK
  <2>2. CASE wmsg[Head(queue)].kind = "config"
    BY <1>14, <2>1, <2>2 DEF TakeEvent, panelVars, workerVars, options, loopVars, userVars, TypeOK
  <2>3. CASE wmsg[Head(queue)].kind # "config"
    BY <1>14, <2>1, <2>3 DEF TakeEvent, StartRefresh, panelVars, workerVars, options, loopVars, userVars, TypeOK
  <2> QED
    BY <2>2, <2>3
<1>15. CASE FallAsleep
  BY <1>15 DEF FallAsleep, panelVars, workerVars, options, loopVars, userVars, TypeOK, Message
<1>16. CASE WakeUp
  BY <1>16 DEF WakeUp, StartRefresh, panelVars, workerVars, options, loopVars, userVars, TypeOK, Message
<1>17. CASE Exit
  <2>1. /\ wire' \in [Nodes -> Seq(Message)] /\ queue' \in Seq(Nodes)
        /\ wmsg' \in [Nodes -> Message]
    BY <1>17 DEF Exit, TypeOK, Message, NoMessage
  <2>2. ticked' \in [Nodes -> 0..MaxRev] /\ fetched' \in [Nodes -> 0..MaxRev]
    BY <1>17 DEF Exit, TypeOK
  <2> QED
    BY <1>17, <2>1, <2>2 DEF Exit, panelVars, workerVars, options, loopVars, userVars, TypeOK
<1>18. CASE TickFails
  BY <1>18 DEF TickFails, Finish, Fault, panelVars, workerVars, options, loopVars, userVars, TypeOK, Message
<1>19. CASE Shutdown
  BY <1>19 DEF Shutdown, Finish, Fault, panelVars, workerVars, options, loopVars, userVars, TypeOK, Message
<1>20. CASE UNCHANGED vars
  BY <1>20 DEF vars, panelVars, workerVars, options, loopVars, userVars, TypeOK, Message
<1> QED
  BY <1>1, <1>2, <1>3, <1>4, <1>5, <1>6, <1>7, <1>8, <1>9, <1>11, <1>12, <1>13, <1>14, <1>15, <1>16, <1>17, <1>18, <1>19, <1>20 DEF Next, PanelStep, WorkerStep, LoopStep, FaultStep

\* Every step keeps a worker to one event.  The handler of an event ends with
\* the reply to its worker, and to no other.
LEMMA Replied ==
  ASSUME LoopInv, UNCHANGED <<queue, wpc>>, lpc' \in {"refresh", "exit"}, NEW r, Finish(r)
  PROVE  OneEventPerWorker' /\ ReplyIsAwaited' /\ IdleLoop'
<1> USE ConstantsAssumption
<1>1. event' = None /\ queue' = queue /\ wpc' = wpc
  BY DEF Finish
<1>2. \A n \in Nodes : n # event => reply'[n] = reply[n]
  BY DEF Finish, LoopInv, TypeOK
<1>3. \A i \in 1..Len(queue) : queue[i] \in Nodes /\ queue[i] # event
  <2>1. queue \in Seq(Nodes)
    BY DEF LoopInv, TypeOK
  <2> QED
    BY <2>1 DEF LoopInv, OneEventPerWorker
<1>4. OneEventPerWorker'
  BY <1>1, <1>2, <1>3 DEF LoopInv, OneEventPerWorker
<1>5. ReplyIsAwaited'
  BY <1>1, <1>2 DEF LoopInv, OneEventPerWorker, ReplyIsAwaited
<1>6. IdleLoop'
  BY <1>1 DEF IdleLoop
<1> QED
  BY <1>4, <1>5, <1>6

\* A step that only takes a worker that does not wait elsewhere leaves the
\* events and replies as they are.
LEMMA WaitKept ==
  ASSUME LoopInv, UNCHANGED <<queue, reply, event>>,
         \A k \in Nodes : wpc'[k] = wpc[k] \/ (wpc[k] # "wait" /\ wpc'[k] # "wait")
  PROVE  OneEventPerWorker' /\ ReplyIsAwaited'
<1>1. \A i \in 1..Len(queue) : queue[i] \in Nodes
  BY DEF LoopInv, TypeOK
<1>2. event # None => event \in Nodes
  BY DEF LoopInv, TypeOK
<1>3. OneEventPerWorker'
  BY <1>1, <1>2 DEF LoopInv, OneEventPerWorker
<1>4. ReplyIsAwaited'
  BY DEF LoopInv, ReplyIsAwaited
<1> QED
  BY <1>3, <1>4

\* A worker sends another event only after it got its reply, and the loop
\* replies only to the event it handles.
LEMMA EventStep ==
  LoopInv /\ [Next]_vars => OneEventPerWorker' /\ ReplyIsAwaited' /\ IdleLoop'
<1> SUFFICES ASSUME LoopInv, [Next]_vars
             PROVE OneEventPerWorker' /\ ReplyIsAwaited' /\ IdleLoop'
  OBVIOUS
<1> USE ConstantsAssumption DEF LoopInv
<1> DEFINE Goal == OneEventPerWorker' /\ ReplyIsAwaited' /\ IdleLoop'
<1>1. CASE PanelReconfigure
  BY <1>1 DEF PanelReconfigure, loopVars, userVars, TypeOK, OneEventPerWorker, ReplyIsAwaited, IdleLoop
<1>2. ASSUME NEW n \in Nodes, PanelPublish(n) PROVE Goal
  BY <1>2 DEF PanelPublish, loopVars, userVars, TypeOK, OneEventPerWorker, ReplyIsAwaited, IdleLoop
<1>3. ASSUME NEW n \in Nodes, Connect(n) PROVE Goal
  <2>1. UNCHANGED <<queue, reply, event, lpc>> /\ wpc[n] = "dial"
    BY <1>3 DEF Connect, loopVars
  <2>2. \A k \in Nodes : IF k = n THEN wpc'[k] = "serve" ELSE wpc'[k] = wpc[k]
    BY <1>3 DEF Connect, TypeOK
  <2> QED
    BY <2>1, <2>2, WaitKept DEF IdleLoop
<1>4. ASSUME NEW n \in Nodes, Receive(n) PROVE Goal
  <2>1. /\ queue \in Seq(Nodes)
        /\ Len(queue') = Len(queue) + 1
        /\ queue'[Len(queue) + 1] = n
        /\ \A i \in 1..Len(queue) : queue'[i] = queue[i] /\ queue[i] \in Nodes
    BY <1>4 DEF Receive, TypeOK
  <2>2. \A i \in 1..Len(queue) : queue[i] # n
    BY <1>4 DEF Receive, OneEventPerWorker
  <2>3. /\ wpc'[n] = "wait" /\ reply' = reply /\ reply[n] = "none"
        /\ event' = event /\ event # n /\ lpc' = lpc
        /\ \A k \in Nodes \ {n} : wpc'[k] = wpc[k]
    BY <1>4 DEF Receive, loopVars, userVars, TypeOK, OneEventPerWorker, ReplyIsAwaited
  <2>4. OneEventPerWorker'
    <3>1. ASSUME NEW i \in 1..Len(queue'), NEW j \in 1..Len(queue'), queue'[i] = queue'[j]
          PROVE  i = j
      BY <2>1, <2>2, <3>1 DEF OneEventPerWorker
    <3>2. ASSUME NEW i \in 1..Len(queue')
          PROVE  /\ wpc'[queue'[i]] = "wait" /\ reply'[queue'[i]] = "none"
                 /\ queue'[i] # event'
      <4>1. CASE i = Len(queue) + 1
        BY <2>1, <2>3, <4>1
      <4>2. CASE i \in 1..Len(queue)
        BY <2>1, <2>2, <2>3, <4>2 DEF OneEventPerWorker
      <4> QED
        BY <2>1, <4>1, <4>2
    <3>3. event' # None => wpc'[event'] = "wait" /\ reply'[event'] = "none"
      BY <2>3 DEF OneEventPerWorker, TypeOK
    <3> QED
      BY <3>1, <3>2, <3>3 DEF OneEventPerWorker
  <2>5. ReplyIsAwaited' /\ IdleLoop'
    BY <1>4, <2>3 DEF Receive, ReplyIsAwaited, IdleLoop
  <2> QED
    BY <2>4, <2>5
<1>5. ASSUME NEW n \in Nodes, Answer(n) PROVE Goal
  <2>1. event # n /\ \A i \in 1..Len(queue) : queue[i] # n
    BY <1>5 DEF Answer, OneEventPerWorker
  <2>2. /\ queue' = queue /\ event' = event /\ lpc' = lpc
        /\ reply'[n] = "none"
        /\ \A k \in Nodes \ {n} : wpc'[k] = wpc[k] /\ reply'[k] = reply[k]
    BY <1>5 DEF Answer, loopVars, userVars, TypeOK
  <2>3. \A i \in 1..Len(queue) : queue[i] \in Nodes
    BY DEF TypeOK
  <2>4. OneEventPerWorker'
    BY <2>1, <2>2, <2>3 DEF OneEventPerWorker, TypeOK
  <2>5. ReplyIsAwaited' /\ IdleLoop'
    BY <1>5, <2>2 DEF Answer, ReplyIsAwaited, IdleLoop
  <2> QED
    BY <2>4, <2>5
<1>6. ASSUME NEW n \in Nodes, Disconnect(n) PROVE Goal
  <2>1. UNCHANGED <<queue, reply, event, lpc>>
    BY <1>6 DEF Disconnect, loopVars
  <2>2. \A k \in Nodes : wpc'[k] = wpc[k] \/ (wpc[k] = "serve" /\ wpc'[k] = "dial")
    BY <1>6 DEF Disconnect, TypeOK
  <2> QED
    BY <2>1, <2>2, WaitKept DEF IdleLoop
<1>7. ASSUME NEW n \in Nodes, RefreshFails(n) PROVE Goal
  <2>1. CASE UNCHANGED <<reply, event, lpc, exitTo>>
    BY <1>7, <2>1 DEF RefreshFails, workerVars, TypeOK, OneEventPerWorker, ReplyIsAwaited, IdleLoop
  <2>2. CASE Finish("failed")
    <3>1. UNCHANGED <<queue, wpc>> /\ lpc' \in {"refresh", "exit"}
      BY <1>7, AskedOne DEF RefreshFails, workerVars
    <3> QED
      BY <2>2, <3>1, Replied
  <2> QED
    BY <1>7, <2>1, <2>2, Zenon DEF RefreshFails
<1>8. ASSUME NEW n \in Nodes, Refresh(n) PROVE Goal
  BY <1>8 DEF Refresh, workerVars, TypeOK, OneEventPerWorker, ReplyIsAwaited, IdleLoop
<1>9. CASE Boot
  BY <1>9 DEF Boot, StartRefresh, workerVars, TypeOK, OneEventPerWorker, ReplyIsAwaited, IdleLoop
<1>11. CASE NothingToDo
  BY <1>11, Replied DEF NothingToDo, Refreshed, StartRefresh, workerVars
<1>12. CASE EventTick
  BY <1>12, Replied DEF EventTick, StartRefresh, workerVars
<1>13. CASE TimerTick
  BY <1>13 DEF TimerTick, workerVars, TypeOK, OneEventPerWorker, ReplyIsAwaited, IdleLoop
<1>14. CASE TakeEvent
  <2> DEFINE h == Head(queue)
  <2>0. queue \in Seq(Nodes) /\ queue # <<>> /\ queue' = Tail(queue)
    BY <1>14 DEF TakeEvent, TypeOK
  <2>1. /\ Len(queue') = Len(queue) - 1
        /\ h = queue[1] /\ h \in Nodes /\ 1 \in 1..Len(queue)
        /\ \A i \in 1..Len(queue') :
             queue'[i] = queue[i + 1] /\ i + 1 \in 1..Len(queue) /\ queue'[i] \in Nodes
    <3>1. Len(queue) \in Nat \ {0} /\ \A i \in 1..Len(queue) : queue[i] \in Nodes
      BY <2>0
    <3>2. h = queue[1] /\ Len(queue') = Len(queue) - 1
      BY <2>0
    <3>3. \A i \in 1..Len(queue') : queue'[i] = queue[i + 1]
      BY <2>0
    <3> QED
      BY <3>1, <3>2, <3>3
  <2>2. wpc' = wpc /\ event = None /\ wpc[h] = "wait" /\ reply[h] = "none"
    BY <1>14, <2>1 DEF TakeEvent, workerVars, OneEventPerWorker, IdleLoop
  <2>3. \A i \in 1..Len(queue') : queue'[i] # h
    BY <2>1 DEF OneEventPerWorker
  <2>4. \A i, j \in 1..Len(queue') : queue'[i] = queue'[j] => i = j
    BY <2>1 DEF OneEventPerWorker
  <2>5. \A i \in 1..Len(queue') : wpc[queue'[i]] = "wait" /\ reply[queue'[i]] = "none"
    BY <2>1 DEF OneEventPerWorker
  <2>6. CASE wmsg[h].kind = "config"
    <3>1. reply' = [reply EXCEPT ![h] = "queued"] /\ event' = None /\ lpc' = "exit"
      BY <1>14, <2>2, <2>6 DEF TakeEvent
    <3>2. \A k \in Nodes \ {h} : reply'[k] = reply[k]
      BY <3>1 DEF TypeOK
    <3>3. \A i \in 1..Len(queue') : queue'[i] # event'
      BY <2>1, <3>1
    <3>4. OneEventPerWorker'
      BY <2>1, <2>2, <2>3, <2>4, <2>5, <3>1, <3>2, <3>3 DEF OneEventPerWorker
    <3> QED
      BY <2>2, <3>1, <3>2, <3>4 DEF ReplyIsAwaited, IdleLoop
  <2>7. CASE wmsg[h].kind # "config"
    <3>1. reply' = reply /\ event' = h /\ lpc' = "refresh"
      BY <1>14, <2>7 DEF TakeEvent, StartRefresh
    <3>2. OneEventPerWorker'
      BY <2>2, <2>3, <2>4, <2>5, <3>1 DEF OneEventPerWorker
    <3> QED
      BY <2>2, <3>1, <3>2 DEF ReplyIsAwaited, IdleLoop
  <2> QED
    BY <2>6, <2>7
<1>15. CASE FallAsleep
  BY <1>15 DEF FallAsleep, workerVars, TypeOK, OneEventPerWorker, ReplyIsAwaited, IdleLoop
<1>16. CASE WakeUp
  BY <1>16 DEF WakeUp, StartRefresh, workerVars, TypeOK, OneEventPerWorker, ReplyIsAwaited, IdleLoop
<1>17. CASE Exit
  BY <1>17 DEF Exit, TypeOK, OneEventPerWorker, ReplyIsAwaited, IdleLoop
<1>18. CASE TickFails
  BY <1>18, Replied DEF TickFails, workerVars
<1>19. CASE Shutdown
  BY <1>19, Replied DEF Shutdown, workerVars
<1>20. CASE UNCHANGED vars
  BY <1>20 DEF vars, panelVars, workerVars, loopVars, userVars, TypeOK, OneEventPerWorker, ReplyIsAwaited, IdleLoop
<1> QED
  BY <1>1, <1>2, <1>3, <1>4, <1>5, <1>6, <1>7, <1>8, <1>9, <1>11, <1>12, <1>13, <1>14, <1>15, <1>16, <1>17, <1>18, <1>19, <1>20 DEF Next, PanelStep, WorkerStep, LoopStep, FaultStep

\* No message announces nothing.
LEMMA NothingAnnounced == TypeOK => \A n \in Nodes : Announced(n, NoMessage)
  BY ConstantsAssumption DEF TypeOK, Announced, NoMessage

\* What is on the wire, and what a worker has read from it, was published.
LEMMA PublishedStep == TypeOK /\ OnlyPublished /\ [Next]_vars => OnlyPublished'
<1> SUFFICES ASSUME TypeOK, OnlyPublished, [Next]_vars PROVE OnlyPublished'
  OBVIOUS
<1> USE ConstantsAssumption
<1>1. CASE PanelReconfigure
  <2>1. UNCHANGED <<users, wmsg>>
    BY <1>1 DEF PanelReconfigure
  <2>2. ASSUME NEW n \in Nodes, NEW i \in 1..Len(wire'[n]) PROVE Announced(n, wire[n][i])'
    <3> DEFINE m == [kind |-> "config", at |-> cfg']
    <3>1. /\ wire[n] \in Seq(Message) /\ m \in Message
          /\ wire'[n] \in {wire[n], Append(wire[n], m)}
      BY <1>1 DEF PanelReconfigure, TypeOK, Message
    <3>2. CASE wire'[n] = wire[n]
      BY <2>1, <3>2 DEF OnlyPublished, Announced
    <3>3. CASE wire'[n] = Append(wire[n], m)
      <4>1. wire'[n][i] = m \/ (i \in 1..Len(wire[n]) /\ wire'[n][i] = wire[n][i])
        BY <3>1, <3>3
      <4> QED
        BY <2>1, <4>1 DEF OnlyPublished, Announced
    <3> QED
      BY <3>1, <3>2, <3>3
  <2> QED
    BY <2>1, <2>2 DEF OnlyPublished, Announced
<1>2. ASSUME NEW n \in Nodes, PanelPublish(n) PROVE OnlyPublished'
  <2>1. /\ wmsg' = wmsg /\ users'[n] = users[n] + 1
        /\ \A k \in Nodes \ {n} : users'[k] = users[k] /\ wire'[k] = wire[k]
    BY <1>2 DEF PanelPublish, TypeOK
  <2>2. ASSUME NEW k \in Nodes
        PROVE  users[k] \in Nat /\ users[k] <= users'[k] /\ wmsg[k].at \in Nat
    <3>1. users[k] \in 0..MaxRev /\ wmsg[k] \in Message
      BY DEF TypeOK
    <3>2. users'[k] = users[k] \/ users'[k] = users[k] + 1
      BY <2>1
    <3> QED
      BY <3>1, <3>2 DEF Message
  <2>3. ASSUME NEW i \in 1..Len(wire'[n]) PROVE Announced(n, wire[n][i])'
    <3> DEFINE m == [kind |-> "users", at |-> users'[n]]
    <3>1. /\ wire[n] \in Seq(Message) /\ m \in Message
          /\ wire'[n] \in {wire[n], Append(wire[n], m)}
      BY <1>2, <2>1, <2>2 DEF PanelPublish, TypeOK, Message
    <3>2. wire'[n][i] = m \/ (i \in 1..Len(wire[n]) /\ wire'[n][i] = wire[n][i])
      BY <3>1
    <3>3. CASE wire'[n][i] = m
      BY <2>1, <2>2, <3>3 DEF Announced
    <3>4. CASE i \in 1..Len(wire[n]) /\ wire'[n][i] = wire[n][i]
      <4>1. wire[n][i] \in Message
        BY <3>1, <3>4
      <4>2. wire[n][i].at \in Nat
        BY <4>1 DEF Message
      <4> QED
        BY <2>1, <2>2, <3>4, <4>2 DEF OnlyPublished, Announced
    <3> QED
      BY <3>2, <3>3, <3>4
  <2>4. \A k \in Nodes : Announced(k, wmsg[k])'
    BY <2>1, <2>2 DEF OnlyPublished, Announced
  <2> QED
    BY <2>1, <2>3, <2>4 DEF OnlyPublished, Announced
<1>3. ASSUME NEW n \in Nodes, Connect(n) PROVE OnlyPublished'
  BY <1>3 DEF Connect, panelVars, workerVars, OnlyPublished, Announced
<1>4. ASSUME NEW n \in Nodes, Receive(n) PROVE OnlyPublished'
  <2>1. /\ users' = users
        /\ wmsg'[n] = Head(wire[n]) /\ wire'[n] = Tail(wire[n])
        /\ \A k \in Nodes \ {n} : wmsg'[k] = wmsg[k] /\ wire'[k] = wire[k]
    BY <1>4 DEF Receive, panelVars, TypeOK
  <2>2. /\ wire[n] \in Seq(Message) /\ wire[n] # <<>>
    BY <1>4 DEF Receive, TypeOK
  <2>3. /\ 1 \in 1..Len(wire[n]) /\ Head(wire[n]) = wire[n][1]
        /\ \A i \in 1..Len(Tail(wire[n])) :
             Tail(wire[n])[i] = wire[n][i + 1] /\ i + 1 \in 1..Len(wire[n])
    BY <2>2
  <2>4. ASSUME NEW k \in Nodes
        PROVE  /\ Announced(k, wmsg[k])'
               /\ \A i \in 1..Len(wire'[k]) : Announced(k, wire[k][i])'
    <3>1. CASE k = n
      <4>1. Announced(n, wire[n][1])
        BY <2>3 DEF OnlyPublished
      <4>2. Announced(n, wmsg[n])'
        BY <2>1, <2>3, <4>1 DEF Announced
      <4>3. ASSUME NEW i \in 1..Len(wire'[n]) PROVE Announced(n, wire[n][i])'
        <5>1. wire'[n][i] = wire[n][i + 1] /\ i + 1 \in 1..Len(wire[n])
          BY <2>1, <2>3, <4>3
        <5>2. Announced(n, wire[n][i + 1])
          BY <5>1 DEF OnlyPublished
        <5> QED
          BY <2>1, <5>1, <5>2 DEF Announced
      <4> QED
        BY <3>1, <4>2, <4>3
    <3>2. CASE k # n
      BY <2>1, <3>2 DEF OnlyPublished, Announced
    <3> QED
      BY <3>1, <3>2
  <2> QED
    BY <2>4 DEF OnlyPublished, Announced
<1>5. ASSUME NEW n \in Nodes, Answer(n) PROVE OnlyPublished'
  <2>1. UNCHANGED <<users, wire>> /\ \A k \in Nodes : wmsg'[k] \in {wmsg[k], NoMessage}
    BY <1>5 DEF Answer, panelVars, TypeOK
  <2> QED
    BY <2>1, NothingAnnounced DEF OnlyPublished, Announced
<1>6. ASSUME NEW n \in Nodes, Disconnect(n) PROVE OnlyPublished'
  BY <1>6 DEF Disconnect, panelVars, TypeOK, OnlyPublished, Announced
<1>7. ASSUME NEW n \in Nodes, RefreshFails(n) PROVE OnlyPublished'
  BY <1>7 DEF RefreshFails, panelVars, workerVars, OnlyPublished, Announced
<1>8. ASSUME NEW n \in Nodes, Refresh(n) PROVE OnlyPublished'
  BY <1>8 DEF Refresh, panelVars, workerVars, OnlyPublished, Announced
<1>9. CASE Boot
  BY <1>9 DEF Boot, StartRefresh, panelVars, workerVars, OnlyPublished, Announced
<1>11. CASE NothingToDo
  BY <1>11 DEF NothingToDo, Finish, panelVars, workerVars, OnlyPublished, Announced
<1>12. CASE EventTick
  BY <1>12 DEF EventTick, Finish, panelVars, workerVars, OnlyPublished, Announced
<1>13. CASE TimerTick
  BY <1>13 DEF TimerTick, panelVars, workerVars, OnlyPublished, Announced
<1>14. CASE TakeEvent
  BY <1>14 DEF TakeEvent, panelVars, workerVars, OnlyPublished, Announced
<1>15. CASE FallAsleep
  BY <1>15 DEF FallAsleep, panelVars, workerVars, OnlyPublished, Announced
<1>16. CASE WakeUp
  BY <1>16 DEF WakeUp, StartRefresh, panelVars, workerVars, OnlyPublished, Announced
<1>17. CASE Exit
  <2>1. users' = users /\ \A k \in Nodes : wmsg'[k] = NoMessage /\ wire'[k] = <<>>
    BY <1>17 DEF Exit, panelVars
  <2> QED
    BY <2>1, NothingAnnounced DEF OnlyPublished, Announced
<1>18. CASE TickFails
  BY <1>18 DEF TickFails, Finish, panelVars, workerVars, OnlyPublished, Announced
<1>19. CASE Shutdown
  BY <1>19 DEF Shutdown, Finish, panelVars, workerVars, OnlyPublished, Announced
<1>20. CASE UNCHANGED vars
  BY <1>20 DEF vars, panelVars, workerVars, loopVars, userVars, OnlyPublished, Announced
<1> QED
  BY <1>1, <1>2, <1>3, <1>4, <1>5, <1>6, <1>7, <1>8, <1>9, <1>11, <1>12, <1>13, <1>14, <1>15, <1>16, <1>17, <1>18, <1>19, <1>20 DEF Next, PanelStep, WorkerStep, LoopStep, FaultStep

\* While the event of a user message is handled, its users are on their way.
LEMMA ServedStep == ServeInv /\ [Next]_vars => EventServed'
<1> SUFFICES ASSUME LoopInv, OnlyPublished, EventServed, [Next]_vars PROVE EventServed'
  BY DEF ServeInv
<1>1. CASE PanelReconfigure
  BY <1>1 DEF PanelReconfigure, workerVars, loopVars, userVars, LoopInv, TypeOK, IdleLoop, EventServed
<1>2. ASSUME NEW n \in Nodes, PanelPublish(n) PROVE EventServed'
  BY <1>2 DEF PanelPublish, workerVars, loopVars, userVars, LoopInv, TypeOK, IdleLoop, EventServed
<1>3. ASSUME NEW n \in Nodes, Connect(n) PROVE EventServed'
  BY <1>3 DEF Connect, workerVars, loopVars, userVars, LoopInv, TypeOK, IdleLoop, EventServed
<1>4. ASSUME NEW n \in Nodes, Receive(n) PROVE EventServed'
  <2>1. event # None => event # n /\ event \in Nodes
    BY <1>4 DEF Receive, LoopInv, TypeOK, OneEventPerWorker
  <2>2. event # None => wmsg'[event] = wmsg[event]
    BY <1>4, <2>1 DEF Receive, LoopInv, TypeOK
  <2> QED
    BY <1>4, <2>2 DEF Receive, loopVars, userVars, EventServed
<1>5. ASSUME NEW n \in Nodes, Answer(n) PROVE EventServed'
  <2>1. event # None => event # n /\ event \in Nodes
    BY <1>5 DEF Answer, LoopInv, TypeOK, OneEventPerWorker
  <2>2. event # None => wmsg'[event] = wmsg[event]
    BY <1>5, <2>1 DEF Answer, LoopInv, TypeOK
  <2> QED
    BY <1>5, <2>2 DEF Answer, loopVars, userVars, EventServed
<1>6. ASSUME NEW n \in Nodes, Disconnect(n) PROVE EventServed'
  BY <1>6 DEF Disconnect, workerVars, loopVars, userVars, LoopInv, TypeOK, IdleLoop, EventServed
<1>7. ASSUME NEW n \in Nodes, RefreshFails(n) PROVE EventServed'
  <2>1. CASE /\ skipped' = skipped \cup {n} /\ todo' = todo \ {n}
             /\ UNCHANGED <<reply, event, lpc, exitTo>>
    BY <1>7, <2>1 DEF RefreshFails, workerVars, userVars, EventServed
  <2>2. CASE Finish("failed")
    BY <2>2 DEF Finish, EventServed
  <2> QED
    BY <1>7, <2>1, <2>2, Zenon DEF RefreshFails
<1>8. ASSUME NEW n \in Nodes, Refresh(n) PROVE EventServed'
  <2>1. event' = event /\ lpc' = "refresh" /\ skipped' = skipped /\ wmsg' = wmsg
    BY <1>8, AskedOne DEF Refresh, workerVars
  <2>2. CASE event = n
    <3>1. fetched'[n] = users[n] /\ wmsg[n].kind = "users"
      BY <1>8, <2>2, ConstantsAssumption DEF Refresh, LoopInv, TypeOK, EventServed
    <3>2. users[n] \in Nat /\ wmsg[n].at \in Nat /\ wmsg[n].at <= users[n]
      BY <3>1, ConstantsAssumption DEF OnlyPublished, Announced, LoopInv, TypeOK, Message
    <3> QED
      BY <2>1, <2>2, <3>1, <3>2 DEF EventServed
  <2>3. CASE event # n
    BY <1>8, <2>1, <2>3 DEF Refresh, LoopInv, TypeOK, EventServed
  <2> QED
    BY <2>2, <2>3
<1>9. CASE Boot
  BY <1>9 DEF Boot, StartRefresh, workerVars, loopVars, userVars, LoopInv, TypeOK, IdleLoop, EventServed
<1>11. CASE NothingToDo
  BY <1>11 DEF NothingToDo, Finish, EventServed
<1>12. CASE EventTick
  BY <1>12 DEF EventTick, Finish, EventServed
<1>13. CASE TimerTick
  BY <1>13 DEF TimerTick, workerVars, loopVars, userVars, LoopInv, TypeOK, IdleLoop, EventServed
<1>14. CASE TakeEvent
  <2>0. queue \in Seq(Nodes) /\ queue # <<>>
    BY <1>14 DEF TakeEvent, LoopInv, TypeOK
  <2>1. Head(queue) \in Nodes /\ event = None /\ wmsg' = wmsg
    BY <1>14, <2>0 DEF TakeEvent, workerVars, LoopInv, IdleLoop
  <2>2. CASE wmsg[Head(queue)].kind = "config"
    BY <1>14, <2>1, <2>2 DEF TakeEvent, EventServed
  <2>3. CASE wmsg[Head(queue)].kind # "config"
    <3>1. wmsg[Head(queue)].kind = "users"
      BY <2>1, <2>3 DEF LoopInv, TypeOK, Message
    <3> QED
      BY <1>14, <2>1, <2>3, <3>1 DEF TakeEvent, StartRefresh, EventServed
  <2> QED
    BY <2>2, <2>3
<1>15. CASE FallAsleep
  BY <1>15 DEF FallAsleep, workerVars, loopVars, userVars, LoopInv, TypeOK, IdleLoop, EventServed
<1>16. CASE WakeUp
  BY <1>16 DEF WakeUp, StartRefresh, workerVars, loopVars, userVars, LoopInv, TypeOK, IdleLoop, EventServed
<1>17. CASE Exit
  BY <1>17 DEF Exit, workerVars, loopVars, userVars, LoopInv, TypeOK, IdleLoop, EventServed
<1>18. CASE TickFails
  BY <1>18 DEF TickFails, Finish, EventServed
<1>19. CASE Shutdown
  BY <1>19 DEF Shutdown, Finish, EventServed
<1>20. CASE UNCHANGED vars
  BY <1>20 DEF vars, panelVars, workerVars, loopVars, userVars, LoopInv, TypeOK, IdleLoop, EventServed
<1> QED
  BY <1>1, <1>2, <1>3, <1>4, <1>5, <1>6, <1>7, <1>8, <1>9, <1>11, <1>12, <1>13, <1>14, <1>15, <1>16, <1>17, <1>18, <1>19, <1>20 DEF Next, PanelStep, WorkerStep, LoopStep, FaultStep

\* A tick leaves nothing behind but what it says it leaves out.
LEMMA TickCatches ==
  ASSUME ServeInv, Refreshed, TickUsers, UNCHANGED <<fetched, lenient>>, skipped' = {}
  PROVE  /\ OnlyLenient'
         /\ \A n \in Nodes : fetched'[n] <= ticked'[n] \/ n \in missing' \/ n \notin inPlan'
         /\ \A n \in Nodes \ skipped :
              fetched[n] <= ticked'[n] \/ (lenient /\ n \in missing')
<1>1. PICK rebuilt \in BOOLEAN, of, left \in SUBSET Nodes :
        /\ of = IF rebuilt THEN Nodes ELSE tags
        /\ left \subseteq of /\ (left # {} => lenient)
        /\ ticked' = [n \in Nodes |-> IF n \in of \ left THEN fetched[n] ELSE ticked[n]]
        /\ missing' = (missing \ of) \cup left
        /\ inPlan' = IF rebuilt THEN {n \in Nodes : fetched[n] > 0} ELSE inPlan
  BY Ticked DEF ServeInv, LoopInv
<1>2. OnlyLenient'
  BY <1>1 DEF ServeInv, OnlyLenient
<1>3. ASSUME NEW n \in Nodes
      PROVE  /\ fetched[n] \in Nat /\ ticked[n] \in Nat
             /\ fetched[n] <= ticked'[n] \/ n \in missing' \/ n \notin inPlan'
             /\ n \notin skipped => fetched[n] <= ticked'[n] \/ n \in missing'
  <2>1. fetched[n] \in Nat /\ ticked[n] \in Nat
    BY ConstantsAssumption DEF ServeInv, LoopInv, TypeOK
  <2>2. CASE n \in of
    <3>1. ticked'[n] = fetched[n] \/ n \in missing'
      BY <1>1, <2>2
    <3> QED
      BY <2>1, <3>1
  <2>3. CASE n \notin of
    <3>1. ticked'[n] = ticked[n] /\ inPlan' = inPlan /\ n \notin tags
          /\ (n \in missing => n \in missing')
      BY <1>1, <2>3
    <3>2. fetched[n] <= ticked[n] \/ n \in missing \/ n \notin inPlan
      BY <3>1 DEF Refreshed, ServeInv, AllCaught, Caught
    <3>3. n \notin skipped => fetched[n] = 0 \/ n \in inPlan
      BY <3>1 DEF Refreshed, ServeInv, AllCaught
    <3> QED
      BY <2>1, <3>1, <3>2, <3>3
  <2> QED
    BY <2>2, <2>3
<1> QED
  BY <1>2, <1>3 DEF OnlyLenient

\* Nothing the cache has is forgotten on the way to the core.
LEMMA CaughtStep == ServeInv /\ [Next]_vars => AllCaught' /\ OnlyLenient'
<1> SUFFICES ASSUME ServeInv, [Next]_vars PROVE AllCaught' /\ OnlyLenient'
  OBVIOUS
<1> DEFINE Goal == AllCaught' /\ OnlyLenient'
<1>2. ASSUME NEW n \in Nodes, Refresh(n) PROVE Goal
  <2>1. /\ lpc = "refresh" /\ lpc' = lpc /\ n \in todo /\ todo' = todo \ {n}
        /\ UNCHANGED <<skipped, ticked, inPlan, missing, lenient>>
    BY <1>2, AskedOne DEF Refresh, options
  <2>2. /\ fetched'[n] = users[n] /\ \A k \in Nodes \ {n} : fetched'[k] = fetched[k]
        /\ tags \subseteq tags'
        /\ users[n] # fetched[n] => n \in tags'
        /\ users[n] > 0 /\ n \notin inPlan => n \in tags'
        /\ users[n] \in Nat
    BY <1>2, ConstantsAssumption DEF Refresh, ServeInv, LoopInv, TypeOK
  <2>3. ASSUME NEW k \in Nodes PROVE Caught(k)'
    BY <2>1, <2>2 DEF ServeInv, AllCaught, Caught
  <2>4. ASSUME NEW k \in Nodes \ (todo' \cup skipped')
        PROVE  k \in tags' \/ fetched'[k] = 0 \/ k \in inPlan'
    <3>1. CASE k = n
      BY <2>1, <2>2, <3>1
    <3>2. CASE k # n
      BY <2>1, <2>2, <3>2 DEF ServeInv, AllCaught
    <3> QED
      BY <3>1, <3>2
  <2> QED
    BY <2>1, <2>3, <2>4 DEF ServeInv, AllCaught, OnlyLenient
<1>3. ASSUME NEW n \in Nodes, RefreshFails(n) PROVE Goal
  <2>1. lpc = "refresh" /\ UNCHANGED <<tags, fetched, ticked, inPlan, missing, lenient>>
    BY <1>3, AskedOne DEF RefreshFails, userVars, options
  <2>2. CASE lenient /\ skipped' = skipped \cup {n} /\ todo' = todo \ {n} /\ lpc' = lpc
    BY <2>1, <2>2 DEF ServeInv, AllCaught, Caught, OnlyLenient
  <2>3. CASE lpc' = "exit" /\ skipped' = skipped
    BY <2>1, <2>3 DEF ServeInv, AllCaught, OnlyLenient
  <2> QED
    BY <1>3, <2>2, <2>3 DEF RefreshFails
<1>4. ASSUME StartRefresh, UNCHANGED <<userVars, options>>, tags = {}, lpc # "exit" PROVE Goal
  BY <1>4 DEF StartRefresh, userVars, options, ServeInv, AllCaught, Caught, OnlyLenient
<1>5. CASE Boot
  BY <1>4, <1>5 DEF Boot, ServeInv, AllCaught
<1>6. CASE NothingToDo
  BY <1>4, <1>6 DEF NothingToDo, Refreshed
<1>7. CASE EventTick
  <2>1. Refreshed /\ TickUsers /\ UNCHANGED <<fetched, lenient>> /\ skipped' = {}
        /\ lpc' = "refresh" /\ todo' = Nodes
    BY <1>7 DEF EventTick, StartRefresh, options
  <2> QED
    BY <2>1, TickCatches DEF AllCaught, Caught
<1>8. CASE TimerTick
  <2>1. Refreshed /\ TickUsers /\ UNCHANGED <<fetched, lenient>> /\ skipped' = {}
        /\ lpc' \in {"select", "exit"} /\ tags' = {}
    BY <1>8 DEF TimerTick, options
  <2> QED
    BY <2>1, TickCatches DEF AllCaught, Caught
<1>9. CASE TickFails \/ Shutdown
  <2>1. lpc' = "exit" /\ UNCHANGED <<skipped, missing, lenient>>
    BY <1>9 DEF TickFails, Shutdown, userVars, options
  <2> QED
    BY <2>1 DEF ServeInv, AllCaught, OnlyLenient
<1>10. CASE TakeEvent
  <2>1. tags = {} /\ lpc # "exit" /\ UNCHANGED <<userVars, options>>
    BY <1>10 DEF TakeEvent, ServeInv, AllCaught
  <2>2. CASE StartRefresh
    BY <1>4, <2>1, <2>2
  <2>3. CASE lpc' = "exit" /\ skipped' = skipped
    BY <2>1, <2>3 DEF userVars, options, ServeInv, AllCaught, OnlyLenient
  <2> QED
    BY <1>10, <2>2, <2>3 DEF TakeEvent
<1>11. CASE FallAsleep
  BY <1>11 DEF FallAsleep, userVars, options, ServeInv, AllCaught, Caught, OnlyLenient
<1>12. CASE WakeUp
  BY <1>4, <1>12 DEF WakeUp, ServeInv, AllCaught
<1>13. CASE Exit
  <2>1. inPlan' = {} /\ tags' = {} /\ skipped' = {} /\ missing' = {} /\ lpc' # "refresh"
    BY <1>13 DEF Exit, ServeInv, LoopInv, TypeOK
  <2> QED
    BY <2>1 DEF AllCaught, Caught, OnlyLenient
<1>14. CASE PanelStep \/ (\E n \in Nodes : WorkerStep(n) \/ Disconnect(n)) \/ UNCHANGED vars
  <2>1. UNCHANGED <<loopVars, options>>
    BY <1>14 DEF PanelStep, WorkerStep, PanelReconfigure, PanelPublish, Connect, Receive,
       Answer, Disconnect, vars
  <2> QED
    BY <2>1 DEF loopVars, userVars, options, ServeInv, AllCaught, Caught, OnlyLenient
<1> QED
  BY <1>2, <1>3, <1>5, <1>6, <1>7, <1>8, <1>9, <1>10, <1>11, <1>12, <1>13, <1>14
  DEF Next, LoopStep, FaultStep

-----------------------------------------------------------------------------
\* In every reachable state the queue holds at most one event of a worker,
\* whatever the panels send: the unbounded channel of
\* start_realtime_runtime_workers is as long as there are workers.
THEOREM OneEventTheorem == Spec => []OneEventPerWorker
<1>1. Init => LoopInv
  BY ConstantsAssumption DEF Init, LoopInv, TypeOK, Message, NoMessage, OneEventPerWorker,
     ReplyIsAwaited, IdleLoop
<1>2. LoopInv /\ [Next]_vars => LoopInv'
  BY TypeStep, EventStep DEF LoopInv
<1>3. LoopInv => OneEventPerWorker
  BY DEF LoopInv
<1> QED
  BY <1>1, <1>2, <1>3, PTL DEF Spec

\* The types of RealtimeLoop hold in every reachable state.
THEOREM LoopTypeTheorem == Spec => []TypeOK
<1>1. Init => TypeOK
  BY ConstantsAssumption DEF Init, TypeOK, Message, NoMessage
<1> QED
  BY <1>1, TypeStep, PTL DEF Spec

\* No worker is told "applied" before a tick has brought the users its message
\* announced to the core, unless the agent continues on errors and the request for
\* them was skipped or their node was left out (handle_runtime_loop_event).
THEOREM AppliedTheorem == Spec => AppliedMeansTicked
<1>1. Init => ServeInv
  BY ConstantsAssumption DEF Init, ServeInv, LoopInv, TypeOK, Message, NoMessage,
     OneEventPerWorker, ReplyIsAwaited, IdleLoop, OnlyPublished, Announced, EventServed,
     AllCaught, Caught, OnlyLenient
<1>2. ServeInv /\ [Next]_vars => ServeInv'
  BY TypeStep, EventStep, PublishedStep, ServedStep, CaughtStep DEF ServeInv, LoopInv
<1>3. ASSUME ServeInv, [Next]_vars, NEW n \in Nodes, reply[n] = "none", reply'[n] = "applied"
      PROVE  ticked'[n] >= wmsg[n].at \/ (lenient /\ n \in skipped \cup missing')
  <2>0. ticked[n] \in Nat /\ fetched[n] \in Nat /\ wmsg[n].at \in Nat
    <3>1. ticked[n] \in 0..MaxRev /\ fetched[n] \in 0..MaxRev /\ wmsg[n] \in Message
      BY <1>3 DEF ServeInv, LoopInv, TypeOK
    <3> QED
      BY <3>1, ConstantsAssumption DEF Message
  <2>1. ASSUME Finish("applied"), Refreshed
        PROVE  n \in Nodes \ todo /\ (n \in skipped \/ fetched[n] >= wmsg[n].at)
    <3>1. event = n
      BY <1>3, <2>1 DEF Finish, ServeInv, LoopInv, TypeOK
    <3> QED
      BY <1>3, <2>1, <3>1, ConstantsAssumption DEF Refreshed, ServeInv, EventServed
  <2>2. CASE NothingToDo
    <3>1. Finish("applied") /\ Refreshed /\ tags = {} /\ ticked' = ticked /\ missing' = missing
      BY <2>2 DEF NothingToDo, userVars
    <3>2. CASE n \in skipped
      BY <1>3, <3>2 DEF ServeInv, OnlyLenient
    <3>3. CASE n \notin skipped
      <4>1. fetched[n] >= wmsg[n].at /\ n \notin todo
        BY <2>1, <3>1, <3>3
      <4>2. fetched[n] = 0 \/ n \in inPlan
        BY <1>3, <3>1, <3>3, <4>1 DEF Refreshed, ServeInv, AllCaught
      <4>3. fetched[n] <= ticked[n] \/ n \in missing
        BY <1>3, <2>0, <3>1, <4>2 DEF Refreshed, ServeInv, AllCaught, Caught
      <4> QED
        BY <1>3, <2>0, <3>1, <4>1, <4>3 DEF ServeInv, OnlyLenient
    <3> QED
      BY <3>2, <3>3
  <2>3. CASE EventTick
    <3>1. /\ Finish("applied") /\ Refreshed /\ TickUsers /\ skipped' = {}
          /\ UNCHANGED <<fetched, lenient>>
      BY <2>3 DEF EventTick, StartRefresh, options
    <3>2. CASE n \in skipped
      BY <1>3, <3>2 DEF ServeInv, OnlyLenient
    <3>3. CASE n \notin skipped
      <4>1. fetched[n] >= wmsg[n].at
        BY <2>1, <3>1, <3>3
      <4>2. fetched[n] <= ticked'[n] \/ (lenient /\ n \in missing')
        BY <1>3, <3>1, <3>3, TickCatches
      <4>3. ticked'[n] \in Nat
        BY <1>3, <3>1, TickTypes, ConstantsAssumption DEF ServeInv, LoopInv
      <4> QED
        BY <2>0, <4>1, <4>2, <4>3
    <3> QED
      BY <3>2, <3>3
  <2>4. CASE TakeEvent
    <3>1. reply' \in {reply, [reply EXCEPT ![Head(queue)] = "queued"]}
      BY <2>4 DEF TakeEvent
    <3> QED
      BY <1>3, <3>1 DEF ServeInv, LoopInv, TypeOK
  <2>5. ASSUME Finish("failed") PROVE FALSE
    BY <1>3, <2>5 DEF Finish, ServeInv, LoopInv, TypeOK
  <2>6. CASE TickFails \/ Shutdown \/ \E k \in Nodes : RefreshFails(k)
    BY <1>3, <2>5, <2>6 DEF TickFails, Shutdown, RefreshFails
  <2>7. CASE Exit \/ \E k \in Nodes : Answer(k)
    BY <1>3, <2>7 DEF Exit, Answer, ServeInv, LoopInv, TypeOK
  <2>8. CASE reply' = reply
    BY <1>3, <2>8
  <2> QED
    BY <1>3, <2>2, <2>3, <2>4, <2>6, <2>7, <2>8
    DEF Next, PanelStep, WorkerStep, LoopStep, FaultStep, vars, PanelReconfigure,
        PanelPublish, Connect, Receive, Disconnect, Refresh, Boot, TimerTick, FallAsleep,
        WakeUp
<1>4. ServeInv /\ [Next]_vars
        => [\A n \in Nodes : reply[n] = "none" /\ reply'[n] = "applied"
              => ticked'[n] >= wmsg[n].at \/ (lenient /\ n \in skipped \cup missing')]_vars
  BY <1>3
<1> QED
  BY <1>1, <1>2, <1>4, PTL DEF Spec, AppliedMeansTicked

=============================================================================
