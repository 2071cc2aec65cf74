------------------------------ MODULE SimDevice ------------------------------
(***************************************************************************)
(* The simulated controller of a machine (simulator/simDevice.ts) and the  *)
(* hub that drives it: one object, no locks, and asynchronous callers that *)
(* yield at every await.  The hub starts a tick every 250 ms whether or    *)
(* not the previous ones are done; the demo page presses the button and    *)
(* simulates failures at any time.                                         *)
(*                                                                         *)
(* A step is the code between two awaits.  A call to a service is answered *)
(* in the step that follows its last query.  Deadlines are kept as the     *)
(* time left until them, so no clock is needed.                            *)
(***************************************************************************)
EXTENDS Integers, Sequences, FiniteSets

CONSTANTS
  Sessions,      \* sessions of the machine
  Stops,         \* emergency stops the administrator may order
  Ticks,         \* ticks of the hub that may be in progress at once
  Presses,       \* presses of the button that may be in progress at once
  Controls,      \* failures and repairs the demo page may simulate
  None,
  Duration,      \* length of a wash
  Ttl,           \* life of an authorization
  MaxGap,        \* REBOOT_RESUME_MAX_GAP_MS
  MaxRetries,    \* how often a queued item is retried
  MaxCallers,    \* bound: ticks and presses in progress at once
  MaxIncidents   \* bound: calls that fail and uses of the demo page

ASSUME SimAssumption ==
  /\ None \notin Sessions \cup Stops
  /\ { Duration, Ttl, MaxGap } \subseteq Nat \ {0}
  /\ { MaxRetries, MaxCallers, MaxIncidents } \subseteq Nat

VARIABLES
  \* the device
  wifi, reachable,  \* wifiConnected, backendReachable
  state, relay,
  auth,             \* the session of the authorization it holds
  running,          \* runningSessionId
  deadline,         \* time left, or None
  nvs,              \* the file of the record
  queue,            \* items to send
  \* its callers, at their awaits
  tick, press, finishing,
  \* the server
  session, ttl, stops,
  \* bounds and history
  faults, controls,
  granted,          \* sessions whose start the server accepted
  completed,        \* those of them whose local timer ran out
  adopted,          \* sessions a record named while the wash of another ran
  stopped,          \* sessions a stop has cut
  losses,           \* the ways in which items left the queue unsent
  overlapped,       \* two ticks were sending at once
  upset             \* a control was used that a wash need not survive

device  == << wifi, reachable, state, relay, auth, running, deadline, nvs, queue >>
callers == << tick, press, finishing >>
server  == << session, ttl, stops >>
bounds  == << faults, controls >>
history == << granted, completed, adopted, stopped, losses, overlapped, upset >>
vars == << device, callers, server, bounds, history >>

NoRecord == [ session |-> None, left |-> 0, gap |-> 0 ]

Item(kind, s) == [ kind |-> kind, session |-> s, retries |-> 0 ]

(* A tick between two awaits: its stage, the stops it is executing, the    *)
(* authorization it was answered, the item it is sending, and how many     *)
(* items were removed since it took that one: it is still the head when    *)
(* that is 0.                                                              *)
NoTick == [ at |-> "idle", orders |-> {}, answer |-> None,
            item |-> Item("none", None), behind |-> 0 ]

NoPress == [ at |-> "idle", session |-> None ]

Queued(items) == queue' = queue \o items

Resumable(gap) == nvs.session # None /\ gap < MaxGap /\ nvs.left > 0

(* What a boot queues: the reboot, and a wash resumed or given up.         *)
BootItems(gap) ==
  << Item("event", None) >>
  \o (IF nvs.session = None THEN << >>
      ELSE IF Resumable(gap) THEN << Item("event", None) >>
      ELSE << Item("interrupted", nvs.session) >>)

(* boot(): the relay opens; a record recent enough resumes its wash.  The  *)
(* rest of the memory is left as it was.                                   *)
Boot(gap, memory) ==
  IF Resumable(gap)
    THEN /\ state' = "RUNNING" /\ relay' = TRUE
         /\ running' = nvs.session /\ auth' = nvs.session /\ deadline' = nvs.left
         /\ UNCHANGED nvs
    ELSE /\ state' = "IDLE" /\ relay' = FALSE
         /\ running' = memory[1] /\ auth' = memory[2] /\ deadline' = memory[3]
         /\ nvs' = NoRecord

Memory == << running, auth, deadline >>

Init ==
  /\ wifi = TRUE /\ reachable = TRUE
  /\ state = "IDLE" /\ relay = FALSE
  /\ auth = None /\ running = None /\ deadline = None
  /\ nvs = NoRecord
  /\ queue = << Item("event", None) >>
  /\ tick = [ t \in Ticks |-> NoTick ]
  /\ press = [ p \in Presses |-> NoPress ]
  /\ finishing = {}
  /\ session = [ s \in Sessions |-> "NONE" ]
  /\ ttl = [ s \in Sessions |-> 0 ]
  /\ stops = {}
  /\ faults = 0 /\ controls = 0
  /\ granted = {} /\ completed = {} /\ adopted = {} /\ stopped = {}
  /\ losses = {} /\ overlapped = FALSE /\ upset = FALSE

-----------------------------------------------------------------------------
(* A tick.                                                                 *)

(* A tick or a press may go to its first await.                            *)
CallerFree ==
  Cardinality({ t \in Ticks : tick[t].at # "idle" })
    + Cardinality({ p \in Presses : press[p].at # "idle" }) < MaxCallers

IncidentLeft == faults + controls < MaxIncidents

Goto(t, stage) == tick' = [ tick EXCEPT ![t] = [ NoTick EXCEPT !.at = stage ] ]

(* completeWash: the report is sent aside, or queued without a connection. *)
CompleteWash ==
  /\ relay' = FALSE /\ state' = "IDLE"
  /\ auth' = None /\ running' = None /\ deadline' = None
  /\ nvs' = NoRecord
  /\ completed' = completed \cup ({ running } \cap granted)
  /\ UNCHANGED adopted
  /\ IF running # None /\ wifi /\ reachable
       THEN finishing' = finishing \cup { running } /\ UNCHANGED queue
       ELSE Queued(IF running = None THEN << >> ELSE << Item("finish", running) >>)
            /\ UNCHANGED finishing

(* persistNvs writes the session of the authorization the device holds, and*)
(* nothing without a deadline or an authorization.                         *)
Persisted(a, left) ==
  IF a = None \/ left = None THEN nvs
  ELSE [ session |-> a, left |-> left, gap |-> 0 ]

(* The authorization may be of another session than the wash that runs.    *)
Adopting == adopted' = adopted \cup ({ nvs'.session } \ { nvs.session, running' })

(* The local timer, the local expiry, and the record, written when the last*)
(* one is more than a second old.                                          *)
TickTimer ==
  \/ /\ state = "RUNNING" /\ deadline = 0
     /\ CompleteWash
  \/ /\ state = "ARMED" /\ auth # None /\ ttl[auth] = 0
     /\ auth' = None /\ state' = "IDLE"
     /\ UNCHANGED << relay, running, deadline, nvs, queue, finishing, completed,
                     adopted >>
  \/ /\ state = "RUNNING" /\ deadline # 0
     /\ nvs' \in { Persisted(auth, deadline) } \cup (IF nvs.gap = 0 THEN { nvs } ELSE {})
     /\ UNCHANGED << state, relay, auth, running, deadline, queue, finishing,
                     completed >>
     /\ Adopting
  \/ /\ state # "RUNNING"
     /\ ~(state = "ARMED" /\ auth # None /\ ttl[auth] = 0)
     /\ UNCHANGED << state, relay, auth, running, deadline, nvs, queue, finishing,
                     completed, adopted >>

(* tick: the local timer first; then heartbeat and poll, when they are due,*)
(* and the queue.                                                          *)
TickBegin(t) ==
  /\ tick[t].at = "idle"
  /\ TickTimer
  /\ \/ /\ wifi /\ reachable /\ CallerFree
        /\ \E stage \in { "heartbeat", "poll", "flush" } : Goto(t, stage)
     \/ /\ ~(wifi /\ reachable)
        /\ UNCHANGED tick
  /\ UNCHANGED << wifi, reachable, press, server, bounds, granted, stopped, losses,
                  overlapped, upset >>

(* A stop of the heartbeat's answer.  The record is not cleared.           *)
ObeyStop ==
  /\ relay' = FALSE /\ state' = "IDLE"
  /\ auth' = None /\ running' = None /\ deadline' = None
  /\ Queued((IF state = "RUNNING" /\ running # None
               THEN << Item("interrupted", running) >> ELSE << >>)
            \o << Item("stopEvent", None) >>)
  /\ stopped' = stopped \cup ({ running } \ { None })

AfterHeartbeat(t) == \E stage \in { "poll", "flush" } : Goto(t, stage)

HeartbeatServed(t) ==
  /\ tick[t].at = "heartbeat"
  /\ \/ /\ stops = {}
        /\ reachable' = TRUE
        /\ AfterHeartbeat(t)
        /\ UNCHANGED << state, relay, auth, running, deadline, queue, stopped >>
     \/ /\ stops # {}
        /\ ObeyStop
        /\ tick' = [ tick EXCEPT ![t].at = "ack", ![t].orders = stops ]
        /\ UNCHANGED reachable
  /\ UNCHANGED << wifi, nvs, press, finishing, server, bounds, granted, completed,
                  adopted, losses, overlapped, upset >>

(* The stop is acknowledged; the next one of the same answer follows.      *)
AckServed(t) ==
  /\ tick[t].at = "ack"
  /\ \E c \in tick[t].orders :
       /\ stops' = stops \ { c }
       /\ IF tick[t].orders = { c }
            THEN /\ reachable' = TRUE
                 /\ AfterHeartbeat(t)
                 /\ UNCHANGED << state, relay, auth, running, deadline, queue, stopped >>
            ELSE /\ ObeyStop
                 /\ tick' = [ tick EXCEPT ![t].orders = @ \ { c } ]
                 /\ UNCHANGED reachable
  /\ UNCHANGED << wifi, nvs, press, finishing, session, ttl, bounds, granted,
                  completed, adopted, losses, overlapped, upset >>

(* doHeartbeat catches everything; the tick goes on.                       *)
HeartbeatFails(t) ==
  /\ tick[t].at \in { "heartbeat", "ack" } /\ IncidentLeft
  /\ faults' = faults + 1
  /\ reachable' = FALSE
  /\ AfterHeartbeat(t)
  /\ UNCHANGED << wifi, state, relay, auth, running, deadline, nvs, queue, press,
                  finishing, server, controls, history >>

Deliverable == { s \in Sessions : session[s] = "ARMED" /\ ttl[s] > 0 }

(* The server reads the authorization; its answer is on the way.           *)
PollRead(t) ==
  /\ tick[t].at = "poll"
  /\ \/ \E s \in Deliverable :
          tick' = [ tick EXCEPT ![t].at = "polled", ![t].answer = s ]
     \/ Deliverable = {} /\ tick' = [ tick EXCEPT ![t].at = "polled" ]
  /\ UNCHANGED << device, press, finishing, server, bounds, history >>

PollReturns(t) ==
  /\ tick[t].at = "polled"
  /\ auth' = tick[t].answer
  /\ state' = IF tick[t].answer # None /\ state = "IDLE" THEN "ARMED"
              ELSE IF tick[t].answer = None /\ state = "ARMED" THEN "IDLE" ELSE state
  /\ reachable' = TRUE
  /\ Goto(t, "flush")
  /\ UNCHANGED << wifi, relay, running, deadline, nvs, queue, press, finishing,
                  server, bounds, history >>

PollFails(t) ==
  /\ tick[t].at \in { "poll", "polled" } /\ IncidentLeft
  /\ faults' = faults + 1
  /\ reachable' = FALSE
  /\ Goto(t, "flush")
  /\ UNCHANGED << wifi, state, relay, auth, running, deadline, nvs, queue, press,
                  finishing, server, controls, history >>

(* flushQueue takes the head without removing it; another tick may have    *)
(* taken it too.                                                           *)
FlushTake(t) ==
  /\ tick[t].at = "flush"
  /\ \/ queue = << >> /\ Goto(t, "idle") /\ UNCHANGED overlapped
     \/ /\ queue # << >>
        /\ tick' = [ tick EXCEPT ![t].at = "sending", ![t].item = Head(queue) ]
        /\ overlapped' = (overlapped \/ \E u \in Ticks : tick[u].at = "sending")
  /\ UNCHANGED << device, press, finishing, server, bounds, granted, completed,
                  adopted, stopped, losses, upset >>

(* queue.shift() removes whatever is at the head by now; ways says how an  *)
(* item was lost apart from that.                                          *)
Shift(t, ways) ==
  /\ queue' = IF queue = << >> THEN << >> ELSE Tail(queue)
  /\ tick' = [ u \in Ticks |->
                 IF u = t THEN [ NoTick EXCEPT !.at = "flush" ]
                 ELSE IF tick[u].at = "sending" /\ queue # << >>
                   THEN [ tick[u] EXCEPT !.behind = @ + 1 ]
                 ELSE tick[u] ]
  /\ losses' = losses \cup ways
                 \cup (IF queue # << >> /\ tick[t].behind > 0 THEN { "overtaken" } ELSE {})

(* What the services do with an item; a report of a session that does not  *)
(* run is answered or refused, and is done with either way.                *)
Effect(item) ==
  /\ session' = IF item.kind \in { "finish", "interrupted" }
                   /\ session[item.session] = "RUNNING"
                  THEN [ session EXCEPT ![item.session] =
                           IF item.kind = "finish" THEN "FINISHED" ELSE "INTERRUPTED" ]
                  ELSE session
  /\ stops' = IF item.kind = "stopEvent" THEN {} ELSE stops
  /\ UNCHANGED ttl

FlushServed(t) ==
  /\ tick[t].at = "sending"
  /\ Effect(tick[t].item)
  /\ Shift(t, {})
  /\ UNCHANGED << wifi, reachable, state, relay, auth, running, deadline, nvs, press,
                  finishing, bounds, granted, completed, adopted, stopped, overlapped,
                  upset >>

(* The item is given up; one that was not tried often enough is lost.      *)
Drop(t) == Shift(t, IF tick[t].item.retries < MaxRetries THEN { "early" } ELSE {})

(* Fault: an item that fails is dropped at once.                           *)
FlushDrops(t) ==
  /\ tick[t].at = "sending" /\ IncidentLeft
  /\ faults' = faults + 1
  /\ Drop(t)
  /\ UNCHANGED << wifi, reachable, state, relay, auth, running, deadline, nvs, press,
                  finishing, server, controls, granted, completed, adopted, stopped,
                  overlapped, upset >>

Failed(item) == [ item EXCEPT !.retries = @ + 1 ]

(* The retry is counted in the item itself, wherever it is by now.         *)
CountRetry(t) ==
  /\ queue' = IF tick[t].behind = 0 THEN [ queue EXCEPT ![1] = Failed(@) ] ELSE queue
  /\ tick' = [ u \in Ticks |->
                 IF u = t THEN NoTick
                 ELSE IF tick[u].at = "sending" /\ tick[u].behind = tick[t].behind
                   THEN [ tick[u] EXCEPT !.item = Failed(@) ]
                 ELSE tick[u] ]

(* An item that keeps failing is dropped; otherwise the loop stops here.   *)
FlushFails(t) ==
  /\ tick[t].at = "sending" /\ IncidentLeft
  /\ faults' = faults + 1
  /\ IF tick[t].item.retries >= MaxRetries THEN Drop(t)
     ELSE CountRetry(t) /\ UNCHANGED losses
  /\ UNCHANGED << wifi, reachable, state, relay, auth, running, deadline, nvs, press,
                  finishing, server, controls, granted, completed, adopted, stopped,
                  overlapped, upset >>

(* flushFinish, which nobody awaits: a failure is only noted.              *)
FinishServed(s) ==
  /\ s \in finishing
  /\ finishing' = finishing \ { s }
  /\ Effect(Item("finish", s))
  /\ UNCHANGED << device, tick, press, bounds, history >>

FinishFails(s) ==
  /\ s \in finishing /\ IncidentLeft
  /\ faults' = faults + 1
  /\ finishing' = finishing \ { s }
  /\ UNCHANGED << device, tick, press, server, controls, history >>

-----------------------------------------------------------------------------
(* A press of the button.                                                  *)

PressBegin(p) ==
  /\ press[p].at = "idle"
  /\ \/ /\ state = "ARMED" /\ auth # None /\ wifi /\ reachable /\ CallerFree
        /\ press' = [ press EXCEPT ![p].at = "lookup" ]
        /\ UNCHANGED << queue, controls >>
     \/ /\ ~(state = "ARMED" /\ auth # None /\ wifi /\ reachable)
        /\ IncidentLeft /\ controls' = controls + 1
        /\ Queued(<< Item("event", None) >>)
        /\ UNCHANGED press
  /\ UNCHANGED << wifi, reachable, state, relay, auth, running, deadline, nvs, tick,
                  finishing, server, faults, history >>

(* The authorization is read after two awaits: it may be gone.             *)
PressLookup(p) ==
  /\ press[p].at = "lookup"
  /\ press' = [ press EXCEPT ![p] =
                  IF auth = None THEN NoPress ELSE [ at |-> "start", session |-> auth ] ]
  /\ UNCHANGED << device, tick, finishing, server, bounds, history >>

(* Fault: the start of a session that runs already is answered as done.    *)
StartableAgain == Deliverable \cup { s \in Sessions : session[s] = "RUNNING" }

(* startSessionFromDevice starts a session once.                           *)
Startable == Deliverable

(* Fault: the device starts without looking at the answer.                 *)
PressStartsAnyway(p) ==
  /\ press[p].at = "start"
  /\ UNCHANGED << session, granted >>
  /\ state' = "RUNNING" /\ relay' = TRUE
  /\ running' = press[p].session /\ deadline' = Duration
  /\ nvs' = Persisted(auth, Duration) /\ Adopting
  /\ press' = [ press EXCEPT ![p] = NoPress ]
  /\ UNCHANGED << wifi, reachable, auth, queue, tick, finishing, ttl, stops, bounds,
                  completed, stopped, losses, overlapped, upset >>

PressStarts(p) ==
  /\ press[p].at = "start" /\ press[p].session \in Startable
  /\ session' = [ session EXCEPT ![press[p].session] = "RUNNING" ]
  /\ granted' = granted \cup { press[p].session }
  /\ state' = "RUNNING" /\ relay' = TRUE
  /\ running' = press[p].session /\ deadline' = Duration
  /\ nvs' = Persisted(auth, Duration) /\ Adopting
  /\ press' = [ press EXCEPT ![p] = NoPress ]
  /\ UNCHANGED << wifi, reachable, auth, queue, tick, finishing, ttl, stops, bounds,
                  completed, stopped, losses, overlapped, upset >>

(* The refusal is recorded before it is thrown.                            *)
PressRefused(p) ==
  /\ press[p].at = "start" /\ press[p].session \notin Startable
  /\ press' = [ press EXCEPT ![p].at = "refused" ]
  /\ UNCHANGED << device, tick, finishing, server, bounds, history >>

PressReturns(p) ==
  /\ press[p].at = "refused"
  /\ auth' = None /\ state' = "IDLE"
  /\ press' = [ press EXCEPT ![p] = NoPress ]
  /\ UNCHANGED << wifi, reachable, relay, running, deadline, nvs, queue, tick,
                  finishing, server, bounds, history >>

PressFails(p) ==
  /\ press[p].at \in { "lookup", "start" } /\ IncidentLeft
  /\ faults' = faults + 1
  /\ press' = [ press EXCEPT ![p] = NoPress ]
  /\ UNCHANGED << device, tick, finishing, server, controls, history >>

-----------------------------------------------------------------------------
(* The demo page.                                                          *)

(* What disconnect and device_error do to a wash.                          *)
CutWash ==
  /\ relay' = FALSE
  /\ auth' = None /\ running' = None /\ deadline' = None

(* Fault: a cut wash is not reported.                                      *)
InterruptionNever == << >>

Interruption ==
  IF state = "RUNNING" /\ running # None THEN << Item("interrupted", running) >>
  ELSE << >>

Disconnect ==
  /\ wifi' = FALSE /\ reachable' = FALSE
  /\ CutWash /\ state' = "OFFLINE" /\ nvs' = NoRecord
  /\ Queued(Interruption)

Reconnect ==
  /\ wifi' = TRUE /\ reachable' = TRUE
  /\ Boot(nvs.gap, Memory) /\ Queued(BootItems(nvs.gap))

Reboot ==
  /\ Boot(nvs.gap, Memory) /\ Queued(BootItems(nvs.gap))
  /\ UNCHANGED << wifi, reachable >>

InternetCut ==
  /\ reachable' = FALSE /\ Queued(<< Item("event", None) >>)
  /\ UNCHANGED << wifi, state, relay, auth, running, deadline, nvs >>

InternetRestore ==
  /\ reachable' = TRUE /\ Queued(<< Item("event", None) >>)
  /\ UNCHANGED << wifi, state, relay, auth, running, deadline, nvs >>

PowerCut ==
  /\ Boot(MaxGap + 1, Memory)
  /\ Queued(Append(BootItems(MaxGap + 1), Item("event", None)))
  /\ UNCHANGED << wifi, reachable >>

DeviceError ==
  /\ CutWash /\ state' = "ERROR"
  /\ Queued(Interruption \o << Item("event", None) >>)
  /\ UNCHANGED << wifi, reachable, nvs >>

ClearError ==
  /\ state' = "IDLE"
  /\ UNCHANGED << wifi, reachable, relay, auth, running, deadline, nvs, queue >>

(* Controls that a wash survives or that are reported.  The others are     *)
(* disconnect, every restart, and clear_error, which leaves a wash closed  *)
(* in IDLE, where no timer looks at it.                                    *)
Mended == { "internet_cut", "internet_restore", "device_error" }

Control(name, action) ==
  /\ name \in Controls /\ IncidentLeft
  /\ action
  /\ controls' = controls + 1
  /\ upset' = (upset \/ name \notin Mended)
  /\ UNCHANGED << callers, server, faults, granted, completed, adopted, stopped,
                  losses, overlapped >>

(* The server process restarts: only the record and the rows are left, and *)
(* what was queued is gone.                                                *)
ProcessRestarts ==
  /\ "restart" \in Controls /\ IncidentLeft
  /\ controls' = controls + 1
  /\ wifi' = TRUE /\ reachable' = TRUE
  /\ Boot(nvs.gap, << None, None, None >>)
  /\ queue' = BootItems(nvs.gap)
  /\ tick' = [ t \in Ticks |-> NoTick ] /\ press' = [ p \in Presses |-> NoPress ]
  /\ finishing' = {} /\ upset' = TRUE
  /\ losses' = losses \cup (IF queue = << >> THEN {} ELSE { "restart" })
  /\ UNCHANGED << server, faults, granted, completed, adopted, stopped, overlapped >>

DemoPage ==
  \/ Control("disconnect", Disconnect) \/ Control("reconnect", Reconnect)
  \/ Control("reboot", Reboot) \/ Control("power_cut", PowerCut)
  \/ Control("internet_cut", InternetCut)
  \/ Control("internet_restore", InternetRestore)
  \/ Control("device_error", DeviceError) \/ Control("clear_error", ClearError)

-----------------------------------------------------------------------------
(* Time and the server.                                                    *)

Less(n) == IF n = None \/ n = 0 THEN n ELSE n - 1

(* A persisted deadline passes with the others, and the record ages.       *)
Elapse ==
  /\ deadline' = Less(deadline)
  /\ ttl' = [ s \in Sessions |-> Less(ttl[s]) ]
  /\ nvs' = IF nvs = NoRecord THEN nvs
            ELSE [ nvs EXCEPT !.left = Less(@), !.gap = IF @ < MaxGap THEN @ + 1 ELSE @ ]
  /\ << deadline', ttl', nvs' >> # << deadline, ttl, nvs >>
  /\ UNCHANGED << wifi, reachable, state, relay, auth, running, queue, callers,
                  session, stops, bounds, history >>

ActiveNow == { s \in Sessions : session[s] \in { "ARMED", "RUNNING" } }

Arm(s) ==
  /\ session[s] = "NONE" /\ ActiveNow = {}
  /\ session' = [ session EXCEPT ![s] = "ARMED" ]
  /\ ttl' = [ ttl EXCEPT ![s] = Ttl ]
  /\ UNCHANGED << device, callers, stops, bounds, history >>

Expire(s) ==
  /\ session[s] = "ARMED" /\ ttl[s] = 0
  /\ session' = [ session EXCEPT ![s] = "EXPIRED" ]
  /\ UNCHANGED << device, callers, ttl, stops, bounds, history >>

AdminStop(c) ==
  /\ c \notin stops /\ IncidentLeft
  /\ controls' = controls + 1
  /\ stops' = stops \cup { c }
  /\ session' = [ s \in Sessions |-> IF s \in ActiveNow THEN "STOPPED" ELSE session[s] ]
  /\ UNCHANGED << device, callers, ttl, faults, history >>

TickStep(t) ==
  \/ TickBegin(t) \/ HeartbeatServed(t) \/ AckServed(t)
  \/ PollRead(t) \/ PollReturns(t) \/ FlushTake(t) \/ FlushServed(t)

TickFails(t) == HeartbeatFails(t) \/ PollFails(t) \/ FlushFails(t)

PressStep(p) ==
  PressBegin(p) \/ PressLookup(p) \/ PressStarts(p) \/ PressRefused(p) \/ PressReturns(p)

Server == \E s \in Sessions : Arm(s) \/ Expire(s)

Next ==
  \/ \E t \in Ticks : TickStep(t) \/ TickFails(t)
  \/ \E p \in Presses : PressStep(p) \/ PressFails(p)
  \/ \E s \in Sessions : FinishServed(s) \/ FinishFails(s)
  \/ DemoPage \/ ProcessRestarts \/ Elapse \/ Server
  \/ \E c \in Stops : AdminStop(c)

Spec == Init /\ [][Next]_vars

(* The hub's interval goes on, services answer a tick, time passes, and    *)
(* heartbeats fall due again and again.                                    *)
Fairness ==
  /\ \A t \in Ticks : WF_vars(tick[t].at # "idle" /\ TickStep(t))
  /\ SF_vars(\E t \in Ticks : TickBegin(t) /\ tick'[t].at = "heartbeat")
  /\ \A s \in Sessions : WF_vars(FinishServed(s))
  /\ WF_vars(Elapse)

FairSpec == Spec /\ Fairness

-----------------------------------------------------------------------------
(* Properties.                                                             *)

Items == [ kind : { "event", "stopEvent", "finish", "interrupted" },
           session : Sessions \cup { None }, retries : 0..MaxRetries ]

(* Every variable keeps its type; only a report names a session.           *)
TypeOK ==
  /\ { wifi, reachable, relay } \subseteq BOOLEAN
  /\ state \in { "IDLE", "ARMED", "RUNNING", "OFFLINE", "ERROR" }
  /\ { auth, running } \subseteq Sessions \cup { None }
  /\ deadline \in 0..Duration \cup { None }
  /\ nvs \in [ session : Sessions \cup { None }, left : 0..Duration, gap : 0..MaxGap ]
  /\ \A i \in DOMAIN queue :
       /\ queue[i] \in Items
       /\ (queue[i].kind \in { "finish", "interrupted" }) = (queue[i].session # None)
  /\ session \in [ Sessions -> { "NONE", "ARMED", "RUNNING", "FINISHED",
                                 "INTERRUPTED", "STOPPED", "EXPIRED" } ]
  /\ finishing \subseteq Sessions /\ stops \subseteq Stops

(* Whatever ticks, presses, late answers, controls and restarts overlap, a *)
(* closed relay is of a session whose start the server accepted, or of one *)
(* that persistNvs (simDevice.ts:105), which writes the authorization the  *)
(* device holds, named while the wash of another ran.                      *)
RelayIsGranted == relay => running \in granted \cup adopted

(* A wash that ran to its end never gets water again, with the same        *)
(* exception: no restart, press or late answer brings its record back.     *)
FinishedStaysDry == relay => running \notin completed \ adopted

(* simDevice.ts:246: as long as no two ticks are sending at once, what was *)
(* queued leaves the queue by being sent, after the retries line 277       *)
(* allows, or because the process restarts.                                *)
QueueIsSent == ~overlapped => losses \subseteq { "restart" }

(* No call failed, no control was used that a wash need not survive, and   *)
(* neither ticks that send nor presses overlapped.                         *)
Undisturbed ==
  /\ faults = 0 /\ ~upset /\ ~overlapped
  /\ \A p, q \in Presses : press[p].at # "idle" /\ press[q].at # "idle" => p = q

(* Of a device so treated, a session that runs at the server ends there,   *)
(* over cuts of the network that are repaired and errors of the device.    *)
WashIsReported ==
  []<>(wifi /\ reachable) /\ []Undisturbed =>
    \A s \in Sessions : (session[s] = "RUNNING") ~> (session[s] # "RUNNING")

(* DemoDevicePage.tsx:161: the local timer cuts; it only looks at a device *)
(* that is RUNNING, so a relay closed in another state stays closed.       *)
RelayOnlyRunning == relay => state = "RUNNING"

(* architecture.md:85: an end is reported on reconnection.                 *)
EverythingIsSent == losses = {}

(* The two exceptions of persistNvs, left out.                             *)
EveryRelayIsGranted == relay => running \in granted

EveryFinishedStaysDry == relay => running \notin completed

(* simDevice.ts:198: an emergency stop has absolute priority.              *)
StoppedStaysDry == relay => running \notin stopped

(* device-protocol.md:159: a short restart resumes the wash, so that a tick*)
(* during a wash has to leave a fresh record of it.                        *)
TickKeepsRecord ==
  [][ (\E t \in Ticks : TickBegin(t)) /\ state' = "RUNNING" /\ nvs.gap > 0
      => nvs'.session = running' /\ nvs'.gap = 0 ]_vars

(* simDevice.ts:42: heartbeats are periodic, a failed one included.        *)
HeartbeatsGoOn ==
  [](wifi) => []<>(\E t \in Ticks : tick[t].at = "heartbeat")
=============================================================================
