------------------------------ MODULE Firmware ------------------------------
(***************************************************************************)
(* The controller of a machine (firmware/esp32/src/main.cpp): one loop that *)
(* reads a button, drives a relay, keeps a record of the running wash in   *)
(* flash (NVS) and talks to the server by blocking calls.                  *)
(*                                                                         *)
(* Here the server may answer anything at any time; WashSystem puts the    *)
(* real one behind these actions.  A loop iteration is cut at its blocking *)
(* calls: between two of them no time passes, during one the clock runs,   *)
(* the device may lose power, panic, or be restarted by the watchdog.      *)
(*                                                                         *)
(* Time is counted in ticks of a few seconds.  `clock' is real time, the   *)
(* device's epoch is clock + skew, and skew changes when NTP steps it.     *)
(* millis() starts again at each boot, but only differences of it are      *)
(* used, modulo 2^32, so it is the clock modulo Wrap here.                 *)
(***************************************************************************)
EXTENDS Integers, Sequences

CONSTANTS
  Sessions,     \* sessions the server may authorize
  Commands,     \* emergency stops the server may send
  None,         \* no session, no command
  Duration,     \* length of a wash
  AuthTtl,      \* life of an authorization
  Margin,       \* what the hard guard allows beyond the duration (5 s)
  MaxGap,       \* REBOOT_RESUME_MAX_GAP_MS
  Watchdog,     \* esp_task_wdt_init: ticks without a loop before a reset
  NtpWait,      \* how long setup() waits for a valid hour
  Wrap,         \* modulus of uint32 milliseconds
  MaxTime,      \* bound: ticks of a behaviour
  MaxSkew,      \* bound: how far NTP steps the epoch
  MaxResets     \* bound: power cuts and panics

ASSUME DeviceAssumption ==
  /\ None \notin Sessions \cup Commands
  /\ { Duration, AuthTtl, Margin, MaxGap, Watchdog, NtpWait } \subseteq Nat \ {0}
  /\ { MaxTime, MaxSkew, MaxResets } \subseteq Nat
  /\ Wrap \in Nat /\ Wrap > Duration + Margin

VARIABLES
  \* the world
  clock, skew,  \* real time, and what to add to it for the device's epoch
  link,         \* the WiFi network is there
  resets,       \* power cuts and panics so far
  \* lost by a restart
  ntp,          \* api.timeValid(); only a power cut loses it
  pc,           \* the stage of the loop
  after,        \* the stage that follows the blocking call
  call,         \* the blocking call
  stall,        \* ticks since the watchdog was last fed
  state,        \* DeviceState
  relay,        \* Relay::isOn
  auth,         \* AuthInfo
  running,      \* the wash in memory
  runStarted,   \* runStartedAtMs
  orders,       \* commands of the heartbeat still to execute
  wifi,         \* wifiConnected, as the loop last saw it
  \* flash
  nvs,          \* NvsStore
  \* history
  confirmed,    \* sessions whose start was answered with 2xx
  stopped,      \* sessions an emergency stop has cut
  water         \* ticks each session had the relay closed

worldVars  == << clock, skew, link, resets >>
callVars   == << pc, after, call >>
washVars   == << relay, running, runStarted, nvs >>
armVars    == << state, auth, orders >>
clockVars  == << ntp, stall, wifi >>
history    == << confirmed, stopped, water >>
vars == << worldVars, callVars, washVars, armVars, clockVars, history >>

epoch == clock + skew

(* 1970 is long past.                                                      *)
Origin == MaxGap + MaxSkew + 1

NoAuth == [ session |-> None, expires |-> 0 ]

(* NvsSession.  Keys that were never written read as zero.                 *)
NoRun == [ session |-> None, deadline |-> 0, lastTick |-> 0 ]

Record(s, d, t) == [ session |-> s, deadline |-> d, lastTick |-> t ]

CallKinds ==
  { "heartbeat", "poll", "start", "finish", "report", "stopReport", "event",
    "ack", "note" }

(* ApiClient::request sends nothing before the hour is valid.              *)
Request(k, s, c) == [ kind |-> k, session |-> s, command |-> c, sent |-> ntp ]

NoCall == [ kind |-> "none", session |-> None, command |-> None, sent |-> FALSE ]

Init ==
  /\ clock = Origin /\ skew = 0
  /\ link \in BOOLEAN
  /\ resets = 0
  /\ ntp = FALSE
  /\ pc = "setup" /\ after = "setup" /\ call = NoCall
  /\ stall = 0
  /\ state = "BOOT" /\ relay = FALSE
  /\ auth = NoAuth /\ running = NoRun /\ runStarted = 0 /\ orders = << >>
  /\ wifi = FALSE
  /\ nvs = NoRun
  /\ confirmed = {} /\ stopped = {}
  /\ water = [ s \in Sessions |-> 0 ]

-----------------------------------------------------------------------------
(* Stages and calls.                                                       *)

Goto(stage) == pc' = stage /\ UNCHANGED << after, call >>

Post(k, s, c, stage) ==
  /\ pc' = "blocked" /\ after' = stage
  /\ call' = Request(k, s, c)

(* A report is dropped when the loop has no network.                       *)
PostIfUp(k, s, c, stage) ==
  \/ wifi /\ Post(k, s, c, stage)
  \/ ~wifi /\ Goto(stage)

Returned(kind, stage) ==
  /\ pc = "blocked" /\ call.kind = kind
  /\ pc' = stage /\ after' = stage /\ call' = NoCall

(* nvs.clear(), running.valid = false, state = IDLE.  The erasure begins   *)
(* with `valid', without which load() looks at no other key: it is a step. *)
ForgetWash ==
  /\ nvs' = NoRun /\ running' = NoRun
  /\ state' = "IDLE"
  /\ UNCHANGED << relay, runStarted >>

Unarmed == auth' = NoAuth /\ state' = "IDLE"

-----------------------------------------------------------------------------
(* setup() and bootDevice().                                               *)

gap == IF epoch > nvs.lastTick THEN epoch - nvs.lastTick ELSE 0
remaining == nvs.deadline - epoch

(* A wash is resumed after a short restart, when its end can be computed.  *)
Resumable == nvs.session # None /\ ntp /\ gap < MaxGap /\ remaining > 0

(* uint32_t arithmetic: a deadline further away than the duration wraps.   *)
Consumed == (Duration - remaining) % Wrap

BootResume ==
  /\ Resumable
  /\ running' = nvs /\ state' = "RUNNING" /\ relay' = TRUE
  /\ runStarted' = (clock - Consumed) % Wrap
  /\ Goto("guard")
  /\ UNCHANGED << nvs, auth, orders >>

(* Fault: a discarded record is left in the flash.                         *)
BootKeeps ==
  /\ nvs.session # None /\ ~Resumable
  /\ state' = "IDLE"
  /\ Goto("guard")
  /\ UNCHANGED << washVars, auth, orders >>

(* Without a valid hour the record is dropped in silence; otherwise the    *)
(* interruption is reported if the loop has found the network.             *)
BootDiscard ==
  /\ nvs.session # None /\ ~Resumable
  /\ \/ ntp /\ PostIfUp("report", nvs.session, None, "guard")
     \/ ~ntp /\ Goto("guard")
  /\ ForgetWash
  /\ UNCHANGED << auth, orders >>

BootIdle ==
  /\ nvs.session = None
  /\ state' = "IDLE"
  /\ Goto("guard")
  /\ UNCHANGED << washVars, auth, orders >>

(* Setup waits for the hour; nobody feeds the watchdog meanwhile.  An hour *)
(* that survived the restart ends the wait at once.                        *)
BootDevice ==
  /\ pc = "setup"
  /\ ntp \/ stall >= NtpWait
  /\ BootResume \/ BootDiscard \/ BootIdle
  /\ UNCHANGED << worldVars, clockVars, history >>

-----------------------------------------------------------------------------
(* loop(), stage by stage.                                                 *)

(* Fault: the guard compares without uint32_t arithmetic.                  *)
OverrunSigned == relay /\ clock - runStarted > Duration + Margin

Overrun == relay /\ (clock - runStarted) % Wrap > Duration + Margin

(* hardRelayGuard, when it trips: the report comes before the record is    *)
(* cleared.                                                                *)
GuardTrips ==
  /\ pc = "guard" /\ Overrun
  /\ relay' = FALSE /\ stall' = 0
  /\ \/ running # NoRun /\ PostIfUp("report", running.session, None, "guardClear")
     \/ running = NoRun /\ Goto("guardClear")
  /\ UNCHANGED << worldVars, running, runStarted, nvs, armVars, ntp, wifi,
                  history >>

GuardClears ==
  /\ pc = "guardClear"
  /\ ForgetWash /\ auth' = NoAuth
  /\ wifi' = link
  /\ Goto("timer")
  /\ UNCHANGED << worldVars, orders, ntp, stall, history >>

(* The guard is silent; connectWifi refreshes what the loop knows.         *)
GuardPasses ==
  /\ pc = "guard" /\ ~Overrun
  /\ stall' = 0 /\ wifi' = link
  /\ Goto("timer")
  /\ UNCHANGED << worldVars, washVars, armVars, ntp, history >>

(* Fault: the timer is due one tick early.                                 *)
TimerDueEarly ==
  state = "RUNNING" /\ running # NoRun /\ ntp /\ running.deadline <= epoch + 1

TimerDue == state = "RUNNING" /\ running # NoRun /\ ntp /\ running.deadline <= epoch

(* Fault: the end of the wash is not reported.                             *)
FinishSilently ==
  /\ pc = "timer" /\ TimerDue
  /\ relay' = FALSE
  /\ Goto("finished")
  /\ UNCHANGED << worldVars, running, runStarted, nvs, armVars, clockVars,
                  history >>

(* finishWash: the relay first, then the report, then the record.          *)
FinishWash ==
  /\ pc = "timer" /\ TimerDue
  /\ relay' = FALSE
  /\ PostIfUp("finish", running.session, None, "finished")
  /\ UNCHANGED << worldVars, running, runStarted, nvs, armVars, clockVars,
                  history >>

WashFinished ==
  /\ pc = "finished"
  /\ ForgetWash
  /\ Goto("persist")
  /\ UNCHANGED << worldVars, auth, orders, clockVars, history >>

TimerPasses ==
  /\ pc = "timer" /\ ~TimerDue
  /\ Goto("persist")
  /\ UNCHANGED << worldVars, washVars, armVars, clockVars, history >>

(* An authorization past its end is dropped; a running wash is persisted.  *)
DropAndPersist ==
  /\ pc = "persist"
  /\ IF state = "ARMED" /\ ntp /\ auth.expires <= epoch
       THEN Unarmed ELSE UNCHANGED << auth, state >>
  /\ IF state = "RUNNING"
       THEN /\ running' = [ running EXCEPT !.lastTick = epoch ]
            /\ nvs' = running'
       ELSE UNCHANGED << running, nvs >>
  /\ Goto("heartbeat")
  /\ UNCHANGED << worldVars, relay, runStarted, orders, clockVars, history >>

(* Heartbeat and poll have intervals of their own: due or not.             *)
Heartbeat ==
  /\ pc = "heartbeat"
  /\ \/ wifi /\ Post("heartbeat", None, None, "poll")
     \/ Goto("poll")
  /\ UNCHANGED << worldVars, washVars, armVars, clockVars, history >>

Poll ==
  /\ pc = "poll"
  /\ \/ /\ wifi /\ state \in { "IDLE", "ARMED" }
        /\ Post("poll", None, None, "button")
     \/ Goto("button")
  /\ UNCHANGED << worldVars, washVars, armVars, clockVars, history >>

(* onButtonPressed: without an authorization or a network only a note is   *)
(* sent, which blocks the loop like any other call.                        *)
Button ==
  /\ pc = "button"
  /\ \/ Goto("guard")
     \/ state = "ARMED" /\ wifi /\ Post("start", auth.session, None, "guard")
     \/ state # "ARMED" /\ PostIfUp("note", None, None, "guard")
  /\ UNCHANGED << worldVars, washVars, armVars, clockVars, history >>

-----------------------------------------------------------------------------
(* The answers.  A call that fails or times out returns the same way with  *)
(* nothing in its hands.                                                   *)

HeartbeatReturns(commands) ==
  /\ orders' = commands
  /\ Returned("heartbeat", IF commands = << >> THEN "poll" ELSE "stop")
  /\ UNCHANGED << worldVars, washVars, state, auth, clockVars, history >>

(* pollAuthorization: without an authorization in the answer, or without   *)
(* an answer, an armed device disarms; an armed one keeps what it has.     *)
PollReturns(s, expires) ==
  /\ Returned("poll", "button")
  /\ \/ s # None /\ state = "IDLE"
        /\ state' = "ARMED" /\ auth' = [ session |-> s, expires |-> expires ]
     \/ s # None /\ state = "ARMED" /\ UNCHANGED << state, auth >>
     \/ s = None /\ state = "ARMED" /\ Unarmed
     \/ s = None /\ state = "IDLE" /\ UNCHANGED << state, auth >>
  /\ UNCHANGED << worldVars, washVars, orders, clockVars, history >>

NewRun == Record(auth.session, epoch + Duration, epoch)

(* Fault: the wash is not recorded before the relay closes.                *)
StartUnrecorded ==
  /\ Returned("start", "guard")
  /\ running' = NewRun /\ nvs' = nvs
  /\ runStarted' = clock % Wrap
  /\ state' = "RUNNING" /\ relay' = TRUE
  /\ confirmed' = confirmed \cup { auth.session }
  /\ UNCHANGED << worldVars, auth, orders, clockVars, stopped, water >>

(* onButtonPressed, 2xx: the wash is recorded before the relay closes.     *)
StartAccepted ==
  /\ Returned("start", "guard")
  /\ running' = NewRun /\ nvs' = NewRun
  /\ runStarted' = clock % Wrap
  /\ state' = "RUNNING" /\ relay' = TRUE
  /\ confirmed' = confirmed \cup { auth.session }
  /\ UNCHANGED << worldVars, auth, orders, clockVars, stopped, water >>

(* 409 disarms; any other failure leaves the device armed.                 *)
StartRefused(conflict) ==
  /\ Returned("start", "guard")
  /\ IF conflict THEN Unarmed ELSE UNCHANGED << auth, state >>
  /\ UNCHANGED << worldVars, washVars, orders, clockVars, history >>

ReportReturns ==
  /\ call.kind \in CallKinds \ { "heartbeat", "poll", "start" }
  /\ Returned(call.kind, after)
  /\ UNCHANGED << worldVars, washVars, armVars, clockVars, history >>

-----------------------------------------------------------------------------
(* An emergency stop of the heartbeat, command by command.                 *)

StopRelay ==
  /\ pc = "stop"
  /\ relay' = FALSE
  /\ \/ state = "RUNNING" /\ PostIfUp("stopReport", running.session, None,
                                      "stopEvent")
     \/ state # "RUNNING" /\ Goto("stopEvent")
  /\ stopped' = stopped \cup ({ running.session } \ { None })
  /\ UNCHANGED << worldVars, running, runStarted, nvs, armVars, clockVars,
                  confirmed, water >>

StopReports ==
  /\ pc = "stopEvent"
  /\ PostIfUp("event", None, None, "stopClear")
  /\ UNCHANGED << worldVars, washVars, armVars, clockVars, history >>

(* Only now are the record and the authorization dropped, then the command *)
(* is acknowledged.                                                        *)
StopClears ==
  /\ pc = "stopClear"
  /\ ForgetWash /\ auth' = NoAuth
  /\ orders' = Tail(orders)
  /\ Post("ack", None, Head(orders), IF Len(orders) = 1 THEN "poll" ELSE "stop")
  /\ UNCHANGED << worldVars, clockVars, history >>

-----------------------------------------------------------------------------
(* Restarts and the passing of time.                                       *)

(* Memory is lost and the relay opens; the hour survives all but a loss of *)
(* power.                                                                  *)
Reset(keepsHour) ==
  /\ pc' = "setup" /\ after' = "setup" /\ call' = NoCall
  /\ stall' = 0 /\ wifi' = FALSE
  /\ ntp' = (ntp /\ keepsHour)
  /\ state' = "BOOT" /\ relay' = FALSE
  /\ auth' = NoAuth /\ running' = NoRun /\ runStarted' = 0 /\ orders' = << >>

Crash ==
  /\ resets < MaxResets
  /\ \E keepsHour \in BOOLEAN : Reset(keepsHour)
  /\ resets' = resets + 1
  /\ UNCHANGED << clock, skew, link, nvs, history >>

(* NvsStore::save writes key by key: a restart inside leaves a prefix.     *)
TornStart ==
  /\ pc = "blocked" /\ call.kind = "start"
  /\ resets < MaxResets
  /\ \E keepsHour \in BOOLEAN : Reset(keepsHour)
  /\ nvs' \in { NoRun, Record(auth.session, 0, 0),
                Record(auth.session, epoch + Duration, 0) }
  /\ confirmed' = confirmed \cup { auth.session }
  /\ resets' = resets + 1
  /\ UNCHANGED << clock, skew, link, stopped, water >>

WatchdogBites ==
  /\ pc \in { "setup", "blocked" }
  /\ stall = Watchdog
  /\ Reset(TRUE)
  /\ UNCHANGED << worldVars, nvs, history >>

(* Fault: a blocking call feeds the watchdog.                              *)
TickFed ==
  /\ clock < MaxTime
  /\ \/ pc = "setup" /\ stall < Watchdog
     \/ pc = "blocked"
     \/ pc = "guard" /\ stall = 0
  /\ clock' = clock + 1
  /\ stall' = IF pc = "blocked" THEN stall ELSE stall + 1
  /\ water' = [ s \in Sessions |->
                  IF relay /\ running.session = s THEN water[s] + 1 ELSE water[s] ]
  /\ UNCHANGED << skew, link, resets, callVars, washVars, armVars, ntp, wifi,
                  confirmed, stopped >>

(* Time passes in a call, while setup waits, and between two iterations.   *)
Tick ==
  /\ clock < MaxTime
  /\ \/ pc \in { "setup", "blocked" } /\ stall < Watchdog
     \/ pc = "guard" /\ stall = 0
  /\ clock' = clock + 1
  /\ stall' = stall + 1
  /\ water' = [ s \in Sessions |->
                  IF relay /\ running.session = s THEN water[s] + 1 ELSE water[s] ]
  /\ UNCHANGED << skew, link, resets, callVars, washVars, armVars, ntp, wifi,
                  confirmed, stopped >>

(* SNTP sets the hour, and may step it later, as far as it can.  Only the  *)
(* loop calls WiFi.begin (main.cpp:65), so the wait of setup is in vain.   *)
NtpSync ==
  /\ link /\ pc # "setup"
  /\ ntp' = TRUE
  /\ skew' \in { -MaxSkew, 0, MaxSkew }
  /\ UNCHANGED << clock, link, resets, callVars, washVars, armVars, stall, wifi,
                  history >>

LinkChanges ==
  /\ link' = ~link
  /\ UNCHANGED << clock, skew, resets, callVars, washVars, armVars, clockVars,
                  history >>

World == Crash \/ WatchdogBites \/ Tick \/ NtpSync \/ LinkChanges

Loop ==
  \/ BootDevice
  \/ GuardTrips \/ GuardClears \/ GuardPasses
  \/ FinishWash \/ WashFinished \/ TimerPasses
  \/ DropAndPersist \/ Heartbeat \/ Poll \/ Button
  \/ StopRelay \/ StopReports \/ StopClears

(* Any server: it may authorize, confirm, refuse and stop as it likes, but *)
(* a session is confirmed once, and what was never sent has no answer.     *)
AnyAnswer ==
  \/ \E commands \in { << >> } \cup { << c >> : c \in Commands } :
       /\ call.sent \/ commands = << >>
       /\ HeartbeatReturns(commands)
  \/ call.sent /\ \E s \in Sessions : PollReturns(s, epoch + AuthTtl)
  \/ PollReturns(None, 0)
  \/ /\ call.sent /\ auth.session \notin confirmed
     /\ StartAccepted \/ TornStart
  \/ \E conflict \in BOOLEAN : (conflict => call.sent) /\ StartRefused(conflict)
  \/ ReportReturns

Next == Loop \/ AnyAnswer \/ World

Spec == Init /\ [][Next]_vars

-----------------------------------------------------------------------------
(* Properties.                                                             *)

Stages ==
  { "setup", "guard", "guardClear", "timer", "finished", "persist", "heartbeat",
    "poll", "button", "stop", "stopEvent", "stopClear", "blocked" }

RunRecords == [ session : Sessions \cup {None}, deadline : Int, lastTick : Int ]

(* Every variable keeps its type.                                          *)
TypeOK ==
  /\ clock \in Nat /\ skew \in Int /\ link \in BOOLEAN /\ resets \in Nat
  /\ ntp \in BOOLEAN /\ pc \in Stages /\ after \in Stages
  /\ call \in [ kind : CallKinds \cup { "none" }, session : Sessions \cup {None},
                command : Commands \cup {None}, sent : BOOLEAN ]
  /\ stall \in Nat
  /\ state \in { "BOOT", "IDLE", "ARMED", "RUNNING" }
  /\ relay \in BOOLEAN
  /\ auth \in [ session : Sessions \cup {None}, expires : Int ]
  /\ running \in RunRecords /\ runStarted \in Int
  /\ orders \in Seq(Commands) /\ wifi \in BOOLEAN
  /\ nvs \in RunRecords
  /\ confirmed \subseteq Sessions /\ stopped \subseteq Sessions
  /\ water \in [ Sessions -> Nat ]

(* While water flows the flash holds the very wash in memory: a restart at *)
(* any moment finds the session and the end it has to respect.             *)
FlowIsRecorded ==
  relay => /\ running.session # None
           /\ nvs.session = running.session
           /\ nvs.deadline = running.deadline

(* Past the guard in the loop a relay is closed, by millis(), for at most   *)
(* one blocked iteration longer than the duration and the margin, whatever *)
(* NTP does around a restart.                                              *)
GuardBounds ==
  relay /\ pc # "guard" =>
    (clock - runStarted) % Wrap <= Duration + Margin + Watchdog

(* Over all its restarts a wash gets less water than its duration, one     *)
(* blocked iteration and the steps of the clock together.                  *)
WaterIsBounded == \A s \in Sessions : water[s] < Duration + Watchdog + 2 * MaxSkew

Phase(s) ==
  IF relay /\ running.session = s THEN "on"
  ELSE IF nvs.session = s THEN "paused"
  ELSE IF s \in confirmed THEN "over" ELSE "waiting"

phases == [ s \in Sessions |-> Phase(s) ]

Abstract == INSTANCE WashTimer WITH phase <- phases

(* The controller keeps the promise of WashTimer.                          *)
ImplementsTimer == Abstract!TimerSpec

(* main.cpp:9: the relay cannot be on longer than the duration and the     *)
(* margin, whatever the network does.                                      *)
GuardIsHard == relay => (clock - runStarted) % Wrap <= Duration + Margin

(* docs/device-protocol.md:152: a stop has priority over any session.      *)
StoppedStaysDry == relay => running.session \notin stopped

(* docs/device-protocol.md:160: a wash that a restart cannot rebuild is    *)
(* reported as interrupted.                                                *)
LostWashIsReported ==
  [][ pc = "setup" /\ nvs.lastTick # 0 /\ nvs'.session = None
      => call'.kind = "report" ]_vars

(* main.cpp:377: the watchdog restarts a loop that hangs; setup, which has *)
(* its own way out without an hour, is not one.                            *)
WatchdogSparesSetup == [][ pc = "setup" => stall' >= stall \/ pc' # "setup" ]_vars
=============================================================================
