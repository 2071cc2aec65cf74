----------------------------- MODULE WashSystem -----------------------------
(***************************************************************************)
(* One machine's controller and the server's device protocol, with a       *)
(* network between them that loses requests, loses answers and delivers a  *)
(* request after its sender gave up.                                       *)
(*                                                                         *)
(* The device is the module Firmware; its calls are answered by the        *)
(* services of deviceService.ts, each a step at the server.  Payments are  *)
(* reduced to the moment a session is authorized (WashBackend has them).   *)
(***************************************************************************)
EXTENDS Firmware, FiniteSets

CONSTANTS
  LastArm,      \* bound: no session is authorized after this tick
  MaxLosses,    \* bound: calls given up with their request on the network
  CommandRank   \* order in which the commands are created

ASSUME SystemAssumption ==
  /\ LastArm \in Int /\ MaxLosses \in Nat
  /\ CommandRank \in [ Commands -> Nat ]
  /\ \A c, d \in Commands : CommandRank[c] = CommandRank[d] => c = d

VARIABLES
  session,      \* sessions.status
  authz,        \* authorizations.status
  expiresAt,    \* authorizations.expires_at
  command,      \* device_commands.status
  answer,       \* what the server answered to the call in progress
  late,         \* requests whose sender no longer waits
  losses,       \* calls given up so far
  received,     \* history: commands that reached the device
  restarted     \* history: washes a restart found in memory

serverVars == << session, authz, expiresAt, command >>
netVars    == << answer, late, losses >>
reached    == << received, restarted >>
sysVars    == << vars, serverVars, netVars, reached >>

NoAnswer == [ ready |-> FALSE, commands |-> << >>, auths |-> {}, ok |-> FALSE ]

ActiveNow == { s \in Sessions :
                 session[s] \in { "AUTHORIZED", "WAITING_FOR_BUTTON", "RUNNING" } }

SysInit ==
  /\ Init
  /\ session = [ s \in Sessions |-> "NONE" ]
  /\ authz = [ s \in Sessions |-> "NONE" ]
  /\ expiresAt = [ s \in Sessions |-> 0 ]
  /\ command = [ c \in Commands |-> "NONE" ]
  /\ answer = NoAnswer /\ late = {} /\ losses = 0
  /\ received = {} /\ restarted = {}

-----------------------------------------------------------------------------
(* The server: what each request does to the rows, and what it answers.    *)

Pending == { c \in Commands : command[c] = "PENDING" }

(* Fault: only a machine with an active session is told of its commands.   *)
PendingIfActive ==
  IF ActiveNow = {} THEN << >>
  ELSE CHOOSE q \in [ 1..Cardinality(Pending) -> Pending ] :
         \A i, j \in DOMAIN q : i < j => CommandRank[q[i]] < CommandRank[q[j]]

(* pendingCommandsForMachine: in the order of their creation.              *)
PendingInOrder ==
  CHOOSE q \in [ 1..Cardinality(Pending) -> Pending ] :
    \A i, j \in DOMAIN q : i < j => CommandRank[q[i]] < CommandRank[q[j]]

(* getActiveAuthorizationForMachine: the machine has at most one.          *)
Deliverable(s) == authz[s] = "AUTHORIZED" /\ expiresAt[s] > clock

(* getAuthorizationForDevice: the first delivery makes the session wait    *)
(* for its button.                                                         *)
ServePoll ==
  /\ session' = [ s \in Sessions |->
                    IF Deliverable(s) /\ session[s] = "AUTHORIZED"
                      THEN "WAITING_FOR_BUTTON" ELSE session[s] ]
  /\ UNCHANGED << authz, expiresAt, command >>

Startable(s) == Deliverable(s) /\ session[s] = "WAITING_FOR_BUTTON"

(* startSessionFromDevice: consumed and running at once, or 409.           *)
ServeStart(s) ==
  /\ IF Startable(s)
       THEN /\ session' = [ session EXCEPT ![s] = "RUNNING" ]
            /\ authz' = [ authz EXCEPT ![s] = "CONSUMED" ]
       ELSE UNCHANGED << session, authz >>
  /\ UNCHANGED << expiresAt, command >>

(* finishSession, interruptSession: only a running session ends; anything  *)
(* else is an idempotent answer or an error.                               *)
ServeEnd(s, end) ==
  /\ session' = [ session EXCEPT ![s] = IF @ = "RUNNING" THEN end ELSE @ ]
  /\ UNCHANGED << authz, expiresAt, command >>

(* recordDeviceEvent: an EMERGENCY_STOP event acknowledges every pending   *)
(* stop of the machine.                                                    *)
ServeEvent ==
  /\ command' = [ c \in Commands |->
                    IF c \in Pending THEN "DELIVERED" ELSE command[c] ]
  /\ UNCHANGED << session, authz, expiresAt >>

ServeAck(c) ==
  /\ command' = [ command EXCEPT ![c] = "DELIVERED" ]
  /\ UNCHANGED << session, authz, expiresAt >>

Handle(r) ==
  \/ r.kind \in { "heartbeat", "note" } /\ UNCHANGED serverVars
  \/ r.kind = "poll" /\ ServePoll
  \/ r.kind = "start" /\ ServeStart(r.session)
  \/ r.kind = "finish" /\ ServeEnd(r.session, "FINISHED")
  \/ r.kind = "report" /\ ServeEnd(r.session, "SESSION_INTERRUPTED")
  \/ r.kind = "stopReport" /\ ServeEnd(r.session, "EMERGENCY_STOP")
  \/ r.kind = "event" /\ ServeEvent
  \/ r.kind = "ack" /\ ServeAck(r.command)

(* What the answer to a request says.                                      *)
Answer(r) ==
  [ ready    |-> TRUE,
    commands |-> IF r.kind = "heartbeat" THEN PendingInOrder ELSE << >>,
    auths    |-> IF r.kind = "poll" THEN { s \in Sessions : Deliverable(s) } ELSE {},
    ok       |-> r.kind = "start" => Startable(r.session) ]

(* A device waits for this one.                                            *)
Serve ==
  /\ pc = "blocked" /\ call.sent /\ link /\ answer = NoAnswer
  /\ Handle(call)
  /\ answer' = Answer(call)
  /\ UNCHANGED << vars, late, losses, reached >>

(* Its sender gave up: nobody reads the answer.                            *)
ServeLate ==
  /\ \E r \in late : Handle(r) /\ late' = late \ {r}
  /\ UNCHANGED << vars, answer, losses, reached >>

(* processApproval: one active session per machine.                        *)
Arm(s) ==
  /\ clock <= LastArm
  /\ session[s] = "NONE" /\ ActiveNow = {}
  /\ session' = [ session EXCEPT ![s] = "AUTHORIZED" ]
  /\ authz' = [ authz EXCEPT ![s] = "AUTHORIZED" ]
  /\ expiresAt' = [ expiresAt EXCEPT ![s] = clock + AuthTtl ]
  /\ UNCHANGED << vars, command, netVars, reached >>

(* Fault: the sweep does not look at the status of what it expires.        *)
ExpireAny(s) ==
  /\ authz[s] \in { "AUTHORIZED", "CONSUMED" } /\ expiresAt[s] <= clock
  /\ session' = [ session EXCEPT ![s] = "AUTHORIZATION_EXPIRED" ]
  /\ authz' = [ authz EXCEPT ![s] = "EXPIRED" ]
  /\ UNCHANGED << vars, expiresAt, command, netVars, reached >>

(* sweepExpired.                                                           *)
Expire(s) ==
  /\ authz[s] = "AUTHORIZED" /\ expiresAt[s] <= clock
  /\ session' = [ session EXCEPT ![s] = "AUTHORIZATION_EXPIRED" ]
  /\ authz' = [ authz EXCEPT ![s] = "EXPIRED" ]
  /\ UNCHANGED << vars, expiresAt, command, netVars, reached >>

(* emergencyStopFromAdmin.                                                 *)
AdminStop(c) ==
  /\ command[c] = "NONE"
  /\ \A d \in Commands : CommandRank[d] < CommandRank[c] => command[d] # "NONE"
  /\ command' = [ command EXCEPT ![c] = "PENDING" ]
  /\ session' = [ s \in Sessions |->
                    IF s \in ActiveNow THEN "EMERGENCY_STOP" ELSE session[s] ]
  /\ authz' = [ s \in Sessions |->
                  IF authz[s] = "AUTHORIZED" THEN "REVOKED" ELSE authz[s] ]
  /\ UNCHANGED << vars, expiresAt, netVars, reached >>

Server ==
  \/ Serve \/ ServeLate
  \/ \E s \in Sessions : Arm(s) \/ Expire(s)
  \/ \E c \in Commands : AdminStop(c)

-----------------------------------------------------------------------------
(* The device.                                                             *)

DeviceLoop ==
  /\ Loop
  /\ UNCHANGED << serverVars, netVars, reached >>

(* The answer arrives.                                                     *)
Receive ==
  /\ answer # NoAnswer
  /\ \/ HeartbeatReturns(answer.commands)
     \/ \E s \in answer.auths : PollReturns(s, expiresAt[s])
     \/ answer.auths = {} /\ PollReturns(None, 0)
     \/ answer.ok /\ (StartAccepted \/ TornStart)
     \/ ~answer.ok /\ StartRefused(TRUE)
     \/ ReportReturns
  /\ answer' = NoAnswer
  /\ received' = received \cup { answer.commands[i] : i \in DOMAIN answer.commands }
  /\ UNCHANGED << serverVars, late, losses, restarted >>

(* What becomes of a request nobody waits for: the server has it already,  *)
(* it never arrives, or it arrives late.                                   *)
Abandon ==
  /\ answer' = NoAnswer
  /\ late' \in IF call.sent /\ answer = NoAnswer THEN { late, late \cup {call} }
                                                ELSE { late }

(* A connection that fails, or a timeout.                                  *)
GiveUp ==
  /\ \/ HeartbeatReturns(<< >>) \/ PollReturns(None, 0) \/ StartRefused(FALSE)
     \/ ReportReturns
  /\ \/ /\ answer = NoAnswer
        /\ call.sent => ~link
        /\ UNCHANGED netVars
     \/ /\ call.sent /\ losses < MaxLosses
        /\ losses' = losses + 1
        /\ Abandon
  /\ UNCHANGED << serverVars, reached >>

Restart ==
  /\ Crash \/ WatchdogBites
  /\ Abandon
  /\ restarted' = restarted \cup ({ running.session } \ { None })
  /\ UNCHANGED << serverVars, losses, received >>

Environment ==
  /\ Tick \/ NtpSync \/ LinkChanges
  /\ UNCHANGED << serverVars, netVars, reached >>

SysNext == Server \/ DeviceLoop \/ Receive \/ GiveUp \/ Restart \/ Environment

SysSpec == SysInit /\ [][SysNext]_sysVars

(* The loop turns, the server answers, time passes; the hour is set when   *)
(* there is a network and setup is over.  Heartbeats fall due again and    *)
(* again.                                                                  *)
Turning ==
  /\ WF_sysVars(DeviceLoop) /\ WF_sysVars(Receive)
  /\ WF_sysVars(GiveUp /\ UNCHANGED netVars)
  /\ WF_sysVars(Environment /\ NtpSync)
  /\ SF_sysVars(Serve) /\ SF_sysVars(Environment /\ Tick)
  /\ SF_sysVars(DeviceLoop /\ call'.kind = "heartbeat")

(* It takes a firmware that gets out of setup.  A watchdog that outlasts   *)
(* the wait for the hour (NtpWait < Watchdog) gives one; main.cpp:377 and  *)
(* 392 do not.                                                             *)
FairSysSpec == SysSpec /\ Turning

-----------------------------------------------------------------------------
(* Properties.                                                             *)

SessionStatuses ==
  { "NONE", "AUTHORIZED", "WAITING_FOR_BUTTON", "RUNNING", "FINISHED",
    "SESSION_INTERRUPTED", "EMERGENCY_STOP", "AUTHORIZATION_EXPIRED" }

(* Every variable of the server and the network keeps its type.            *)
SysTypeOK ==
  /\ TypeOK
  /\ session \in [ Sessions -> SessionStatuses ]
  /\ authz \in [ Sessions -> { "NONE", "AUTHORIZED", "CONSUMED", "REVOKED",
                               "EXPIRED" } ]
  /\ expiresAt \in [ Sessions -> Nat ]
  /\ command \in [ Commands -> { "NONE", "PENDING", "DELIVERED" } ]
  /\ answer \in [ ready : BOOLEAN, commands : Seq(Commands),
                  auths : SUBSET Sessions, ok : BOOLEAN ]
  /\ \A r \in late : r.kind \in CallKinds
  /\ losses \in Nat /\ received \subseteq Commands /\ restarted \subseteq Sessions

(* Water only flows for a session the server runs and whose authorization  *)
(* it consumed, or that it stopped and the device does not know yet.       *)
WaterIsCovered ==
  relay => /\ authz[running.session] = "CONSUMED"
           /\ session[running.session] \in { "RUNNING", "EMERGENCY_STOP" }

(* A wash recorded as finished that no restart cut gave the whole of its   *)
(* water: no late or repeated report of one wash ends another.             *)
FinishedIsWhole ==
  \A s \in Sessions :
    session[s] = "FINISHED" /\ s \notin restarted => water[s] >= Duration

(* docs/device-protocol.md:146: commands are sent again until the device   *)
(* acknowledges them.                                                      *)
DeliveredWasReceived ==
  \A c \in Commands : command[c] = "DELIVERED" => c \in received

(* The bound of time does not cut a wait for the hour short.               *)
TimeForSetup == [](pc = "setup" /\ ~ntp => clock < MaxTime)

(* A stop that is pending reaches the device, in an answer it reads, once  *)
(* the network stays up: over lost heartbeats and acknowledgements, calls  *)
(* that block, and restarts of the watchdog.                               *)
StopIsReceived ==
  <>[]link /\ TimeForSetup =>
    \A c \in Commands : (command[c] = "PENDING") ~> (c \in received)

(* With a network that is always there, loses nothing and is never slow    *)
(* enough for the watchdog, a running wash ends by the report of the timer.*)
WashEnds ==
  [](link /\ losses = 0 /\ resets = 0 /\ stall < Watchdog) =>
    \A s \in Sessions : (session[s] = "RUNNING") ~> (session[s] # "RUNNING")

(* docs/architecture.md:85: when the network drops during a wash the end   *)
(* is reported at the reconnection.                                        *)
FinishIsReported ==
  <>[]link /\ [](stall < Watchdog) =>
    \A s \in Sessions : (session[s] = "RUNNING") ~> (session[s] # "RUNNING")
=============================================================================
