--------------------------- MODULE WashSystem_proofs -------------------------
(***************************************************************************)
(* First, what the controller (Firmware) guarantees with every server, for *)
(* any number of sessions and any durations: a closed relay is on record,  *)
(* the guard bounds how long it stays closed, and each confirmed wash is   *)
(* one wash.                                                               *)
(*                                                                         *)
(* Then, what the device, the network and the server guarantee together,   *)
(* for any sessions, durations, losses and restarts, as long as the        *)
(* device's hour is steady (MaxSkew = 0): water is covered by a session    *)
(* the server runs, and what is recorded as finished was a whole wash.  The*)
(* controller's invariants hold in the system as well, because its actions *)
(* are the same.                                                           *)
(*                                                                         *)
(* Last, the calendar by which the device reads an authorization's limit.  *)
(***************************************************************************)
EXTENDS WashSystem, DeviceCalendar, TLAPS

-----------------------------------------------------------------------------
(* The controller.                                                         *)

AuthRecords == [ session : Sessions \cup {None}, expires : Int ]

(* The stages that begin after the relay was opened.                       *)
DryStages == { "setup", "guardClear", "finished", "stopEvent", "stopClear" }

DryBetween ==
  /\ pc \in DryStages => ~relay
  /\ pc = "blocked" /\ after \in DryStages => ~relay

(* What is armed, and what a press of the button asks for, is a session.   *)
ArmedForSession ==
  /\ state = "ARMED" => auth.session # None
  /\ pc = "blocked" /\ call.kind = "start" => auth.session # None

RecordTypes ==
  /\ clock \in Int /\ skew \in Int
  /\ running \in RunRecords /\ nvs \in RunRecords /\ auth \in AuthRecords

RelayInv == RecordTypes /\ DryBetween /\ ArmedForSession /\ FlowIsRecorded

LEMMA ConstantTypes ==
  /\ None \notin Sessions
  /\ Duration \in Nat /\ AuthTtl \in Nat /\ MaxGap \in Nat /\ MaxSkew \in Nat
  /\ Margin \in Nat /\ Watchdog \in Nat /\ Wrap \in Nat \ {0}
  BY DeviceAssumption DEF DeviceAssumption

LEMMA RelayInit == Init => RelayInv
  BY ConstantTypes
  DEF Init, RelayInv, RecordTypes, DryBetween, ArmedForSession, FlowIsRecorded,
      DryStages, AuthRecords, RunRecords, NoRun, NoAuth, NoCall, Origin

(* Setup: the relay is open until a recorded wash is resumed.              *)
LEMMA BootKeepsRecord == RelayInv /\ BootDevice => RelayInv'
<1> SUFFICES ASSUME RelayInv, BootDevice PROVE RelayInv'
  OBVIOUS
<1> USE ConstantTypes
    DEF RelayInv, RecordTypes, DryBetween, ArmedForSession, FlowIsRecorded,
        DryStages, AuthRecords, RunRecords, Goto, worldVars, washVars
<1>1. ~relay
  BY DEF BootDevice
<1>2. CASE BootResume
  BY <1>2 DEF BootDevice, BootResume, Resumable
<1>3. CASE BootDiscard
  BY <1>1, <1>3 DEF BootDevice, BootDiscard, ForgetWash, NoRun, PostIfUp, Post, Request
<1>4. CASE BootIdle
  BY <1>1, <1>4 DEF BootDevice, BootIdle
<1> QED
  BY <1>2, <1>3, <1>4 DEF BootDevice

(* The loop: the record is forgotten in stages that follow the relay's     *)
(* opening, and rewritten from the wash in memory.                         *)
LEMMA LoopKeepsRecord == RelayInv /\ Loop => RelayInv'
<1> SUFFICES ASSUME RelayInv, Loop PROVE RelayInv'
  OBVIOUS
<1> USE ConstantTypes
    DEF RelayInv, RecordTypes, DryBetween, ArmedForSession, FlowIsRecorded,
        DryStages, AuthRecords, RunRecords, Goto, PostIfUp, Post, Request,
        worldVars, washVars, armVars, clockVars
<1>1. CASE GuardTrips
  BY <1>1 DEF GuardTrips
<1>2. CASE GuardClears
  BY <1>2 DEF GuardClears, ForgetWash, NoRun, NoAuth
<1>3. CASE GuardPasses
  BY <1>3 DEF GuardPasses
<1>4. CASE FinishWash
  BY <1>4 DEF FinishWash
<1>5. CASE WashFinished
  BY <1>5 DEF WashFinished, ForgetWash, NoRun
<1>6. CASE TimerPasses
  BY <1>6 DEF TimerPasses
<1>7. CASE DropAndPersist
  <2>1. UNCHANGED << clock, skew, relay >> /\ pc' = "heartbeat"
    BY <1>7 DEF DropAndPersist
  <2>2. auth' \in AuthRecords /\ (state' = "ARMED" => auth'.session # None)
    BY <1>7 DEF DropAndPersist, Unarmed, NoAuth
  <2>3. /\ running' \in RunRecords /\ running'.session = running.session
        /\ running'.deadline = running.deadline
        /\ nvs' = running' \/ UNCHANGED << running, nvs >>
    BY <1>7 DEF DropAndPersist, epoch
  <2> QED
    BY <2>1, <2>2, <2>3
<1>8. CASE Heartbeat
  BY <1>8 DEF Heartbeat
<1>9. CASE Poll
  BY <1>9 DEF Poll
<1>10. CASE Button
  BY <1>10 DEF Button
<1>11. CASE StopRelay
  BY <1>11 DEF StopRelay
<1>12. CASE StopReports
  BY <1>12 DEF StopReports
<1>13. CASE StopClears
  BY <1>13 DEF StopClears, ForgetWash, NoRun, NoAuth
<1> QED
  BY <1>1, <1>2, <1>3, <1>4, <1>5, <1>6, <1>7, <1>8, <1>9, <1>10, <1>11, <1>12,
     <1>13, BootKeepsRecord DEF Loop

(* How a call may return, to this server's answer or another's.            *)
CallReturns ==
  \/ \E commands : HeartbeatReturns(commands)
  \/ \E s \in Sessions, expires \in Int : PollReturns(s, expires)
  \/ PollReturns(None, 0)
  \/ StartAccepted \/ TornStart
  \/ \E conflict \in BOOLEAN : StartRefused(conflict)
  \/ ReportReturns

LEMMA AnyAnswerReturns == RelayInv /\ AnyAnswer => CallReturns
<1>1. RelayInv => epoch + AuthTtl \in Int
  BY ConstantTypes DEF RelayInv, RecordTypes, epoch
<1> QED
  BY <1>1 DEF AnyAnswer, CallReturns

(* The server: only an accepted press closes the relay, with the wash on   *)
(* record.                                                                 *)
LEMMA AnswersKeepRecord == RelayInv /\ CallReturns => RelayInv'
<1> SUFFICES ASSUME RelayInv, CallReturns PROVE RelayInv'
  OBVIOUS
<1> USE ConstantTypes
    DEF RelayInv, RecordTypes, DryBetween, ArmedForSession, FlowIsRecorded,
        DryStages, AuthRecords, RunRecords, Returned, worldVars, washVars, armVars,
        clockVars
<1>1. ASSUME NEW commands, HeartbeatReturns(commands) PROVE RelayInv'
  BY <1>1 DEF HeartbeatReturns
<1>2. ASSUME NEW s \in Sessions, NEW e \in Int, PollReturns(s, e) PROVE RelayInv'
  BY <1>2 DEF PollReturns
<1>3. CASE PollReturns(None, 0)
  BY <1>3 DEF PollReturns, Unarmed, NoAuth
<1>4. CASE StartAccepted
  <2>1. NewRun \in RunRecords /\ NewRun.session = auth.session
    BY DEF NewRun, Record, epoch
  <2>2. auth.session # None
    BY <1>4 DEF StartAccepted
  <2> QED
    BY <1>4, <2>1, <2>2 DEF StartAccepted
<1>5. CASE TornStart
  <2>1. nvs' \in RunRecords
    BY <1>5 DEF TornStart, NoRun, Record, epoch
  <2>2. /\ pc' = "setup" /\ ~relay' /\ state' = "BOOT"
        /\ running' = NoRun /\ auth' = NoAuth /\ UNCHANGED << clock, skew >>
    BY <1>5 DEF TornStart, Reset
  <2> QED
    BY <2>1, <2>2 DEF NoRun, NoAuth
<1>6. ASSUME NEW conflict \in BOOLEAN, StartRefused(conflict) PROVE RelayInv'
  BY <1>6 DEF StartRefused, Unarmed, NoAuth
<1>7. CASE ReportReturns
  BY <1>7 DEF ReportReturns, NoCall
<1> QED
  BY <1>1, <1>2, <1>3, <1>4, <1>5, <1>6, <1>7 DEF CallReturns

(* The world: a restart opens the relay and keeps the flash.               *)
LEMMA WorldKeepsRecord == RelayInv /\ World => RelayInv'
<1> SUFFICES ASSUME RelayInv, World PROVE RelayInv'
  OBVIOUS
<1> USE ConstantTypes
    DEF RelayInv, RecordTypes, DryBetween, ArmedForSession, FlowIsRecorded,
        DryStages, AuthRecords, RunRecords, worldVars, callVars, washVars, armVars,
        clockVars
<1>1. CASE Crash \/ WatchdogBites
  <2>1. /\ pc' = "setup" /\ ~relay' /\ state' = "BOOT"
        /\ running' = NoRun /\ auth' = NoAuth /\ UNCHANGED << clock, skew, nvs >>
    BY <1>1 DEF Crash, WatchdogBites, Reset
  <2> QED
    BY <2>1 DEF NoRun, NoAuth
<1>2. CASE Tick
  BY <1>2 DEF Tick
<1>3. CASE NtpSync
  BY <1>3 DEF NtpSync
<1>4. CASE LinkChanges
  BY <1>4 DEF LinkChanges
<1> QED
  BY <1>1, <1>2, <1>3, <1>4 DEF World

LEMMA RelayStep == RelayInv /\ [Next]_vars => RelayInv'
<1>1. CASE UNCHANGED vars
  BY <1>1 DEF RelayInv, RecordTypes, DryBetween, ArmedForSession, FlowIsRecorded,
              vars, worldVars, callVars, washVars, armVars, clockVars
<1> QED
  BY <1>1, LoopKeepsRecord, AnyAnswerReturns, AnswersKeepRecord, WorldKeepsRecord DEF Next

(* While the relay is closed the flash holds the wash and its end, at      *)
(* every step and through every restart (main.cpp:243-252, nvs_store.h).   *)
THEOREM FlowIsAlwaysRecorded == Spec => []FlowIsRecorded
<1>1. RelayInv => FlowIsRecorded
  BY DEF RelayInv
<1> QED
  BY <1>1, RelayInit, RelayStep, PTL DEF Spec

-----------------------------------------------------------------------------
(* The guard, in the arithmetic of millis().                               *)

LEMMA Division ==
  ASSUME NEW x \in Int, NEW w \in Nat \ {0}
  PROVE  x = w * (x \div w) + (x % w) /\ x \div w \in Int /\ x % w \in 0..(w - 1)
  BY SMT

LEMMA NextRemainder ==
  ASSUME NEW w \in Nat \ {0}, NEW p \in Int, NEW q \in Int,
         NEW r \in 0..(w - 1), NEW s \in 0..(w - 1), w * q + r + 1 = w * p + s
  PROVE  s <= r + 1
<1>1. CASE p = q
  BY <1>1
<1>2. CASE p < q
  <2>1. w * (q - p) = s - r - 1
    OBVIOUS
  <2>2. w * (q - p) >= w
    BY <1>2
  <2> QED
    BY <2>1, <2>2
<1>3. CASE p > q
  <2>1. w * (p - q) = r + 1 - s
    OBVIOUS
  <2>2. w * (p - q) >= w
    BY <1>3
  <2> QED
    BY <2>1, <2>2
<1> QED
  BY <1>1, <1>2, <1>3

(* A tick makes a difference of millis() one more, or zero.                *)
LEMMA OneTickMore ==
  ASSUME NEW x \in Int, NEW w \in Nat \ {0}
  PROVE  (x + 1) % w <= (x % w) + 1
<1> DEFINE q == x \div w
           r == x % w
           p == (x + 1) \div w
           s == (x + 1) % w
<1>1. x = w * q + r /\ q \in Int /\ r \in 0..(w - 1)
  BY Division
<1>2. x + 1 = w * p + s /\ p \in Int /\ s \in 0..(w - 1)
  <2>1. x + 1 \in Int
    OBVIOUS
  <2> QED
    BY <2>1, Division
<1> HIDE DEF q, r, p, s
<1>3. w * q + r + 1 = w * p + s
  BY <1>1, <1>2
<1>4. s <= r + 1
  BY <1>1, <1>2, <1>3, NextRemainder
<1> QED
  BY <1>4 DEF r, s

GuardInv ==
  /\ runStarted \in Int
  /\ stall \in 0..Watchdog
  /\ relay /\ pc # "guard" =>
       (clock - runStarted) % Wrap <= Duration + Margin + stall

LEMMA GuardInit == Init => GuardInv
  BY ConstantTypes DEF Init, GuardInv

LEMMA GuardStep == RelayInv /\ GuardInv /\ [Next]_vars => GuardInv'
<1> SUFFICES ASSUME RelayInv, GuardInv, [Next]_vars PROVE GuardInv'
  OBVIOUS
<1>t. /\ clock \in Int /\ runStarted \in Int /\ skew \in Int
      /\ nvs \in RunRecords /\ running \in RunRecords
      /\ stall \in 0..Watchdog
      /\ pc = "setup" => ~relay
  BY DEF RelayInv, RecordTypes, DryBetween, DryStages, GuardInv
<1>h. /\ UNCHANGED << clock, runStarted, stall >>
      /\ relay' => relay
      /\ pc' = "guard" \/ pc # "guard"
      => GuardInv'
  BY DEF GuardInv
<1>1. CASE BootDevice
  <2>1. CASE BootResume
    <3>1. runStarted' = (clock - Consumed) % Wrap /\ pc' = "guard"
      BY <2>1 DEF BootResume, Goto
    <3>2. Consumed \in Int
      BY <1>t, ConstantTypes DEF Consumed, remaining, epoch, RunRecords
    <3>3. runStarted' \in Int
      BY <1>t, <3>1, <3>2, ConstantTypes
    <3>4. UNCHANGED stall
      BY <1>1 DEF BootDevice, clockVars
    <3> QED
      BY <1>t, <3>1, <3>3, <3>4 DEF GuardInv
  <2>2. CASE BootDiscard \/ BootIdle
    BY <1>1, <1>h, <2>2 DEF BootDevice, BootDiscard, BootIdle, ForgetWash, washVars,
                       clockVars, worldVars
  <2> QED
    BY <1>1, <2>1, <2>2 DEF BootDevice
<1>2. CASE GuardTrips
  BY <1>2, <1>t, ConstantTypes DEF GuardTrips, worldVars, GuardInv
<1>3. CASE GuardPasses
  <2>1. relay => (clock - runStarted) % Wrap <= Duration + Margin
    <3>1. (clock - runStarted) % Wrap \in Int
      BY <1>t, ConstantTypes
    <3> QED
      BY <1>3, <3>1, ConstantTypes DEF GuardPasses, Overrun
  <2>2. UNCHANGED << clock, relay, runStarted >> /\ stall' = 0
    BY <1>3 DEF GuardPasses, worldVars, washVars
  <2> QED
    BY <1>t, <2>1, <2>2, ConstantTypes DEF GuardInv
<1>4. CASE GuardClears \/ WashFinished \/ StopClears
  BY <1>4, <1>h DEF GuardClears, WashFinished, StopClears, ForgetWash, worldVars,
                    clockVars
<1>5. CASE FinishWash \/ TimerPasses \/ StopRelay \/ StopReports
  BY <1>5, <1>h DEF FinishWash, TimerPasses, StopRelay, StopReports, worldVars,
                    washVars, clockVars
<1>6. CASE DropAndPersist \/ Heartbeat \/ Poll \/ Button
  BY <1>6, <1>h DEF DropAndPersist, Heartbeat, Poll, Button, worldVars, washVars,
                    clockVars
<1>7. CASE AnyAnswer
  <2>1. ASSUME NEW commands, HeartbeatReturns(commands) PROVE GuardInv'
    BY <2>1, <1>h DEF HeartbeatReturns, Returned, worldVars, washVars, clockVars
  <2>2. ASSUME NEW s, NEW e, PollReturns(s, e) PROVE GuardInv'
    BY <2>2, <1>h DEF PollReturns, Returned, worldVars, washVars, clockVars
  <2>3. CASE StartAccepted
    BY <2>3, <1>t, ConstantTypes
    DEF StartAccepted, Returned, worldVars, clockVars, GuardInv
  <2>4. CASE TornStart
    BY <2>4, ConstantTypes DEF TornStart, Reset, GuardInv
  <2>5. ASSUME NEW conflict \in BOOLEAN, StartRefused(conflict) PROVE GuardInv'
    BY <2>5, <1>h DEF StartRefused, Returned, worldVars, washVars, clockVars
  <2>6. CASE ReportReturns
    BY <2>6, <1>h DEF ReportReturns, Returned, worldVars, washVars, clockVars
  <2> QED
    BY <1>7, <2>1, <2>2, <2>3, <2>4, <2>5, <2>6 DEF AnyAnswer
<1>8. CASE Tick
  <2>1. /\ clock' = clock + 1 /\ stall' = stall + 1 /\ stall < Watchdog
        /\ UNCHANGED << relay, runStarted, pc >>
    BY <1>8, <1>t, ConstantTypes, DeviceAssumption
    DEF Tick, callVars, washVars, DeviceAssumption
  <2>2. (clock - runStarted + 1) % Wrap <= ((clock - runStarted) % Wrap) + 1
    <3> DEFINE x == clock - runStarted
    <3>1. x \in Int /\ Wrap \in Nat \ {0}
      BY <1>t, ConstantTypes
    <3> HIDE DEF x
    <3>2. (x + 1) % Wrap <= (x % Wrap) + 1
      BY <3>1, OneTickMore
    <3> QED
      BY <3>2 DEF x
  <2>3. clock' - runStarted' = clock - runStarted + 1
    BY <1>t, <2>1
  <2>4. /\ (clock - runStarted) % Wrap \in Int
        /\ (clock - runStarted + 1) % Wrap \in Int
    BY <1>t, ConstantTypes
  <2> QED
    BY <1>t, <2>1, <2>2, <2>3, <2>4, ConstantTypes DEF GuardInv
<1>9. CASE Crash \/ WatchdogBites
  BY <1>9, ConstantTypes DEF Crash, WatchdogBites, Reset, GuardInv
<1>10. CASE NtpSync \/ LinkChanges \/ UNCHANGED vars
  BY <1>10, <1>h DEF NtpSync, LinkChanges, vars, worldVars, callVars, washVars,
                     clockVars
<1> QED
  BY <1>1, <1>2, <1>3, <1>4, <1>5, <1>6, <1>7, <1>8, <1>9, <1>10
  DEF Next, Loop, World

(* Past the guard a closed relay is at most one blocked iteration older    *)
(* than the duration and the margin, by millis() and without the hour, the *)
(* network or the server (main.cpp:359-372).                               *)
THEOREM GuardAlwaysBounds == Spec => []GuardBounds
<1>1. RelayInv /\ GuardInv => GuardBounds
  <2> SUFFICES ASSUME RelayInv, GuardInv, relay, pc # "guard"
               PROVE  (clock - runStarted) % Wrap <= Duration + Margin + Watchdog
    BY DEF GuardBounds
  <2>1. clock \in Int /\ runStarted \in Int /\ stall \in 0..Watchdog
    BY DEF RelayInv, RecordTypes, GuardInv
  <2>2. (clock - runStarted) % Wrap \in Int
    BY <2>1, ConstantTypes
  <2> QED
    BY <2>1, <2>2, ConstantTypes DEF GuardInv
<1> QED
  BY <1>1, RelayInit, RelayStep, GuardInit, GuardStep, PTL DEF Spec

-----------------------------------------------------------------------------
(* The refinement of WashTimer.                                            *)

(* A record is of a confirmed wash; there is none while the device waits   *)
(* for a press, and in a wash it is of that wash; only a wash has water.   *)
LedgerInv ==
  /\ nvs.session # None => nvs.session \in confirmed
  /\ state \in { "IDLE", "ARMED" } => nvs.session = None
  /\ state = "RUNNING" => /\ running.session = nvs.session
                          /\ running.deadline = nvs.deadline
  /\ relay => state = "RUNNING"
  /\ pc = "blocked" /\ call.kind = "start" => state = "ARMED"

LEMMA LedgerInit == Init => LedgerInv
  BY DEF Init, LedgerInv, NoRun, Record

LEMMA LoopKeepsLedger == RelayInv /\ LedgerInv /\ Loop => LedgerInv'
<1> SUFFICES ASSUME RelayInv, LedgerInv, Loop PROVE LedgerInv'
  OBVIOUS
<1> USE DEF LedgerInv, Goto, PostIfUp, Post, Request, worldVars, washVars, armVars,
            clockVars, history
<1>0. pc \in { "setup", "guardClear", "finished", "stopClear" } => ~relay
  BY DEF RelayInv, DryBetween, DryStages
<1>1. CASE BootDevice
  <2>1. CASE BootResume
    BY <1>1, <2>1 DEF BootDevice, BootResume
  <2>2. CASE BootDiscard
    BY <1>0, <1>1, <2>2 DEF BootDevice, BootDiscard, ForgetWash, NoRun, Record
  <2>3. CASE BootIdle
    BY <1>0, <1>1, <2>3 DEF BootDevice, BootIdle
  <2> QED
    BY <1>1, <2>1, <2>2, <2>3 DEF BootDevice
<1>2. CASE GuardTrips
  BY <1>2 DEF GuardTrips
<1>3. CASE GuardClears
  BY <1>0, <1>3 DEF GuardClears, ForgetWash, NoRun, Record
<1>4. CASE GuardPasses
  BY <1>4 DEF GuardPasses
<1>5. CASE FinishWash
  BY <1>5 DEF FinishWash
<1>6. CASE WashFinished
  BY <1>0, <1>6 DEF WashFinished, ForgetWash, NoRun, Record
<1>7. CASE TimerPasses
  BY <1>7 DEF TimerPasses
<1>8. CASE DropAndPersist
  <2>1. pc' = "heartbeat" /\ confirmed' = confirmed
    BY <1>8 DEF DropAndPersist
  <2>2. CASE state = "RUNNING"
    BY <1>8, <2>1, <2>2 DEF DropAndPersist, RelayInv, RecordTypes, RunRecords
  <2>3. CASE state # "RUNNING"
    BY <1>8, <2>1, <2>3 DEF DropAndPersist, Unarmed
  <2> QED
    BY <2>2, <2>3
<1>9. CASE Heartbeat
  BY <1>9 DEF Heartbeat
<1>10. CASE Poll
  BY <1>10 DEF Poll
<1>11. CASE Button
  BY <1>11 DEF Button
<1>12. CASE StopRelay
  BY <1>12 DEF StopRelay
<1>13. CASE StopReports
  BY <1>13 DEF StopReports
<1>14. CASE StopClears
  BY <1>0, <1>14 DEF StopClears, ForgetWash, NoRun, Record
<1> QED
  BY <1>1, <1>2, <1>3, <1>4, <1>5, <1>6, <1>7, <1>8, <1>9, <1>10, <1>11, <1>12,
     <1>13, <1>14 DEF Loop

LEMMA AnswersKeepLedger == RelayInv /\ LedgerInv /\ CallReturns => LedgerInv'
<1> SUFFICES ASSUME RelayInv, LedgerInv, CallReturns PROVE LedgerInv'
  OBVIOUS
<1> USE DEF LedgerInv, Returned, worldVars, washVars, armVars, clockVars, history
<1>1. ASSUME NEW commands, HeartbeatReturns(commands) PROVE LedgerInv'
  BY <1>1 DEF HeartbeatReturns, NoCall
<1>2. ASSUME NEW s, NEW e, PollReturns(s, e) PROVE LedgerInv'
  BY <1>2 DEF PollReturns, Unarmed, NoCall
<1>3. CASE StartAccepted
  BY <1>3 DEF StartAccepted, NewRun, Record, NoCall
<1>4. CASE TornStart
  BY <1>4 DEF TornStart, Reset, NoRun, Record, NoCall
<1>5. ASSUME NEW conflict, StartRefused(conflict) PROVE LedgerInv'
  BY <1>5 DEF StartRefused, Unarmed, NoCall
<1>6. CASE ReportReturns
  BY <1>6 DEF ReportReturns, NoCall
<1> QED
  BY <1>1, <1>2, <1>3, <1>4, <1>5, <1>6 DEF CallReturns

LEMMA WorldKeepsLedger == LedgerInv /\ World => LedgerInv'
<1> SUFFICES ASSUME LedgerInv, World PROVE LedgerInv'
  OBVIOUS
<1> USE DEF LedgerInv, vars, worldVars, callVars, washVars, armVars, clockVars, history
<1>1. CASE Crash \/ WatchdogBites
  BY <1>1 DEF Crash, WatchdogBites, Reset, NoRun, Record
<1>2. CASE Tick \/ NtpSync \/ LinkChanges
  BY <1>2 DEF Tick, NtpSync, LinkChanges
<1> QED
  BY <1>1, <1>2 DEF World

LEMMA LedgerStep == RelayInv /\ LedgerInv /\ [Next]_vars => LedgerInv'
<1>1. LedgerInv /\ UNCHANGED vars => LedgerInv'
  BY DEF LedgerInv, vars, worldVars, callVars, washVars, armVars, history
<1> QED
  BY <1>1, LoopKeepsLedger, AnyAnswerReturns, AnswersKeepLedger, WorldKeepsLedger DEF Next

TimerMoves == [Abstract!TimerNext]_phases

(* The phases depend on the relay, the two sessions and what is confirmed. *)
LEMMA Stutters ==
  /\ confirmed' = confirmed /\ nvs'.session = nvs.session /\ (relay' <=> relay)
  /\ relay => running'.session = running.session
  => TimerMoves
<1> SUFFICES ASSUME confirmed' = confirmed, nvs'.session = nvs.session, relay' <=> relay,
                    relay => running'.session = running.session
             PROVE  phases' = phases
  BY DEF TimerMoves
<1> QED
  BY DEF phases, Phase

(* The relay opens and the record stays: a wash that is on is paused.      *)
LEMMA Opens ==
  RelayInv /\ confirmed' = confirmed /\ nvs' = nvs /\ ~relay' => TimerMoves
<1> SUFFICES ASSUME RelayInv, confirmed' = confirmed, nvs' = nvs, ~relay', relay
             PROVE  TimerMoves
  BY Stutters
<1>1. running.session \in Sessions /\ nvs.session = running.session
  BY DEF RelayInv, FlowIsRecorded, RecordTypes, RunRecords
<1>2. PICK r \in Sessions : r = running.session
  BY <1>1
<1>3. phases[r] = "on"
  BY <1>2 DEF phases, Phase
<1>4. phases' = [ phases EXCEPT ![r] = "paused" ]
  BY <1>1, <1>2 DEF phases, Phase
<1> QED
  BY <1>3, <1>4 DEF TimerMoves, Abstract!TimerNext, Abstract!Pause

(* The record is erased: a wash that is paused is over.                    *)
LEMMA Forgets ==
  RelayInv /\ LedgerInv /\ ForgetWash /\ confirmed' = confirmed /\ ~relay => TimerMoves
<1> SUFFICES ASSUME RelayInv, LedgerInv, ForgetWash, confirmed' = confirmed, ~relay
             PROVE  TimerMoves
  OBVIOUS
<1>1. nvs'.session = None /\ ~relay'
  BY DEF ForgetWash, NoRun
<1>2. CASE nvs.session = None
  BY <1>1, <1>2, Stutters
<1>3. CASE nvs.session # None
  <2>1. nvs.session \in Sessions /\ nvs.session \in confirmed
    BY <1>3 DEF RelayInv, RecordTypes, RunRecords, LedgerInv
  <2>2. PICK r \in Sessions : r = nvs.session
    BY <2>1
  <2>3. phases[r] = "paused"
    BY <2>2 DEF phases, Phase
  <2>4. phases' = [ phases EXCEPT ![r] = "over" ]
    BY <1>1, <2>1, <2>2, ConstantTypes DEF phases, Phase
  <2> QED
    BY <2>3, <2>4 DEF TimerMoves, Abstract!TimerNext, Abstract!Over
<1> QED
  BY <1>2, <1>3

(* An accepted press starts a session that waited, with no other wash on   *)
(* or on record; power may fail before the first key is written.           *)
LEMMA Starts ==
  /\ RelayInv /\ LedgerInv
  /\ auth.session \notin confirmed
  /\ StartAccepted \/ TornStart
  => TimerMoves
<1> SUFFICES ASSUME RelayInv, LedgerInv, auth.session \notin confirmed,
                    StartAccepted \/ TornStart
             PROVE  TimerMoves
  OBVIOUS
<1>1. pc = "blocked" /\ call.kind = "start"
  BY DEF StartAccepted, TornStart, Returned
<1>2. auth.session \in Sessions /\ nvs.session = None /\ ~relay
  BY <1>1 DEF RelayInv, ArmedForSession, FlowIsRecorded, RecordTypes, AuthRecords,
              LedgerInv
<1>3. PICK r \in Sessions : r = auth.session
  BY <1>2
<1>4. confirmed' = confirmed \cup { r }
  BY <1>3 DEF StartAccepted, TornStart
<1>5. phases[r] = "waiting"
  BY <1>2, <1>3, ConstantTypes DEF phases, Phase
<1>6. Abstract!Idle
  BY <1>2, ConstantTypes DEF Abstract!Idle, phases, Phase
<1>7. CASE StartAccepted
  <2>1. relay' /\ running'.session = r /\ nvs'.session = r
    BY <1>3, <1>7 DEF StartAccepted, NewRun, Record
  <2>2. phases' = [ phases EXCEPT ![r] = "on" ]
    BY <1>2, <1>4, <2>1, ConstantTypes DEF phases, Phase
  <2> QED
    BY <1>5, <1>6, <2>2 DEF TimerMoves, Abstract!TimerNext, Abstract!Start
<1>8. CASE TornStart
  <2>1. ~relay' /\ nvs'.session \in { None, r }
    BY <1>3, <1>8 DEF TornStart, Reset, NoRun, Record
  <2>2. CASE nvs'.session = r
    <3>1. phases' = [ phases EXCEPT ![r] = "paused" ]
      BY <1>2, <1>4, <2>1, <2>2, ConstantTypes DEF phases, Phase
    <3> QED
      BY <1>5, <1>6, <3>1 DEF TimerMoves, Abstract!TimerNext, Abstract!Start
  <2>3. CASE nvs'.session = None
    <3>1. phases' = [ phases EXCEPT ![r] = "over" ]
      BY <1>2, <1>4, <2>1, <2>3, ConstantTypes DEF phases, Phase
    <3> QED
      BY <1>5, <3>1 DEF TimerMoves, Abstract!TimerNext, Abstract!Over
  <2> QED
    BY <2>1, <2>2, <2>3
<1> QED
  BY <1>7, <1>8

(* A restart that finds a wash it may resume.                              *)
LEMMA Resumes == RelayInv /\ BootDevice /\ BootResume => TimerMoves
<1> SUFFICES ASSUME RelayInv, BootDevice, BootResume PROVE TimerMoves
  OBVIOUS
<1>1. ~relay
  BY DEF BootDevice, RelayInv, DryBetween, DryStages
<1>2. nvs.session \in Sessions
  BY DEF BootResume, Resumable, RelayInv, RecordTypes, RunRecords
<1>3. PICK r \in Sessions : r = nvs.session
  BY <1>2
<1>4. relay' /\ running'.session = r /\ nvs' = nvs /\ confirmed' = confirmed
  BY <1>3 DEF BootResume, BootDevice, history
<1>5. phases[r] = "paused"
  BY <1>1, <1>3 DEF phases, Phase
<1>6. phases' = [ phases EXCEPT ![r] = "on" ]
  BY <1>1, <1>3, <1>4 DEF phases, Phase
<1> QED
  BY <1>5, <1>6 DEF TimerMoves, Abstract!TimerNext, Abstract!Resume

LEMMA TimerStarts == Init => Abstract!TimerInit
  BY ConstantTypes DEF Init, NoRun, Abstract!TimerInit, phases, Phase

LEMMA TimerStep == RelayInv /\ LedgerInv /\ [Next]_vars => TimerMoves
<1> SUFFICES ASSUME RelayInv, LedgerInv, [Next]_vars PROVE TimerMoves
  OBVIOUS
<1>1. UNCHANGED << relay, nvs, running, confirmed >> => TimerMoves
  BY Stutters
<1>2. UNCHANGED << nvs, confirmed >> /\ ~relay' => TimerMoves
  BY Opens
<1>3. ForgetWash /\ confirmed' = confirmed /\ ~relay => TimerMoves
  BY Forgets
<1>4. CASE BootDevice
  <2>1. ~relay /\ confirmed' = confirmed
    BY <1>4 DEF BootDevice, RelayInv, DryBetween, DryStages, history
  <2>2. CASE BootResume
    BY <1>4, <2>2, Resumes
  <2>3. CASE BootDiscard
    BY <1>3, <2>1, <2>3 DEF BootDiscard
  <2>4. CASE BootIdle
    BY <1>1, <2>1, <2>4 DEF BootIdle, washVars
  <2> QED
    BY <1>4, <2>2, <2>3, <2>4 DEF BootDevice
<1>5. CASE GuardTrips \/ FinishWash \/ StopRelay
  BY <1>2, <1>5 DEF GuardTrips, FinishWash, StopRelay, history
<1>6. CASE GuardClears \/ WashFinished \/ StopClears
  <2>1. ~relay
    BY <1>6 DEF GuardClears, WashFinished, StopClears, RelayInv, DryBetween, DryStages
  <2> QED
    BY <1>3, <1>6, <2>1 DEF GuardClears, WashFinished, StopClears, history
<1>7. CASE DropAndPersist
  <2>1. UNCHANGED << relay, confirmed >>
    BY <1>7 DEF DropAndPersist, history
  <2>2. running'.session = running.session /\ nvs'.session = nvs.session
    BY <1>7 DEF DropAndPersist, LedgerInv, RelayInv, RecordTypes, RunRecords
  <2> QED
    BY <2>1, <2>2, Stutters
<1>8. CASE GuardPasses \/ TimerPasses \/ Heartbeat \/ Poll \/ Button \/ StopReports
  BY <1>1, <1>8 DEF GuardPasses, TimerPasses, Heartbeat, Poll, Button, StopReports,
                    washVars, history
<1>9. CASE AnyAnswer
  <2>1. ASSUME NEW commands, HeartbeatReturns(commands) PROVE TimerMoves
    BY <1>1, <2>1 DEF HeartbeatReturns, washVars, history
  <2>2. ASSUME NEW s, NEW e, PollReturns(s, e) PROVE TimerMoves
    BY <1>1, <2>2 DEF PollReturns, washVars, history
  <2>3. CASE auth.session \notin confirmed /\ (StartAccepted \/ TornStart)
    BY <2>3, Starts
  <2>4. ASSUME NEW conflict, StartRefused(conflict) PROVE TimerMoves
    BY <1>1, <2>4 DEF StartRefused, washVars, history
  <2>5. CASE ReportReturns
    BY <1>1, <2>5 DEF ReportReturns, washVars, history
  <2> QED
    BY <1>9, <2>1, <2>2, <2>3, <2>4, <2>5 DEF AnyAnswer
<1>10. CASE Crash \/ WatchdogBites
  BY <1>2, <1>10 DEF Crash, WatchdogBites, Reset, history
<1>11. CASE Tick \/ NtpSync \/ LinkChanges \/ UNCHANGED vars
  BY <1>1, <1>11 DEF Tick, NtpSync, LinkChanges, vars, washVars, history
<1> QED
  BY <1>4, <1>5, <1>6, <1>7, <1>8, <1>9, <1>10, <1>11 DEF Next, Loop, World

(* The controller implements WashTimer whatever the server answers and     *)
(* whenever it restarts: water flows for one confirmed wash at a time, and *)
(* a wash that is over never gets water again.                             *)
THEOREM Refinement == Spec => ImplementsTimer
<1>1. RelayInv /\ LedgerInv /\ [Next]_vars => [Abstract!TimerNext]_phases
  BY TimerStep DEF TimerMoves
<1> QED
  BY <1>1, RelayInit, RelayStep, LedgerInit, LedgerStep, TimerStarts, PTL
  DEF Spec, ImplementsTimer, Abstract!TimerSpec

-----------------------------------------------------------------------------
(* The water of a wash, over restarts and steps of the clock.              *)

(* A closed relay has the hour, and has been open for the end of its wash, *)
(* to the precision of the clock, when the loop last looked; what a wash   *)
(* got by then is less than the time since its start.                      *)
WaterInv ==
  /\ clock >= 0 /\ skew \in (-MaxSkew) .. MaxSkew
  /\ water \in [ Sessions -> Nat ]
  /\ pc = "blocked" => after \notin { "blocked", "timer" }
  /\ relay \/ (pc = "blocked" /\ call.sent) => ntp
  /\ \A s \in Sessions : s \notin confirmed => water[s] = 0
  /\ relay =>
       clock < running.deadline + MaxSkew + (IF pc = "timer" THEN Watchdog ELSE stall)
  /\ \A s \in Sessions :
       nvs.session = s => water[s] <= clock - nvs.deadline + Duration + MaxSkew
  /\ WaterIsBounded

WaterPremises == RelayInv /\ GuardInv /\ LedgerInv /\ WaterInv

LEMMA WaterTypes ==
  WaterPremises =>
    /\ clock \in Int /\ skew \in (-MaxSkew) .. MaxSkew /\ stall \in 0 .. Watchdog
    /\ nvs \in RunRecords /\ nvs.deadline \in Int
    /\ running \in RunRecords /\ running.deadline \in Int
    /\ \A s \in Sessions : water[s] \in Nat
BY DEF WaterPremises, RelayInv, RecordTypes, RunRecords, GuardInv, WaterInv

LEMMA WaterInit == Init => WaterInv
<1> SUFFICES ASSUME Init PROVE WaterInv
  OBVIOUS
<1>1. /\ skew = 0 /\ ~relay /\ pc = "setup" /\ nvs = NoRun
      /\ water = [ s \in Sessions |-> 0 ]
  BY DEF Init
<1>2. \A s \in Sessions : nvs.session # s
  BY <1>1, ConstantTypes DEF NoRun, Record
<1>3. WaterIsBounded
  <2>1. 0 < Duration + Watchdog + 2 * MaxSkew
    BY ConstantTypes, DeviceAssumption DEF DeviceAssumption
  <2> QED
    BY <1>1, <2>1 DEF WaterIsBounded
<1>4. clock >= 0
  BY ConstantTypes DEF Init, Origin
<1> QED
  BY <1>1, <1>2, <1>3, <1>4, ConstantTypes DEF WaterInv

(* A step without time that closes no relay and writes no new record.      *)
LEMMA WaterQuiet ==
  ASSUME WaterPremises, UNCHANGED << clock, skew, water, confirmed >>,
         relay' \/ (pc' = "blocked" /\ call'.sent) => ntp',
         pc' = "blocked" => after' \notin { "blocked", "timer" },
         relay' => /\ relay /\ running'.deadline = running.deadline
                   /\ stall' = stall /\ pc # "timer" /\ pc' # "timer",
         \/ nvs'.session = None
         \/ nvs'.session = nvs.session /\ nvs'.deadline = nvs.deadline
  PROVE  WaterInv'
<1>1. WaterIsBounded'
  BY DEF WaterPremises, WaterInv, WaterIsBounded
<1>2. relay' => clock' < running'.deadline + MaxSkew + (IF pc' = "timer" THEN Watchdog ELSE stall')
  BY DEF WaterPremises, WaterInv
<1>3. \A s \in Sessions :
        nvs'.session = s => water'[s] <= clock' - nvs'.deadline + Duration + MaxSkew
  BY ConstantTypes DEF WaterPremises, WaterInv
<1> QED
  BY <1>1, <1>2, <1>3 DEF WaterPremises, WaterInv

(* The end of a wash that may go on lies ahead by the device's clock.      *)
LEMMA EndIsAhead ==
  ASSUME WaterPremises, NEW d \in Int, d > epoch
  PROVE  clock < d + MaxSkew
BY WaterTypes, ConstantTypes DEF epoch

LEMMA WaterBoot == WaterPremises /\ BootDevice => WaterInv'
<1> SUFFICES ASSUME WaterPremises, BootDevice PROVE WaterInv'
  OBVIOUS
<1>0. /\ ~relay /\ UNCHANGED << clock, skew, stall, ntp, wifi, confirmed, water >>
  BY DEF BootDevice, WaterPremises, RelayInv, DryBetween, DryStages, worldVars, clockVars,
         history
<1>1. CASE BootResume
  <2>1. /\ relay' /\ running' = nvs /\ nvs' = nvs /\ pc' = "guard" /\ ntp'
        /\ nvs.deadline > epoch
    <3>1. nvs.deadline \in Int /\ epoch \in Int
      BY WaterTypes, ConstantTypes DEF epoch
    <3> QED
      BY <1>0, <1>1, <3>1 DEF BootResume, Resumable, remaining, Goto
  <2>2. clock' < running'.deadline + MaxSkew + stall'
    <3>1. clock < nvs.deadline + MaxSkew
      BY <2>1, WaterTypes, EndIsAhead
    <3> QED
      BY <1>0, <2>1, <3>1, WaterTypes, ConstantTypes
  <2>3. WaterIsBounded'
    BY <1>0 DEF WaterPremises, WaterInv, WaterIsBounded
  <2> QED
    BY <1>0, <2>1, <2>2, <2>3 DEF WaterPremises, WaterInv
<1>2. CASE BootDiscard
  BY <1>0, <1>2, WaterQuiet DEF BootDiscard, ForgetWash, NoRun, Record, PostIfUp, Post,
     Request, Goto
<1>3. CASE BootIdle
  BY <1>0, <1>3, WaterQuiet DEF BootIdle, washVars, Goto
<1> QED
  BY <1>1, <1>2, <1>3 DEF BootDevice

LEMMA WaterLoop == WaterPremises /\ Loop => WaterInv'
<1> SUFFICES ASSUME WaterPremises, Loop PROVE WaterInv'
  OBVIOUS
<1>0. /\ pc \in DryStages => ~relay
      /\ relay => ntp /\ state = "RUNNING"
  BY DEF WaterPremises, RelayInv, DryBetween, WaterInv, LedgerInv
<1>1. CASE GuardTrips
  BY <1>1, WaterQuiet DEF GuardTrips, worldVars, armVars, history, PostIfUp, Post, Request, Goto
<1>2. CASE GuardClears \/ WashFinished
  BY <1>0, <1>2, WaterQuiet
  DEF GuardClears, WashFinished, DryStages, ForgetWash, NoRun, Record, worldVars, clockVars,
      history, Goto
<1>3. CASE GuardPasses
  <2>1. /\ UNCHANGED << clock, skew, water, confirmed, ntp, relay, running, nvs >>
        /\ pc = "guard" /\ pc' = "timer"
    BY <1>3 DEF GuardPasses, worldVars, washVars, history, Goto
  <2>2. relay => clock < running.deadline + MaxSkew + Watchdog
    <3>1. relay => clock < running.deadline + MaxSkew + stall
      BY <2>1 DEF WaterPremises, WaterInv
    <3> QED
      BY <3>1, WaterTypes, ConstantTypes
  <2>3. WaterIsBounded'
    BY <2>1 DEF WaterPremises, WaterInv, WaterIsBounded
  <2> QED
    BY <2>1, <2>2, <2>3 DEF WaterPremises, WaterInv
<1>4. CASE FinishWash
  BY <1>4, WaterQuiet DEF FinishWash, worldVars, clockVars, history, PostIfUp, Post, Request, Goto
<1>5. CASE TimerPasses
  <2>1. /\ UNCHANGED << clock, skew, water, confirmed, ntp, relay, running, nvs, stall >>
        /\ pc = "timer" /\ pc' = "persist"
    BY <1>5 DEF TimerPasses, worldVars, washVars, clockVars, history, Goto
  <2>2. relay => clock < running.deadline + MaxSkew + stall
    <3>1. relay => running # NoRun
      BY DEF WaterPremises, RelayInv, FlowIsRecorded, NoRun, Record
    <3>2. relay => ~ (running.deadline <= epoch)
      BY <1>0, <1>5, <3>1 DEF TimerPasses, TimerDue
    <3>3. relay => running.deadline > epoch
      BY <3>2, WaterTypes, ConstantTypes DEF epoch
    <3>4. relay => clock < running.deadline + MaxSkew
      BY <3>3, WaterTypes, EndIsAhead
    <3> QED
      BY <3>4, WaterTypes, ConstantTypes
  <2>3. WaterIsBounded'
    BY <2>1 DEF WaterPremises, WaterInv, WaterIsBounded
  <2> QED
    BY <2>1, <2>2, <2>3 DEF WaterPremises, WaterInv
<1>6. CASE DropAndPersist
  <2>1. UNCHANGED << clock, skew, water, confirmed, ntp, relay, stall >>
        /\ pc = "persist" /\ pc' = "heartbeat"
    BY <1>6 DEF DropAndPersist, worldVars, clockVars, history, Goto
  <2>2. /\ running'.deadline = running.deadline
        /\ nvs'.session = nvs.session /\ nvs'.deadline = nvs.deadline
    BY <1>6, WaterTypes DEF DropAndPersist, WaterPremises, LedgerInv, RunRecords
  <2> QED
    BY <1>0, <2>1, <2>2, WaterQuiet
<1>7. CASE Heartbeat \/ Poll \/ Button
  BY <1>0, <1>7, WaterQuiet
  DEF Heartbeat, Poll, Button, worldVars, washVars, clockVars, history, PostIfUp, Post,
      Request, Goto
<1>8. CASE StopRelay \/ StopReports
  BY <1>0, <1>8, WaterQuiet
  DEF StopRelay, StopReports, DryStages, worldVars, washVars, clockVars, history, PostIfUp,
      Post, Request, Goto
<1>9. CASE StopClears
  BY <1>0, <1>9, WaterQuiet
  DEF StopClears, DryStages, ForgetWash, NoRun, Record, worldVars, clockVars, history, Post,
      Request
<1> QED
  BY <1>1, <1>2, <1>3, <1>4, <1>5, <1>6, <1>7, <1>8, <1>9, WaterBoot DEF Loop

(* A confirmed press starts the water of a session that had none.          *)
LEMMA WaterStart ==
  ASSUME WaterPremises, StartAccepted \/ TornStart, auth.session \notin confirmed,
         pc = "blocked" /\ call.sent
  PROVE  WaterInv'
<1>0. /\ UNCHANGED << clock, skew, water >> /\ ntp
      /\ confirmed' = confirmed \cup { auth.session }
  BY DEF StartAccepted, TornStart, worldVars, WaterPremises, WaterInv
<1>1. pc' \in { "guard", "setup" }
  BY DEF StartAccepted, TornStart, Returned, Reset
<1>2. \A s \in Sessions : s \notin confirmed' => water'[s] = 0
  BY <1>0 DEF WaterPremises, WaterInv
<1>3. WaterIsBounded'
  BY <1>0 DEF WaterPremises, WaterInv, WaterIsBounded
<1>4. relay' => /\ ntp'
                /\ clock' < running'.deadline + MaxSkew
                            + (IF pc' = "timer" THEN Watchdog ELSE stall')
  <2>1. CASE StartAccepted
    <3>1. running'.deadline = clock + skew + Duration /\ pc' = "guard"
          /\ UNCHANGED << ntp, stall >>
      BY <2>1 DEF StartAccepted, NewRun, Record, epoch, Returned, clockVars
    <3>2. Duration > 0
      BY DeviceAssumption, ConstantTypes DEF DeviceAssumption
    <3> QED
      BY <1>0, <3>1, <3>2, WaterTypes, ConstantTypes
  <2>2. CASE TornStart
    BY <2>2 DEF TornStart, Reset
  <2> QED
    BY <2>1, <2>2
<1>5. ASSUME NEW s \in Sessions, nvs'.session = s
      PROVE  water'[s] <= clock' - nvs'.deadline + Duration + MaxSkew
  <2>1. s = auth.session /\ nvs'.deadline \in { 0, clock + skew + Duration }
    BY <1>5, ConstantTypes DEF StartAccepted, TornStart, NewRun, NoRun, Record, epoch
  <2>2. water'[s] = 0 /\ clock' = clock
    BY <1>0, <2>1 DEF WaterPremises, WaterInv
  <2>3. clock >= 0
    BY DEF WaterPremises, WaterInv
  <2> QED
    BY <2>1, <2>2, <2>3, WaterTypes, ConstantTypes
<1> QED
  BY <1>0, <1>1, <1>2, <1>3, <1>4, <1>5 DEF WaterPremises, WaterInv

LEMMA WaterAnswer == WaterPremises /\ AnyAnswer => WaterInv'
<1> SUFFICES ASSUME WaterPremises, AnyAnswer PROVE WaterInv'
  OBVIOUS
<1>0. /\ relay => ntp /\ state = "RUNNING"
      /\ pc = "blocked" => after \notin { "blocked", "timer" }
  BY DEF WaterPremises, WaterInv, LedgerInv
<1>1. ASSUME NEW commands, HeartbeatReturns(commands) PROVE WaterInv'
  BY <1>0, <1>1, WaterQuiet DEF HeartbeatReturns, Returned, worldVars, washVars, clockVars, history
<1>2. ASSUME NEW s, NEW e, PollReturns(s, e) PROVE WaterInv'
  BY <1>0, <1>2, WaterQuiet DEF PollReturns, Returned, worldVars, washVars, clockVars, history
<1>3. CASE call.sent /\ auth.session \notin confirmed /\ (StartAccepted \/ TornStart)
  BY <1>3, WaterStart DEF StartAccepted, TornStart, Returned
<1>4. ASSUME NEW conflict, StartRefused(conflict) PROVE WaterInv'
  BY <1>0, <1>4, WaterQuiet DEF StartRefused, Returned, worldVars, washVars, clockVars, history
<1>5. CASE ReportReturns
  BY <1>0, <1>5, WaterQuiet DEF ReportReturns, Returned, worldVars, washVars, clockVars, history
<1> QED
  BY <1>1, <1>2, <1>3, <1>4, <1>5 DEF AnyAnswer

LEMMA WaterTick == WaterPremises /\ Tick => WaterInv'
<1> SUFFICES ASSUME WaterPremises, Tick PROVE WaterInv'
  OBVIOUS
<1>1. /\ clock' = clock + 1 /\ stall' = stall + 1 /\ stall < Watchdog /\ pc # "timer"
      /\ UNCHANGED << skew, relay, running, nvs, pc, after, call, ntp, confirmed >>
  <2>1. 0 < Watchdog
    BY ConstantTypes, DeviceAssumption DEF DeviceAssumption
  <2> QED
    BY <2>1 DEF Tick, callVars, washVars
<1>2. /\ water' \in [ Sessions -> Nat ]
      /\ \A s \in Sessions : water'[s] = IF relay /\ running.session = s
                                           THEN water[s] + 1 ELSE water[s]
  BY WaterTypes DEF Tick
<1>3. relay => /\ clock' < running.deadline + MaxSkew + stall'
               /\ nvs.session = running.session /\ nvs.deadline = running.deadline
               /\ running.session \in confirmed
  BY <1>1, WaterTypes, ConstantTypes
  DEF WaterPremises, WaterInv, RelayInv, FlowIsRecorded, LedgerInv
<1>4. ASSUME NEW s \in Sessions, nvs.session = s
      PROVE  water'[s] <= clock' - nvs.deadline + Duration + MaxSkew
  <2>1. water[s] <= clock - nvs.deadline + Duration + MaxSkew
    BY <1>4 DEF WaterPremises, WaterInv
  <2> QED
    BY <1>1, <1>2, <2>1, WaterTypes, ConstantTypes
<1>5. ASSUME NEW s \in Sessions
      PROVE  water'[s] < Duration + Watchdog + 2 * MaxSkew
  <2>1. CASE relay /\ running.session = s
    <3>1. water'[s] <= clock' - running.deadline + Duration + MaxSkew
      BY <1>3, <1>4, <2>1
    <3>2. clock' < running.deadline + MaxSkew + stall' /\ stall' <= Watchdog
      BY <1>1, <1>3, <2>1, WaterTypes, ConstantTypes
    <3> QED
      BY <1>1, <1>2, <3>1, <3>2, WaterTypes, ConstantTypes
  <2>2. CASE ~ (relay /\ running.session = s)
    BY <1>2, <2>2 DEF WaterPremises, WaterInv, WaterIsBounded
  <2> QED
    BY <2>1, <2>2
<1>6. \A s \in Sessions : s \notin confirmed => water'[s] = 0
  BY <1>2, <1>3 DEF WaterPremises, WaterInv
<1>7. WaterIsBounded'
  BY <1>5 DEF WaterIsBounded
<1>8. clock' >= 0
  BY <1>1, WaterTypes DEF WaterPremises, WaterInv
<1> QED
  BY <1>1, <1>2, <1>3, <1>4, <1>6, <1>7, <1>8 DEF WaterPremises, WaterInv

LEMMA WaterStep == WaterPremises /\ [Next]_vars => WaterInv'
<1> SUFFICES ASSUME WaterPremises, [Next]_vars PROVE WaterInv'
  OBVIOUS
<1>1. CASE Crash \/ WatchdogBites
  <2>1. /\ ~relay' /\ pc' = "setup"
        /\ UNCHANGED << clock, skew, water, confirmed, nvs >>
    BY <1>1 DEF Crash, WatchdogBites, Reset, worldVars, history
  <2> QED
    BY <2>1, WaterQuiet
<1>2. CASE NtpSync
  <2>1. skew' \in (-MaxSkew) .. MaxSkew
    BY <1>2, ConstantTypes DEF NtpSync
  <2>2. ntp' /\ UNCHANGED << clock, water, confirmed, nvs, relay, running, pc, after, call, stall >>
    BY <1>2 DEF NtpSync, callVars, washVars, history
  <2>3. WaterIsBounded'
    BY <2>2 DEF WaterPremises, WaterInv, WaterIsBounded
  <2> QED
    BY <2>1, <2>2, <2>3 DEF WaterPremises, WaterInv
<1>3. CASE LinkChanges \/ UNCHANGED vars
  <2>1. UNCHANGED << clock, skew, water, confirmed, nvs, relay, running, pc, after, call, stall, ntp >>
    BY <1>3 DEF LinkChanges, vars, worldVars, callVars, washVars, clockVars, history
  <2>2. WaterIsBounded'
    BY <2>1 DEF WaterPremises, WaterInv, WaterIsBounded
  <2> QED
    BY <2>1, <2>2 DEF WaterPremises, WaterInv
<1> QED
  BY <1>1, <1>2, <1>3, WaterLoop, WaterAnswer, WaterTick DEF Next, World

(* Whatever the server answers, whenever the device restarts and however   *)
(* NTP steps its clock, a wash gets less water than its duration, one      *)
(* blocked iteration and the steps together (main.cpp:328-336, 419-423).   *)
THEOREM WaterAlwaysBounded == Spec => []WaterIsBounded
<1>1. WaterInv => WaterIsBounded
  BY DEF WaterInv
<1>2. RelayInv /\ GuardInv /\ LedgerInv /\ WaterInv /\ [Next]_vars => WaterInv'
  BY WaterStep DEF WaterPremises
<1> QED
  BY <1>1, <1>2, RelayInit, RelayStep, GuardInit, GuardStep, LedgerInit, LedgerStep,
     WaterInit, PTL DEF Spec

-----------------------------------------------------------------------------
(* The controller, the network and the server.                             *)


SteadyHour == MaxSkew = 0

DeviceStates == { "BOOT", "IDLE", "ARMED", "RUNNING" }
EndKinds == { "finish", "report", "stopReport" }

(* The stages between the opening of the relay and the end of the wash.    *)
Cutting == { "guardClear", "finished", "stopEvent", "stopClear" }

(* The hour is that of the world.                                          *)
HourIsTrue == skew = 0 /\ clock \in Nat /\ clock >= Origin

(* A wash in memory has water until it is cut; a call to start is for what *)
(* is armed, a report of an end for a wash that was confirmed.             *)
StagesFit ==
  /\ state \in DeviceStates
  /\ state = "BOOT" => pc = "setup"
  /\ state = "RUNNING" /\ pc \notin Cutting /\ ~ (pc = "blocked" /\ after \in Cutting)
       => relay
  /\ pc = "blocked" /\ after \in Cutting => call.kind \notin { "heartbeat", "poll", "start" }
  /\ pc = "blocked" => after # "setup"
  /\ pc = "blocked" /\ call.kind = "start" => call.session = auth.session
  /\ call.kind \in EndKinds => call.session \in confirmed

(* The guard counts from the start of the wash, also after a restart; no   *)
(* record ends later than a wash that starts now.                          *)
GuardCounts ==
  /\ runStarted \in Int /\ water \in [ Sessions -> Nat ]
  /\ relay => runStarted = (running.deadline - Duration) % Wrap
  /\ nvs.session # None => nvs.deadline <= clock + Duration

DeviceInv == HourIsTrue /\ StagesFit /\ GuardCounts

(* A call that returns without starting a wash, and one that starts it.    *)
StartsNothing ==
  \/ \E commands : HeartbeatReturns(commands)
  \/ \E s \in Sessions, expires \in Int : PollReturns(s, expires)
  \/ PollReturns(None, 0)
  \/ \E conflict \in BOOLEAN : StartRefused(conflict)
  \/ ReportReturns

StartsOnce == auth.session \notin confirmed /\ (StartAccepted \/ TornStart)

(* The device's part of a step of the system.                              *)
DeviceStep == Loop \/ StartsNothing \/ StartsOnce \/ World \/ UNCHANGED vars

DeviceFits == RelayInv /\ LedgerInv /\ DeviceInv

LEMMA DeviceTypes ==
  DeviceFits =>
    /\ clock \in Nat /\ skew = 0 /\ epoch = clock /\ clock >= Origin
    /\ nvs \in RunRecords /\ nvs.deadline \in Int /\ nvs.lastTick \in Int
    /\ running \in RunRecords /\ running.deadline \in Int
    /\ auth \in AuthRecords
BY DEF DeviceFits, RelayInv, RecordTypes, RunRecords, DeviceInv, HourIsTrue, epoch

LEMMA Durations == Duration > 0 /\ Watchdog > 0 /\ Margin > 0 /\ Wrap > Duration + Margin
BY DeviceAssumption, ConstantTypes DEF DeviceAssumption

LEMMA BothReturn == StartsNothing \/ StartsOnce => CallReturns
BY DEF StartsNothing, StartsOnce, CallReturns

(* The invariants above, for the steps of the system.                      *)
LEMMA RelayAndLedger == RelayInv /\ LedgerInv /\ DeviceStep => RelayInv' /\ LedgerInv'
<1>1. RelayInv /\ UNCHANGED vars => RelayInv'
  BY RelayStep
<1>2. RelayInv /\ LedgerInv /\ UNCHANGED vars => LedgerInv'
  BY LedgerStep
<1> QED
  BY <1>1, <1>2, LoopKeepsRecord, AnswersKeepRecord, WorldKeepsRecord, LoopKeepsLedger,
     AnswersKeepLedger, WorldKeepsLedger, BothReturn DEF DeviceStep

-----------------------------------------------------------------------------
(* The stages of the device.                                               *)

LEMMA HourStays == SteadyHour /\ DeviceFits /\ DeviceStep => HourIsTrue'
<1> SUFFICES ASSUME SteadyHour, DeviceFits, DeviceStep PROVE HourIsTrue'
  OBVIOUS
<1>0. HourIsTrue
  BY DEF DeviceFits, DeviceInv
<1>1. CASE Loop
  <2>1. UNCHANGED << clock, skew >>
    BY <1>1
    DEF Loop, BootDevice, GuardTrips, GuardClears, GuardPasses, FinishWash, WashFinished,
        TimerPasses, DropAndPersist, Heartbeat, Poll, Button, StopRelay, StopReports,
        StopClears, worldVars
  <2> QED
    BY <1>0, <2>1 DEF HourIsTrue
<1>2. CASE CallReturns
  <2>1. UNCHANGED << clock, skew >>
    BY <1>2
    DEF CallReturns, HeartbeatReturns, PollReturns, StartAccepted, TornStart, StartRefused,
        ReportReturns, worldVars
  <2> QED
    BY <1>0, <2>1 DEF HourIsTrue
<1>3. CASE World
  <2>1. clock' \in { clock, clock + 1 }
    BY <1>3 DEF World, Crash, WatchdogBites, Tick, NtpSync, LinkChanges, worldVars
  <2>2. skew' \in { skew, 0, -MaxSkew, MaxSkew }
    BY <1>3 DEF World, Crash, WatchdogBites, Tick, NtpSync, LinkChanges, worldVars
  <2>3. skew' = 0
    BY <1>0, <2>2 DEF SteadyHour, HourIsTrue
  <2> QED
    BY <1>0, <2>1, <2>3, ConstantTypes DEF HourIsTrue, Origin
<1>4. CASE UNCHANGED vars
  BY <1>0, <1>4 DEF vars, worldVars, HourIsTrue
<1> QED
  BY <1>1, <1>2, <1>3, <1>4, BothReturn DEF DeviceStep

LEMMA StagesStay == DeviceFits /\ DeviceStep => StagesFit'
<1> SUFFICES ASSUME DeviceFits, DeviceStep PROVE StagesFit'
  OBVIOUS
<1>0. /\ StagesFit /\ LedgerInv /\ FlowIsRecorded
      /\ pc \in DryStages => ~relay
      /\ state = "ARMED" => auth.session # None
  BY DEF DeviceFits, DeviceInv, RelayInv, DryBetween, ArmedForSession
<1> USE <1>0
    DEF StagesFit, DeviceStates, EndKinds, Cutting, Goto, PostIfUp, Post, Request, Returned,
        NoCall, worldVars, washVars, armVars, clockVars, history
<1>1. CASE BootDevice
  BY <1>1 DEF BootDevice, BootResume, BootDiscard, BootIdle, ForgetWash, LedgerInv, DryStages
<1>2. CASE GuardTrips
  BY <1>2 DEF GuardTrips, FlowIsRecorded, LedgerInv, Overrun
<1>3. CASE GuardClears
  BY <1>3 DEF GuardClears, ForgetWash
<1>4. CASE GuardPasses
  BY <1>4 DEF GuardPasses
<1>5. CASE FinishWash
  <2>1. running.session \in confirmed
    <3>1. relay
      BY <1>5 DEF FinishWash, TimerDue
    <3> QED
      BY <3>1 DEF FlowIsRecorded, LedgerInv
  <2> QED
    BY <1>5, <2>1 DEF FinishWash
<1>6. CASE WashFinished
  BY <1>6 DEF WashFinished, ForgetWash
<1>7. CASE TimerPasses
  BY <1>7 DEF TimerPasses
<1>8. CASE DropAndPersist
  BY <1>8 DEF DropAndPersist, Unarmed
<1>9. CASE Heartbeat
  BY <1>9 DEF Heartbeat
<1>10. CASE Poll
  BY <1>10 DEF Poll
<1>11. CASE Button
  BY <1>11 DEF Button
<1>12. CASE StopRelay
  <2>1. state = "RUNNING" => running.session \in confirmed
    <3>1. state = "RUNNING" => relay
      BY <1>12 DEF StopRelay
    <3> QED
      BY <3>1 DEF FlowIsRecorded, LedgerInv
  <2> QED
    BY <1>12, <2>1 DEF StopRelay
<1>13. CASE StopReports
  BY <1>13 DEF StopReports
<1>14. CASE StopClears
  BY <1>14 DEF StopClears, ForgetWash
<1>15. CASE CallReturns
  <2>1. ASSUME NEW commands, HeartbeatReturns(commands) PROVE StagesFit'
    BY <2>1 DEF HeartbeatReturns
  <2>2. ASSUME NEW s, NEW e, PollReturns(s, e) PROVE StagesFit'
    BY <2>2 DEF PollReturns, Unarmed
  <2>3. CASE StartAccepted
    BY <2>3 DEF StartAccepted
  <2>4. CASE TornStart
    BY <2>4 DEF TornStart, Reset
  <2>5. ASSUME NEW conflict \in BOOLEAN, StartRefused(conflict) PROVE StagesFit'
    BY <2>5 DEF StartRefused, Unarmed
  <2>6. CASE ReportReturns
    BY <2>6 DEF ReportReturns
  <2> QED
    BY <1>15, <2>1, <2>2, <2>3, <2>4, <2>5, <2>6 DEF CallReturns
<1>16. CASE Crash \/ WatchdogBites
  BY <1>16 DEF Crash, WatchdogBites, Reset
<1>17. CASE Tick \/ NtpSync \/ LinkChanges
  BY <1>17 DEF Tick, NtpSync, LinkChanges, callVars
<1>18. CASE UNCHANGED vars
  BY <1>18 DEF vars, callVars
<1> QED
  BY <1>1, <1>2, <1>3, <1>4, <1>5, <1>6, <1>7, <1>8, <1>9, <1>10, <1>11, <1>12, <1>13,
     <1>14, <1>15, <1>16, <1>17, <1>18, BothReturn DEF DeviceStep, Loop, World

-----------------------------------------------------------------------------
(* What a step of the device does to a wash.                               *)

(* It goes on, pauses or is forgotten; its water runs with the clock.      *)
WashGoesOn ==
  /\ confirmed' = confirmed /\ clock' >= clock /\ runStarted' \in Int
  /\ water' \in [ Sessions -> Nat ]
  /\ relay' => /\ relay /\ runStarted' = runStarted
               /\ running'.session = running.session
               /\ running'.deadline = running.deadline
               /\ water'[running.session] = water[running.session] + (clock' - clock)
  /\ \A s \in Sessions : water'[s] >= water[s]
  /\ \/ nvs'.session = None
     \/ nvs'.session = nvs.session /\ nvs'.deadline = nvs.deadline

(* It is resumed, at a restart.                                            *)
WashResumes ==
  /\ pc = "setup" /\ nvs.session # None /\ nvs.deadline > clock
  /\ epoch - nvs.lastTick < MaxGap
  /\ relay' /\ running' = nvs /\ nvs' = nvs
  /\ runStarted' = (clock - Consumed) % Wrap
  /\ UNCHANGED << clock, skew, confirmed, water >>

(* It starts, or power fails while its record is written.                  *)
WashStarts ==
  /\ pc = "blocked" /\ call.kind = "start"
  /\ auth.session \in Sessions /\ auth.session \notin confirmed
  /\ confirmed' = confirmed \cup { auth.session }
  /\ UNCHANGED << clock, skew, water >> /\ runStarted' \in Int
  /\ relay' => /\ nvs' = NewRun /\ running' = NewRun /\ runStarted' = clock % Wrap
  /\ nvs'.session = None \/ (/\ nvs'.session = auth.session
                             /\ nvs'.deadline \in { 0, clock + Duration })
  /\ ~ relay' => nvs'.session = None \/ nvs'.lastTick = 0

LEMMA LoopOnWash ==
  DeviceFits /\ Loop => WashGoesOn \/ (BootDevice /\ BootResume /\ WashResumes)
<1> SUFFICES ASSUME DeviceFits, Loop
             PROVE  WashGoesOn \/ (BootDevice /\ BootResume /\ WashResumes)
  OBVIOUS
<1>0. /\ pc \in DryStages => ~relay
      /\ state = "RUNNING" => /\ running.session = nvs.session
                              /\ running.deadline = nvs.deadline
      /\ clock >= clock /\ runStarted \in Int /\ water \in [ Sessions -> Nat ]
      /\ \A s \in Sessions : water[s] >= water[s]
      /\ relay => running.session \in Sessions
  BY DeviceTypes, ConstantTypes
  DEF DeviceFits, RelayInv, DryBetween, LedgerInv, DeviceInv, GuardCounts, HourIsTrue,
      FlowIsRecorded, RunRecords
<1>1. UNCHANGED << clock, water, confirmed >>
  BY DEF Loop, BootDevice, GuardTrips, GuardClears, GuardPasses, FinishWash, WashFinished,
     TimerPasses, DropAndPersist, Heartbeat, Poll, Button, StopRelay, StopReports,
     StopClears, worldVars, history
<1>2. relay => water[running.session] = water[running.session] + (clock - clock)
  <2>1. relay => water[running.session] \in Nat
    BY <1>0
  <2> QED
    BY <2>1, DeviceTypes
<1>3. runStarted' = runStarted /\ (relay' => relay /\ running'.session = running.session
                                             /\ running'.deadline = running.deadline)
      /\ (nvs'.session = None
          \/ (nvs'.session = nvs.session /\ nvs'.deadline = nvs.deadline))
      => WashGoesOn
  BY <1>0, <1>1, <1>2 DEF WashGoesOn
<1> USE DEF Goto
<1>4. CASE BootDevice /\ BootResume
  <2>1. /\ pc = "setup" /\ nvs.session # None /\ gap < MaxGap /\ remaining > 0
        /\ relay' /\ running' = nvs /\ nvs' = nvs
        /\ runStarted' = (clock - Consumed) % Wrap /\ UNCHANGED skew
    BY <1>4 DEF BootDevice, BootResume, Resumable, worldVars
  <2>2. nvs.deadline > clock /\ epoch - nvs.lastTick < MaxGap
    BY <2>1, DeviceTypes, ConstantTypes DEF gap, remaining
  <2> QED
    BY <1>1, <1>4, <2>1, <2>2 DEF WashResumes
<1>5. CASE BootDevice /\ (BootDiscard \/ BootIdle)
  BY <1>0, <1>3, <1>5
  DEF BootDevice, BootDiscard, BootIdle, DryStages, ForgetWash, NoRun, Record, washVars
<1>6. CASE GuardTrips \/ FinishWash \/ StopRelay
  BY <1>3, <1>6 DEF GuardTrips, FinishWash, StopRelay
<1>7. CASE GuardClears \/ WashFinished \/ StopClears
  BY <1>0, <1>3, <1>7
  DEF GuardClears, WashFinished, StopClears, DryStages, ForgetWash, NoRun, Record
<1>8. CASE DropAndPersist
  <2>1. /\ running'.session = running.session /\ running'.deadline = running.deadline
        /\ nvs'.session = nvs.session /\ nvs'.deadline = nvs.deadline
        /\ UNCHANGED << relay, runStarted >>
    BY <1>0, <1>8, DeviceTypes DEF DropAndPersist, RunRecords
  <2> QED
    BY <1>3, <2>1
<1>9. CASE GuardPasses \/ TimerPasses \/ Heartbeat \/ Poll \/ Button \/ StopReports
  BY <1>3, <1>9 DEF GuardPasses, TimerPasses, Heartbeat, Poll, Button, StopReports, washVars
<1> QED
  BY <1>4, <1>5, <1>6, <1>7, <1>8, <1>9 DEF Loop, BootDevice

LEMMA AnswerOnWash ==
  DeviceFits /\ (StartsNothing \/ StartsOnce) => WashGoesOn \/ WashStarts
<1> SUFFICES ASSUME DeviceFits, StartsNothing \/ StartsOnce PROVE WashGoesOn \/ WashStarts
  OBVIOUS
<1>0. /\ clock >= clock /\ runStarted \in Int /\ water \in [ Sessions -> Nat ]
      /\ \A s \in Sessions : water[s] >= water[s]
      /\ relay => water[running.session] = water[running.session] + (clock - clock)
      /\ pc = "blocked" /\ call.kind = "start" => auth.session \in Sessions
  <2>1. runStarted \in Int /\ water \in [ Sessions -> Nat ]
        /\ (relay => running.session \in Sessions)
        /\ (pc = "blocked" /\ call.kind = "start" => auth.session \in Sessions)
    BY DeviceTypes, ConstantTypes
    DEF DeviceFits, RelayInv, DeviceInv, GuardCounts, FlowIsRecorded, RunRecords,
        ArmedForSession, AuthRecords
  <2>2. relay => water[running.session] \in Nat
    BY <2>1
  <2> QED
    BY <2>1, <2>2, DeviceTypes
<1>1. UNCHANGED << clock, water, washVars, confirmed >> => WashGoesOn
  BY <1>0 DEF WashGoesOn, washVars
<1> USE DEF worldVars, history
<1>2. ASSUME NEW commands, HeartbeatReturns(commands) PROVE WashGoesOn
  BY <1>1, <1>2 DEF HeartbeatReturns
<1>3. ASSUME NEW s, NEW e, PollReturns(s, e) PROVE WashGoesOn
  BY <1>1, <1>3 DEF PollReturns
<1>4. CASE StartsOnce /\ StartAccepted
  <2>1. /\ NewRun.session = auth.session /\ NewRun.deadline = clock + Duration
        /\ clock % Wrap \in Int
    BY DeviceTypes, ConstantTypes DEF NewRun, Record
  <2> QED
    BY <1>0, <1>4, <2>1 DEF StartsOnce, StartAccepted, WashStarts, Returned
<1>5. CASE StartsOnce /\ TornStart
  BY <1>0, <1>5, DeviceTypes DEF StartsOnce, TornStart, Reset, WashStarts, NoRun, Record
<1>6. ASSUME NEW conflict \in BOOLEAN, StartRefused(conflict) PROVE WashGoesOn
  BY <1>1, <1>6 DEF StartRefused
<1>7. CASE ReportReturns
  BY <1>1, <1>7 DEF ReportReturns
<1> QED
  BY <1>2, <1>3, <1>4, <1>5, <1>6, <1>7 DEF StartsNothing, StartsOnce

LEMMA WorldOnWash == DeviceFits /\ (World \/ UNCHANGED vars) => WashGoesOn
<1> SUFFICES ASSUME DeviceFits, World \/ UNCHANGED vars PROVE WashGoesOn
  OBVIOUS
<1>0. /\ runStarted \in Int /\ water \in [ Sessions -> Nat ]
      /\ relay => running.session \in Sessions
  BY DeviceTypes, ConstantTypes
  DEF DeviceFits, RelayInv, DeviceInv, GuardCounts, FlowIsRecorded, RunRecords
<1>1. \A s \in Sessions : water[s] \in Nat /\ water[s] >= water[s]
  BY <1>0
<1>2. UNCHANGED << clock, water, washVars, confirmed >> => WashGoesOn
  BY <1>0, <1>1, DeviceTypes DEF WashGoesOn, washVars
<1>3. CASE Crash \/ WatchdogBites
  BY <1>0, <1>1, <1>3, DeviceTypes DEF Crash, WatchdogBites, Reset, WashGoesOn, worldVars, history
<1>4. CASE Tick
  <2>1. /\ clock' = clock + 1 /\ UNCHANGED << relay, running, runStarted, nvs, confirmed >>
        /\ water' = [ s \in Sessions |->
                        IF relay /\ running.session = s THEN water[s] + 1 ELSE water[s] ]
    BY <1>4 DEF Tick, washVars
  <2>2. /\ water' \in [ Sessions -> Nat ]
        /\ \A s \in Sessions : water'[s] >= water[s]
        /\ relay => water'[running.session] = water[running.session] + 1
    BY <1>0, <1>1, <2>1
  <2>3. clock' >= clock /\ clock' - clock = 1
    BY <2>1, DeviceTypes
  <2> QED
    BY <1>0, <2>1, <2>2, <2>3 DEF WashGoesOn
<1>5. CASE NtpSync \/ LinkChanges
  BY <1>2, <1>5 DEF NtpSync, LinkChanges, history
<1>6. CASE UNCHANGED vars
  BY <1>2, <1>6 DEF vars, worldVars, history
<1> QED
  BY <1>3, <1>4, <1>5, <1>6 DEF World

LEMMA OnWash ==
  DeviceFits /\ DeviceStep =>
    WashGoesOn \/ (BootDevice /\ BootResume /\ WashResumes) \/ WashStarts
BY LoopOnWash, AnswerOnWash, WorldOnWash DEF DeviceStep

(* What is less than the modulus is its own remainder.                     *)
LEMMA SmallRemainder ==
  ASSUME NEW w \in Nat \ {0}, NEW x \in Int, 0 <= x, x < w
  PROVE  x % w = x
<1> DEFINE q == x \div w
           r == x % w
<1>1. x = w * q + r /\ q \in Int /\ r \in 0..(w - 1)
  BY Division
<1> HIDE DEF q, r
<1>2. CASE q = 0
  BY <1>1, <1>2 DEF r
<1>3. CASE q < 0
  <2>1. w * (0 - q) = r - x
    BY <1>1
  <2>2. w * (0 - q) >= w
    BY <1>1, <1>3
  <2> QED
    BY <1>1, <2>1, <2>2
<1>4. CASE q > 0
  <2>1. w * q >= w
    BY <1>1, <1>4
  <2> QED
    BY <1>1, <2>1
<1> QED
  BY <1>1, <1>2, <1>3, <1>4

(* What millis() says has passed is never more than what has.              *)
LEMMA NeverMore ==
  ASSUME NEW w \in Nat \ {0}, NEW b \in Int, NEW c \in Int, c >= b
  PROVE  (c - (b % w)) % w <= c - b
<1> DEFINE q == b \div w
           r == b % w
           p == (c - r) \div w
           s == (c - r) % w
<1>1. b = w * q + r /\ q \in Int /\ r \in 0..(w - 1)
  BY Division
<1>2. c - r = w * p + s /\ p \in Int /\ s \in 0..(w - 1)
  <2>1. c - r \in Int
    BY <1>1
  <2> QED
    BY <2>1, Division
<1> HIDE DEF q, r, p, s
<1>3. w * (p - q) = c - b - s
  BY <1>1, <1>2
<1>4. CASE p < q
  <2>1. w * (q - p) = s - (c - b)
    BY <1>1, <1>2
  <2>2. w * (q - p) >= w
    BY <1>1, <1>2, <1>4
  <2> QED
    BY <1>1, <1>2, <2>1, <2>2
<1>5. CASE p >= q
  <2>1. w * (p - q) >= 0
    BY <1>1, <1>2, <1>5
  <2> QED
    BY <1>1, <1>2, <1>3, <2>1 DEF r, s
<1>6. s <= c - b
  BY <1>1, <1>2, <1>4, <1>5 DEF r, s
<1> QED
  BY <1>6 DEF r, s

LEMMA GuardCountsStay == SteadyHour /\ DeviceFits /\ DeviceStep => GuardCounts'
<1> SUFFICES ASSUME SteadyHour, DeviceFits, DeviceStep PROVE GuardCounts'
  OBVIOUS
<1>0. /\ GuardCounts /\ clock \in Nat /\ clock' \in Nat /\ epoch = clock /\ skew = 0
      /\ nvs.deadline \in Int /\ skew' = 0 /\ running.deadline \in Int
  BY DeviceTypes, HourStays DEF DeviceFits, DeviceInv, HourIsTrue
<1>1. CASE WashGoesOn
  <2>1. clock' >= clock
    BY <1>1 DEF WashGoesOn
  <2>2. nvs'.session # None => nvs'.deadline <= clock' + Duration
    BY <1>0, <1>1, <2>1, ConstantTypes DEF WashGoesOn, GuardCounts
  <2> QED
    BY <1>0, <1>1, <2>2 DEF WashGoesOn, GuardCounts
<1>2. CASE WashResumes
  <2>1. /\ nvs.deadline - clock > 0 /\ nvs.deadline <= clock + Duration
        /\ runStarted' = (clock - Consumed) % Wrap
    BY <1>0, <1>2 DEF WashResumes, GuardCounts
  <2>2. Consumed = Duration - (nvs.deadline - clock)
    <3>1. Consumed = (Duration - (nvs.deadline - clock)) % Wrap
      BY <1>0 DEF Consumed, remaining
    <3> DEFINE x == Duration - (nvs.deadline - clock)
    <3>2. x \in Int /\ 0 <= x /\ x < Wrap
      BY <1>0, <2>1, Durations, ConstantTypes
    <3> HIDE DEF x
    <3>3. x % Wrap = x
      BY <3>2, SmallRemainder, ConstantTypes
    <3> QED
      BY <3>1, <3>3 DEF x
  <2>3. clock - Consumed = nvs.deadline - Duration
    BY <1>0, <2>2, ConstantTypes
  <2>4. runStarted' = (nvs.deadline - Duration) % Wrap /\ runStarted' \in Int
    <3>1. nvs.deadline - Duration \in Int
      BY <1>0, ConstantTypes
    <3> QED
      BY <2>1, <2>3, <3>1, Division, ConstantTypes
  <2>5. running' = nvs /\ nvs' = nvs /\ clock' = clock /\ water' = water
    BY <1>2 DEF WashResumes
  <2> QED
    BY <1>0, <2>1, <2>4, <2>5 DEF GuardCounts
<1>3. CASE WashStarts
  <2>1. NewRun.deadline = clock + Duration /\ clock + Duration - Duration = clock
    BY <1>0, ConstantTypes DEF NewRun, Record
  <2>2. relay' => runStarted' = (running'.deadline - Duration) % Wrap
    <3>1. relay' => running' = NewRun /\ runStarted' = clock % Wrap
      BY <1>3 DEF WashStarts
    <3> DEFINE begun == running'.deadline - Duration
    <3>2. relay' => begun = clock
      BY <1>0, <2>1, <3>1, ConstantTypes
    <3> HIDE DEF begun
    <3>3. relay' => runStarted' = begun % Wrap
      BY <3>1, <3>2
    <3> QED
      BY <3>3 DEF begun
  <2>3. nvs'.session # None => nvs'.deadline <= clock' + Duration
    BY <1>0, <1>3, ConstantTypes DEF WashStarts
  <2>4. runStarted' \in Int /\ water' = water
    BY <1>3 DEF WashStarts
  <2> QED
    BY <1>0, <2>2, <2>3, <2>4 DEF GuardCounts
<1> QED
  BY <1>1, <1>2, <1>3, OnWash

LEMMA DeviceFitsStays == SteadyHour /\ DeviceFits /\ DeviceStep => DeviceFits'
BY RelayAndLedger, HourStays, StagesStay, GuardCountsStay DEF DeviceFits, DeviceInv

-----------------------------------------------------------------------------
(* A wash that is over for the device: no water, and no record a restart   *)
(* could resume.                                                           *)

Dead(s) ==
  /\ ~ (relay /\ running.session = s)
  /\ nvs.session = s => nvs.deadline <= clock

LEMMA DeadStays ==
  ASSUME SteadyHour, DeviceFits, DeviceStep, NEW s \in confirmed, s # None, Dead(s)
  PROVE  Dead(s)'
<1>0. /\ clock \in Nat /\ clock' \in Nat /\ nvs.deadline \in Int
  BY DeviceTypes, HourStays DEF HourIsTrue
<1>1. CASE WashGoesOn
  BY <1>0, <1>1 DEF WashGoesOn, Dead
<1>2. CASE WashResumes
  <2>1. nvs.session # s
    BY <1>0, <1>2 DEF WashResumes, Dead
  <2> QED
    BY <1>2, <2>1 DEF WashResumes, Dead
<1>3. CASE WashStarts
  <2>1. auth.session # s /\ NewRun.session = auth.session
    BY <1>3 DEF WashStarts, NewRun, Record
  <2>2. relay' => running'.session = auth.session
    BY <1>3, <2>1 DEF WashStarts
  <2>3. nvs'.session # s
    BY <1>3, <2>1 DEF WashStarts
  <2> QED
    BY <2>1, <2>2, <2>3 DEF Dead
<1> QED
  BY <1>1, <1>2, <1>3, OnWash

(* The guard trips after the end of the wash, never before.                *)
LEMMA OverrunIsLate ==
  ASSUME DeviceFits, Overrun
  PROVE  relay /\ nvs.session = running.session /\ nvs.deadline <= clock
<1>0. /\ clock \in Nat /\ nvs.deadline \in Int /\ running.deadline = nvs.deadline
      /\ relay /\ nvs.session = running.session /\ running.session # None
      /\ runStarted = (running.deadline - Duration) % Wrap
      /\ nvs.deadline <= clock + Duration
  BY DeviceTypes
  DEF DeviceFits, RelayInv, FlowIsRecorded, DeviceInv, GuardCounts, Overrun
<1> DEFINE begun == nvs.deadline - Duration
<1>1. begun \in Int /\ clock >= begun
  BY <1>0, ConstantTypes
<1>2. runStarted = begun % Wrap
  BY <1>0
<1> HIDE DEF begun
<1>3. (clock - runStarted) % Wrap <= clock - begun
  <2>1. (clock - (begun % Wrap)) % Wrap <= clock - begun
    <3>1. clock \in Int /\ Wrap \in Nat \ {0}
      BY <1>0, ConstantTypes
    <3> QED
      BY <1>1, <3>1, NeverMore, Zenon
  <2> QED
    BY <1>2, <2>1
<1>4. (clock - runStarted) % Wrap > Duration + Margin
  BY DEF Overrun
<1>5. (clock - runStarted) % Wrap \in Int
  <2>1. begun % Wrap \in Int
    BY <1>1, Division, ConstantTypes
  <2>2. clock - runStarted \in Int
    BY <1>0, <1>2, <2>1
  <2> QED
    BY <2>2, Division, ConstantTypes
<1>6. clock - begun > Duration + Margin
  BY <1>0, <1>1, <1>3, <1>4, <1>5, ConstantTypes
<1>7. nvs.deadline <= clock
  BY <1>0, <1>6, ConstantTypes DEF begun
<1> QED
  BY <1>0, <1>7

(* What a step puts on the network is the end of a wash only as the device *)
(* closes it: by the timer, by the guard, or by the restart that finds it. *)
EndsByTimer ==
  /\ call'.kind = "finish" /\ call'.session = running.session /\ state = "RUNNING"
  /\ relay /\ running.deadline <= clock /\ ~ relay' /\ UNCHANGED << nvs, clock, water >>

EndsByGuard ==
  /\ call'.kind = "report" /\ call'.session = running.session /\ Overrun
  /\ ~ relay' /\ UNCHANGED << nvs, clock, water >>

EndsAtRestart ==
  /\ call'.kind = "report" /\ call'.session = nvs.session /\ nvs.session # None
  /\ ~ relay' /\ nvs'.session = None /\ UNCHANGED << clock, water >>

NewEnd == call' # call /\ call'.kind \in { "finish", "report" }

LEMMA HowItEnds ==
  DeviceFits /\ DeviceStep /\ NewEnd => EndsByTimer \/ EndsByGuard \/ EndsAtRestart
<1> SUFFICES ASSUME DeviceFits, DeviceStep, NewEnd
             PROVE  EndsByTimer \/ EndsByGuard \/ EndsAtRestart
  OBVIOUS
<1>0. /\ epoch = clock /\ (pc \in DryStages => ~relay)
      /\ (state = "RUNNING" /\ pc = "timer" => relay)
  BY DeviceTypes DEF DeviceFits, RelayInv, DryBetween, DeviceInv, StagesFit, Cutting
<1> USE DEF NewEnd, Goto, PostIfUp, Post, Request, worldVars, history
<1>1. CASE BootDevice
  BY <1>0, <1>1
  DEF BootDevice, BootResume, BootDiscard, BootIdle, ForgetWash, NoRun, Record, DryStages,
      EndsAtRestart
<1>2. CASE GuardTrips
  BY <1>2 DEF GuardTrips, EndsByGuard
<1>3. CASE FinishWash
  BY <1>0, <1>3 DEF FinishWash, TimerDue, EndsByTimer
<1>4. CASE GuardClears \/ GuardPasses \/ WashFinished \/ TimerPasses \/ DropAndPersist
  BY <1>4 DEF GuardClears, GuardPasses, WashFinished, TimerPasses, DropAndPersist
<1>5. CASE Heartbeat \/ Poll \/ Button
  BY <1>5 DEF Heartbeat, Poll, Button
<1>6. CASE StopRelay \/ StopReports \/ StopClears
  BY <1>6 DEF StopRelay, StopReports, StopClears
<1>7. CASE StartsNothing \/ StartsOnce
  BY <1>7
  DEF StartsNothing, StartsOnce, HeartbeatReturns, PollReturns, StartAccepted, TornStart,
      StartRefused, ReportReturns, Returned, Reset, NoCall
<1>8. CASE World \/ UNCHANGED vars
  BY <1>8
  DEF World, Crash, WatchdogBites, Tick, NtpSync, LinkChanges, Reset, NoCall, vars, callVars
<1> QED
  BY <1>1, <1>2, <1>3, <1>4, <1>5, <1>6, <1>7, <1>8 DEF DeviceStep, Loop

LEMMA EndsAreDead ==
  ASSUME DeviceFits, DeviceStep, NewEnd, SteadyHour, NEW s, call'.session = s
  PROVE  s \in confirmed' /\ Dead(s)'
<1>1. s \in confirmed'
  BY StagesStay DEF StagesFit, EndKinds, NewEnd
<1>0. clock \in Nat /\ nvs.deadline \in Int
  BY DeviceTypes
<1>2. CASE EndsByTimer
  <2>1. nvs.session = running.session /\ nvs.deadline = running.deadline
    BY <1>2 DEF EndsByTimer, DeviceFits, LedgerInv
  <2> QED
    BY <1>1, <1>2, <2>1 DEF EndsByTimer, Dead
<1>3. CASE EndsByGuard
  BY <1>1, <1>3, OverrunIsLate DEF EndsByGuard, Dead
<1>4. CASE EndsAtRestart
  BY <1>1, <1>4 DEF EndsAtRestart, Dead
<1> QED
  BY <1>2, <1>3, <1>4, HowItEnds

-----------------------------------------------------------------------------
(* The server and the network.                                             *)

Ended == { "FINISHED", "SESSION_INTERRUPTED" }
Begun == { "RUNNING", "EMERGENCY_STOP" } \cup Ended

(* The requests that may still reach the server.                           *)
OnTheWay == late \cup { call }

EndOnTheWay(s, end) ==
  \E r \in OnTheWay :
    /\ r.session = s
    /\ \/ r.kind = "finish" /\ end = "FINISHED"
       \/ r.kind = "report" /\ end = "SESSION_INTERRUPTED"

RowTypes ==
  /\ session \in [ Sessions -> SessionStatuses ]
  /\ authz \in [ Sessions -> { "NONE", "AUTHORIZED", "CONSUMED", "REVOKED", "EXPIRED" } ]
  /\ expiresAt \in [ Sessions -> Int ]
  /\ answer.auths \subseteq Sessions
  /\ answer # NoAnswer => pc = "blocked"
  /\ confirmed \subseteq Sessions

(* What the device was allowed to start keeps its consumed authorization.  *)
ConfirmedHasBegun ==
  \A s \in confirmed : authz[s] = "CONSUMED" /\ session[s] \in Begun

(* A start the server granted and the device has not heard of yet: nothing *)
(* can end that session meanwhile but a stop.                              *)
GrantStands ==
  answer # NoAnswer /\ answer.ok /\ call.kind = "start" =>
    /\ call.session \in Sessions \ confirmed
    /\ authz[call.session] = "CONSUMED"
    /\ session[call.session] \in { "RUNNING", "EMERGENCY_STOP" }

(* What is recorded as over, or is on its way to be, is over at the device.*)
EndedIsDead ==
  /\ \A s \in Sessions : session[s] \in Ended => s \in confirmed /\ Dead(s)
  /\ \A r \in OnTheWay :
       r.kind \in { "finish", "report" } => r.session \in confirmed /\ Dead(r.session)

CoverInv == RowTypes /\ ConfirmedHasBegun /\ GrantStands /\ EndedIsDead

(* What a step of the server does to the row of a session.                 *)
RowMoves(s) ==
  /\ authz[s] = "CONSUMED" /\ session[s] \in Begun =>
       authz'[s] = "CONSUMED" /\ session'[s] \in Begun
  /\ session'[s] \in Ended => session'[s] = session[s] \/ EndOnTheWay(s, session'[s])

ServerSide ==
  /\ UNCHANGED << vars, restarted >> /\ late' \subseteq late
  /\ RowTypes' /\ \A s \in Sessions : RowMoves(s)
  /\ \/ answer' = answer
     \/ call.kind = "start" /\ answer'.ok =>
          /\ call.session \in Sessions /\ authz[call.session] = "AUTHORIZED"
          /\ authz'[call.session] = "CONSUMED" /\ session'[call.session] = "RUNNING"

LEMMA HandleMoves ==
  ASSUME RowTypes, NEW r \in OnTheWay, Handle(r)
  PROVE  /\ session' \in [ Sessions -> SessionStatuses ]
         /\ authz' \in [ Sessions -> { "NONE", "AUTHORIZED", "CONSUMED", "REVOKED",
                                       "EXPIRED" } ]
         /\ expiresAt' = expiresAt
         /\ \A s \in Sessions : RowMoves(s)
<1> USE DEF RowTypes, RowMoves, Begun, Ended, SessionStatuses
<1>1. CASE r.kind \in { "heartbeat", "note", "event", "ack" }
  <2>1. UNCHANGED << session, authz, expiresAt >>
    BY <1>1 DEF Handle, ServeEvent, ServeAck, serverVars
  <2> QED
    BY <2>1
<1>2. CASE r.kind = "poll"
  <2>1. /\ UNCHANGED << authz, expiresAt >>
        /\ session' = [ s \in Sessions |->
                          IF Deliverable(s) /\ session[s] = "AUTHORIZED"
                            THEN "WAITING_FOR_BUTTON" ELSE session[s] ]
    BY <1>2 DEF Handle, ServePoll
  <2> QED
    BY <2>1
<1>3. CASE r.kind = "start"
  <2>1. ServeStart(r.session)
    BY <1>3 DEF Handle
  <2> QED
    BY <2>1 DEF ServeStart, Startable, Deliverable
<1>4. ASSUME NEW end, ServeEnd(r.session, end),
             \/ r.kind = "finish" /\ end = "FINISHED"
             \/ r.kind = "report" /\ end = "SESSION_INTERRUPTED"
             \/ r.kind = "stopReport" /\ end = "EMERGENCY_STOP"
      PROVE  /\ session' \in [ Sessions -> SessionStatuses ]
             /\ UNCHANGED << authz, expiresAt >>
             /\ \A s \in Sessions : RowMoves(s)
  BY <1>4 DEF ServeEnd, EndOnTheWay
<1> QED
  BY <1>1, <1>2, <1>3, <1>4 DEF Handle

LEMMA ServerEffects == DeviceFits /\ CoverInv /\ Server => ServerSide
<1> SUFFICES ASSUME DeviceFits, CoverInv, Server PROVE ServerSide
  OBVIOUS
<1>0. RowTypes
  BY DEF CoverInv
<1> USE DEF vars, worldVars, callVars, history, netVars, reached
<1>1. CASE Serve
  <2>1. /\ pc = "blocked" /\ Handle(call) /\ answer' = Answer(call)
        /\ UNCHANGED << vars, late, restarted >>
    BY <1>1 DEF Serve
  <2>2. call \in OnTheWay
    BY DEF OnTheWay
  <2>3. RowTypes'
    BY <1>0, <2>1, <2>2, HandleMoves DEF RowTypes, Answer
  <2>4. call.kind = "start" /\ answer'.ok =>
          /\ call.session \in Sessions /\ authz[call.session] = "AUTHORIZED"
          /\ authz'[call.session] = "CONSUMED" /\ session'[call.session] = "RUNNING"
    <3> SUFFICES ASSUME call.kind = "start", answer'.ok
                 PROVE  /\ call.session \in Sessions /\ authz[call.session] = "AUTHORIZED"
                        /\ authz'[call.session] = "CONSUMED"
                        /\ session'[call.session] = "RUNNING"
      OBVIOUS
    <3>1. Startable(call.session) /\ ServeStart(call.session)
      BY <2>1 DEF Answer, Handle
    <3>2. call.session \in Sessions
      BY <2>1, DeviceTypes
      DEF DeviceFits, RelayInv, ArmedForSession, DeviceInv, StagesFit, AuthRecords
    <3> QED
      BY <1>0, <3>1, <3>2 DEF ServeStart, Startable, Deliverable, RowTypes
  <2> QED
    BY <1>0, <2>1, <2>2, <2>3, <2>4, HandleMoves DEF ServerSide
<1>2. CASE ServeLate
  <2>1. PICK r \in late : Handle(r) /\ late' = late \ {r}
    BY <1>2 DEF ServeLate
  <2>2. UNCHANGED << vars, answer, restarted >>
    BY <1>2 DEF ServeLate
  <2>3. r \in OnTheWay
    BY DEF OnTheWay
  <2>4. RowTypes'
    BY <1>0, <2>1, <2>2, <2>3, HandleMoves DEF RowTypes
  <2> QED
    BY <1>0, <2>1, <2>2, <2>3, <2>4, HandleMoves DEF ServerSide
<1>3. ASSUME NEW x \in Sessions, Arm(x) PROVE ServerSide
  <2>1. AuthTtl + clock \in Int
    BY ConstantTypes, DeviceTypes
  <2> QED
    BY <1>0, <1>3, <2>1, ConstantTypes, DeviceTypes
    DEF Arm, ServerSide, RowTypes, RowMoves, Begun, Ended, SessionStatuses
<1>4. ASSUME NEW x \in Sessions, Expire(x) PROVE ServerSide
  BY <1>0, <1>4 DEF Expire, ServerSide, RowTypes, RowMoves, Begun, Ended, SessionStatuses
<1>5. ASSUME NEW c \in Commands, AdminStop(c) PROVE ServerSide
  <2>1. \A s \in ActiveNow : session[s] \in { "AUTHORIZED", "WAITING_FOR_BUTTON", "RUNNING" }
    BY DEF ActiveNow
  <2> QED
    BY <1>0, <1>5, <2>1
    DEF AdminStop, ServerSide, RowTypes, RowMoves, Begun, Ended, SessionStatuses
<1> QED
  BY <1>1, <1>2, <1>3, <1>4, <1>5 DEF Server

(* What a step of the device does, seen from the server.  It hears that a  *)
(* session may start only if the server granted it; it comes to setup by a *)
(* restart, which is counted, or inside the writing of a record.           *)
Hears ==
  /\ answer # NoAnswer /\ answer.ok /\ call.kind = "start"
  /\ confirmed' = confirmed \cup { call.session }

ComesToSetup ==
  \/ nvs' = nvs /\ { running.session } \ { None } \subseteq restarted'
  \/ pc = "setup" /\ nvs' = nvs
  \/ nvs'.session = None \/ nvs'.lastTick = 0

DeviceSide ==
  /\ DeviceStep /\ UNCHANGED << session, authz, expiresAt >>
  /\ late' \subseteq OnTheWay /\ restarted \subseteq restarted'
  /\ \/ answer' = NoAnswer
     \/ answer' = answer /\ UNCHANGED << pc, call, confirmed >>
  /\ confirmed' = confirmed \/ Hears
  /\ pc' = "setup" => ComesToSetup

LEMMA NothingStarts ==
  DeviceFits /\ (Loop \/ StartsNothing) => confirmed' = confirmed /\ pc' # "setup"
<1> SUFFICES ASSUME DeviceFits, Loop \/ StartsNothing
             PROVE  confirmed' = confirmed /\ pc' # "setup"
  OBVIOUS
<1>0. pc = "blocked" => after # "setup"
  BY DEF DeviceFits, DeviceInv, StagesFit
<1> USE DEF history, Goto, PostIfUp, Post
<1>1. CASE BootDevice \/ GuardTrips \/ GuardClears \/ GuardPasses \/ FinishWash
  BY <1>1
  DEF BootDevice, BootResume, BootDiscard, BootIdle, GuardTrips, GuardClears, GuardPasses,
      FinishWash
<1>2. CASE WashFinished \/ TimerPasses \/ DropAndPersist \/ Heartbeat \/ Poll \/ Button
  BY <1>2 DEF WashFinished, TimerPasses, DropAndPersist, Heartbeat, Poll, Button
<1>3. CASE StopRelay \/ StopReports \/ StopClears
  BY <1>3 DEF StopRelay, StopReports, StopClears
<1>4. CASE StartsNothing
  BY <1>0, <1>4
  DEF StartsNothing, HeartbeatReturns, PollReturns, StartRefused, ReportReturns, Returned
<1> QED
  BY <1>1, <1>2, <1>3, <1>4 DEF Loop

LEMMA DeviceEffects ==
  DeviceFits /\ CoverInv /\ [SysNext]_sysVars => Server \/ DeviceSide
<1> SUFFICES ASSUME DeviceFits, CoverInv, [SysNext]_sysVars, ~ Server PROVE DeviceSide
  OBVIOUS
<1>0. RowTypes /\ GrantStands
  BY DEF CoverInv
<1> USE DEF serverVars, netVars, reached, OnTheWay
<1>1. CASE DeviceLoop
  <2>1. Loop /\ UNCHANGED << session, authz, expiresAt, answer, late, restarted >>
    BY <1>1 DEF DeviceLoop
  <2>2. pc # "blocked"
    BY <2>1
    DEF Loop, BootDevice, GuardTrips, GuardClears, GuardPasses, FinishWash, WashFinished,
        TimerPasses, DropAndPersist, Heartbeat, Poll, Button, StopRelay, StopReports,
        StopClears
  <2> QED
    BY <1>0, <2>1, <2>2, NothingStarts DEF DeviceSide, DeviceStep, RowTypes
<1>2. CASE Receive
  <2>1. /\ answer # NoAnswer /\ answer' = NoAnswer
        /\ UNCHANGED << session, authz, expiresAt, late, restarted >>
    BY <1>2 DEF Receive
  <2>2. StartsNothing \/ (answer.ok /\ (StartAccepted \/ TornStart))
    BY <1>0, <1>2 DEF Receive, StartsNothing, RowTypes
  <2>3. CASE StartsNothing
    BY <2>1, <2>3, NothingStarts DEF DeviceSide, DeviceStep
  <2>4. CASE answer.ok /\ (StartAccepted \/ TornStart)
    <3>1. /\ pc = "blocked" /\ call.kind = "start"
          /\ confirmed' = confirmed \cup { auth.session }
          /\ pc' = "setup" => nvs'.session = None \/ nvs'.lastTick = 0
      BY <2>4 DEF StartAccepted, TornStart, Returned, NoRun, Record
    <3>2. call.session = auth.session
      BY <3>1 DEF DeviceFits, DeviceInv, StagesFit
    <3>3. StartsOnce
      BY <1>0, <2>1, <2>4, <3>1, <3>2 DEF GrantStands, StartsOnce
    <3> QED
      BY <2>1, <2>4, <3>1, <3>2, <3>3 DEF DeviceSide, DeviceStep, Hears, ComesToSetup
  <2> QED
    BY <2>2, <2>3, <2>4
<1>3. CASE GiveUp
  <2>1. /\ UNCHANGED << session, authz, expiresAt, restarted >>
        /\ late' \subseteq late \cup { call }
        /\ answer' = NoAnswer
    BY <1>3 DEF GiveUp, Abandon
  <2>2. StartsNothing
    BY <1>3 DEF GiveUp, StartsNothing
  <2> QED
    BY <2>1, <2>2, NothingStarts DEF DeviceSide, DeviceStep
<1>4. CASE Restart
  <2>1. /\ UNCHANGED << session, authz, expiresAt >>
        /\ late' \subseteq late \cup { call }
        /\ answer' = NoAnswer
        /\ restarted' = restarted \cup ({ running.session } \ { None })
        /\ World
    BY <1>4 DEF Restart, Abandon, World
  <2>2. UNCHANGED << nvs, confirmed >>
    BY <1>4 DEF Restart, Crash, WatchdogBites, history
  <2> QED
    BY <2>1, <2>2 DEF DeviceSide, DeviceStep, ComesToSetup
<1>5. CASE Environment
  <2>1. UNCHANGED << session, authz, expiresAt, answer, late, restarted >> /\ World
    BY <1>5 DEF Environment, World
  <2>2. UNCHANGED << pc, call, nvs, confirmed >>
    BY <1>5 DEF Environment, Tick, NtpSync, LinkChanges, callVars, washVars, history
  <2> QED
    BY <2>1, <2>2 DEF DeviceSide, DeviceStep, ComesToSetup
<1>6. CASE UNCHANGED sysVars
  <2>1. UNCHANGED << session, authz, expiresAt, answer, late, restarted, vars >>
    BY <1>6 DEF sysVars
  <2>2. UNCHANGED << pc, call, nvs, confirmed >>
    BY <2>1 DEF vars, callVars, washVars, history
  <2> QED
    BY <2>1, <2>2 DEF DeviceSide, DeviceStep, ComesToSetup
<1> QED
  BY <1>1, <1>2, <1>3, <1>4, <1>5, <1>6 DEF SysNext

-----------------------------------------------------------------------------
(* Water is covered.                                                       *)

LEMMA ServerKeepsCover == DeviceFits /\ CoverInv /\ ServerSide => CoverInv'
<1> SUFFICES ASSUME DeviceFits, CoverInv, ServerSide PROVE CoverInv'
  OBVIOUS
<1>0. /\ RowTypes /\ ConfirmedHasBegun /\ GrantStands /\ EndedIsDead
      /\ \A s \in Sessions : RowMoves(s)
  BY DEF CoverInv, ServerSide
<1>1. /\ UNCHANGED << relay, running, nvs, clock, call, confirmed, pc >>
      /\ OnTheWay' \subseteq OnTheWay
  BY DEF ServerSide, vars, worldVars, callVars, washVars, history, OnTheWay
<1>2. ConfirmedHasBegun'
  BY <1>0, <1>1 DEF ConfirmedHasBegun, RowMoves, RowTypes
<1>3. \A s \in Sessions : session'[s] \in Ended => s \in confirmed /\ Dead(s)
  BY <1>0 DEF EndedIsDead, RowMoves, EndOnTheWay
<1>4. EndedIsDead'
  BY <1>0, <1>1, <1>3 DEF EndedIsDead, Dead
<1>5. GrantStands'
  <2>1. CASE answer' = answer
    <3> SUFFICES ASSUME answer # NoAnswer, answer.ok, call.kind = "start"
                 PROVE  /\ call.session \in Sessions \ confirmed
                        /\ authz'[call.session] = "CONSUMED"
                        /\ session'[call.session] \in { "RUNNING", "EMERGENCY_STOP" }
      BY <1>1, <2>1 DEF GrantStands
    <3>1. /\ call.session \in Sessions \ confirmed
          /\ authz[call.session] = "CONSUMED" /\ session[call.session] \in Begun
      BY <1>0 DEF GrantStands, Begun
    <3>2. authz'[call.session] = "CONSUMED" /\ session'[call.session] \in Begun
      BY <1>0, <3>1 DEF RowMoves
    <3>3. session'[call.session] \notin Ended
      BY <1>3, <3>1
    <3> QED
      BY <3>1, <3>2, <3>3 DEF Begun
  <2>2. CASE answer' # answer
    <3>1. call.kind = "start" /\ answer'.ok =>
            /\ call.session \in Sessions /\ authz[call.session] = "AUTHORIZED"
            /\ authz'[call.session] = "CONSUMED" /\ session'[call.session] = "RUNNING"
      BY <2>2 DEF ServerSide
    <3> QED
      BY <1>0, <1>1, <3>1 DEF GrantStands, ConfirmedHasBegun
  <2> QED
    BY <2>1, <2>2
<1> QED
  BY <1>2, <1>4, <1>5 DEF CoverInv, ServerSide

LEMMA DeviceKeepsCover ==
  SteadyHour /\ DeviceFits /\ CoverInv /\ DeviceSide => CoverInv'
<1> SUFFICES ASSUME SteadyHour, DeviceFits, CoverInv, DeviceSide PROVE CoverInv'
  OBVIOUS
<1>0. /\ RowTypes /\ ConfirmedHasBegun /\ GrantStands /\ EndedIsDead
      /\ DeviceStep /\ UNCHANGED << session, authz, expiresAt >>
      /\ late' \subseteq OnTheWay /\ (confirmed' = confirmed \/ Hears)
      /\ \/ answer' = NoAnswer
         \/ answer' = answer /\ UNCHANGED << pc, call, confirmed >>
  BY DEF CoverInv, DeviceSide
<1>1. confirmed \subseteq confirmed' /\ confirmed' \subseteq Sessions
  BY <1>0 DEF Hears, GrantStands, RowTypes
<1>2. RowTypes'
  BY <1>0, <1>1 DEF RowTypes, NoAnswer
<1>3. ConfirmedHasBegun'
  BY <1>0 DEF ConfirmedHasBegun, Hears, GrantStands, Begun
<1>4. GrantStands'
  BY <1>0 DEF GrantStands
<1>5. ASSUME NEW s \in confirmed, Dead(s) PROVE s \in confirmed' /\ Dead(s)'
  BY <1>0, <1>1, <1>5, DeadStays, ConstantTypes DEF RowTypes
<1>6. EndedIsDead'
  <2>1. ASSUME NEW s \in Sessions, session'[s] \in Ended PROVE s \in confirmed' /\ Dead(s)'
    BY <1>0, <1>5, <2>1 DEF EndedIsDead
  <2>2. ASSUME NEW r \in OnTheWay', r.kind \in { "finish", "report" }
        PROVE  r.session \in confirmed' /\ Dead(r.session)'
    <3>1. CASE r \in OnTheWay
      BY <1>0, <1>5, <2>2, <3>1 DEF EndedIsDead
    <3>2. CASE r \notin OnTheWay
      <4>1. r = call' /\ NewEnd
        BY <1>0, <2>2, <3>2 DEF OnTheWay, NewEnd
      <4> QED
        BY <1>0, <4>1, EndsAreDead
    <3> QED
      BY <3>1, <3>2
  <2> QED
    BY <2>1, <2>2 DEF EndedIsDead
<1> QED
  BY <1>2, <1>3, <1>4, <1>6 DEF CoverInv

LEMMA CoverIsWater == DeviceFits /\ CoverInv => WaterIsCovered
<1> SUFFICES ASSUME DeviceFits, CoverInv, relay
             PROVE  /\ authz[running.session] = "CONSUMED"
                    /\ session[running.session] \in { "RUNNING", "EMERGENCY_STOP" }
  BY DEF WaterIsCovered
<1>1. running.session \in confirmed /\ running.session \in Sessions
  BY DEF DeviceFits, RelayInv, FlowIsRecorded, LedgerInv, CoverInv, RowTypes
<1>2. authz[running.session] = "CONSUMED" /\ session[running.session] \in Begun
  BY <1>1 DEF CoverInv, ConfirmedHasBegun
<1>3. session[running.session] \notin Ended
  BY <1>1 DEF CoverInv, EndedIsDead, Dead
<1> QED
  BY <1>2, <1>3 DEF Begun

LEMMA SystemInit == SteadyHour /\ SysInit => DeviceFits /\ CoverInv
<1> SUFFICES ASSUME SteadyHour, SysInit PROVE DeviceFits /\ CoverInv
  OBVIOUS
<1>1. Init
  BY DEF SysInit
<1>2. RelayInv /\ LedgerInv
  BY <1>1, RelayInit, LedgerInit
<1>3. DeviceInv
  BY <1>1, ConstantTypes
  DEF Init, DeviceInv, HourIsTrue, StagesFit, GuardCounts, DeviceStates, EndKinds, Cutting,
      Origin, NoRun, NoCall
<1>4. CoverInv
  BY <1>1
  DEF SysInit, Init, CoverInv, RowTypes, ConfirmedHasBegun, GrantStands, EndedIsDead, Ended,
      OnTheWay, NoAnswer, NoCall, SessionStatuses
<1> QED
  BY <1>2, <1>3, <1>4 DEF DeviceFits

LEMMA SystemStep ==
  SteadyHour /\ DeviceFits /\ CoverInv /\ [SysNext]_sysVars => DeviceFits' /\ CoverInv'
<1>1. ServerSide => DeviceStep
  BY DEF ServerSide, DeviceStep
<1>2. DeviceSide => DeviceStep
  BY DEF DeviceSide
<1> QED
  BY <1>1, <1>2, DeviceEffects, ServerEffects, DeviceFitsStays, ServerKeepsCover,
     DeviceKeepsCover

(* Wherever the requests of a device are lost, delayed or answered twice,  *)
(* and wherever it restarts, water only flows for a session the server     *)
(* runs, or has stopped by an order the device is still to hear.           *)
THEOREM WaterAlwaysCovered ==
  ASSUME SteadyHour PROVE SysSpec => []WaterIsCovered
<1>1. SysInit => DeviceFits /\ CoverInv
  BY SystemInit
<1>2. DeviceFits /\ CoverInv /\ [SysNext]_sysVars => DeviceFits' /\ CoverInv'
  BY SystemStep
<1>3. DeviceFits /\ CoverInv => WaterIsCovered
  BY CoverIsWater
<1> QED
  BY <1>1, <1>2, <1>3, PTL DEF SysSpec

-----------------------------------------------------------------------------
(* What is recorded as finished was whole.                                 *)

WholeInv ==
  /\ relay /\ running.session \notin restarted =>
       water[running.session] >= clock - running.deadline + Duration
  /\ \A r \in OnTheWay :
       r.kind = "finish" => r.session \in restarted \/ water[r.session] >= Duration
  /\ pc = "setup" => nvs.session \in restarted \cup { None } \/ nvs.lastTick = 0
  /\ FinishedIsWhole

LEMMA WholeInit == SysInit => WholeInv
BY DEF SysInit, Init, WholeInv, FinishedIsWhole, OnTheWay, NoCall, NoRun, Record

LEMMA ServerKeepsWhole == CoverInv /\ WholeInv /\ ServerSide => WholeInv'
<1> SUFFICES ASSUME CoverInv, WholeInv, ServerSide PROVE WholeInv'
  OBVIOUS
<1>1. /\ UNCHANGED << relay, running, nvs, clock, pc, water, restarted >>
      /\ OnTheWay' \subseteq OnTheWay
  BY DEF ServerSide, vars, worldVars, callVars, washVars, history, OnTheWay
<1>2. FinishedIsWhole'
  <2> SUFFICES ASSUME NEW s \in Sessions, session'[s] = "FINISHED", s \notin restarted
               PROVE  water[s] >= Duration
    BY <1>1 DEF FinishedIsWhole
  <2>1. session[s] = "FINISHED" \/ EndOnTheWay(s, "FINISHED")
    BY DEF ServerSide, RowMoves, Ended
  <2> QED
    BY <2>1 DEF EndOnTheWay, WholeInv, FinishedIsWhole
<1> QED
  BY <1>1, <1>2 DEF WholeInv

(* A wash no restart has cut has had water since it began.                 *)
LEMMA DeviceKeepsFlow ==
  SteadyHour /\ DeviceFits /\ WholeInv /\ DeviceSide /\ relay' =>
    \/ running'.session \in restarted'
    \/ water'[running'.session] >= clock' - running'.deadline + Duration
<1> SUFFICES ASSUME SteadyHour, DeviceFits, WholeInv, DeviceSide, relay',
                    running'.session \notin restarted'
             PROVE  water'[running'.session] >= clock' - running'.deadline + Duration
  OBVIOUS
<1>0. /\ DeviceStep /\ restarted \subseteq restarted'
      /\ clock \in Nat /\ clock' \in Nat /\ running.deadline \in Int
      /\ water \in [ Sessions -> Nat ] /\ Duration \in Nat
  BY DeviceTypes, HourStays, ConstantTypes
  DEF DeviceSide, HourIsTrue, DeviceFits, DeviceInv, GuardCounts
<1>1. CASE WashGoesOn
  <2>1. /\ relay /\ running'.session = running.session
        /\ running'.deadline = running.deadline
        /\ water'[running.session] = water[running.session] + (clock' - clock)
    BY <1>1 DEF WashGoesOn
  <2>2. running.session \in Sessions
    BY <2>1, DeviceTypes DEF DeviceFits, RelayInv, FlowIsRecorded, RunRecords
  <2>3. water[running.session] >= clock - running.deadline + Duration
    BY <1>0, <2>1 DEF WholeInv
  <2>4. water[running.session] \in Nat
    BY <1>0, <2>2
  <2> QED
    BY <1>0, <2>1, <2>3, <2>4
<1>2. CASE WashResumes
  <2>1. /\ pc = "setup" /\ nvs.session # None /\ epoch - nvs.lastTick < MaxGap
        /\ running' = nvs
    BY <1>2 DEF WashResumes
  <2>2. nvs.lastTick # 0
    BY <2>1, DeviceTypes, ConstantTypes DEF Origin
  <2> QED
    BY <1>0, <2>1, <2>2 DEF WholeInv
<1>3. CASE WashStarts
  <2>1. /\ running' = NewRun /\ clock' = clock /\ water' = water
        /\ auth.session \in Sessions
    BY <1>3 DEF WashStarts
  <2>2. NewRun.session = auth.session /\ NewRun.deadline = clock + Duration
    BY DeviceTypes DEF NewRun, Record
  <2>3. water[auth.session] \in Nat
    BY <1>0, <2>1
  <2> QED
    BY <1>0, <2>1, <2>2, <2>3
<1> QED
  BY <1>0, <1>1, <1>2, <1>3, OnWash

LEMMA DeviceKeepsWhole ==
  SteadyHour /\ DeviceFits /\ CoverInv /\ WholeInv /\ DeviceSide => WholeInv'
<1> SUFFICES ASSUME SteadyHour, DeviceFits, CoverInv, WholeInv, DeviceSide PROVE WholeInv'
  OBVIOUS
<1>0. /\ DeviceStep /\ restarted \subseteq restarted' /\ session' = session
      /\ water \in [ Sessions -> Nat ] /\ water' \in [ Sessions -> Nat ] /\ Duration \in Nat
  BY DeviceFitsStays, ConstantTypes DEF DeviceSide, DeviceFits, DeviceInv, GuardCounts
<1>1. \A s \in Sessions : water'[s] >= water[s] /\ water'[s] \in Nat /\ water[s] \in Nat
  <2>1. CASE WashGoesOn
    BY <1>0, <2>1 DEF WashGoesOn
  <2>2. CASE water' = water
    BY <1>0, <2>2
  <2> QED
    BY <1>0, <2>1, <2>2, OnWash DEF WashResumes, WashStarts
<1>2. FinishedIsWhole'
  BY <1>0, <1>1 DEF WholeInv, FinishedIsWhole
<1>3. ASSUME NEW r \in OnTheWay', r.kind = "finish"
      PROVE  r.session \in restarted' \/ water'[r.session] >= Duration
  <2>1. CASE r \in OnTheWay
    <3>1. r.session \in Sessions
      BY <1>3, <2>1 DEF CoverInv, RowTypes, EndedIsDead
    <3> QED
      BY <1>0, <1>1, <1>3, <2>1, <3>1 DEF WholeInv
  <2>2. CASE r \notin OnTheWay
    <3>1. r = call' /\ NewEnd
      BY <1>3, <2>2 DEF OnTheWay, NewEnd, DeviceSide
    <3>2. EndsByTimer
      BY <1>0, <1>3, <3>1, HowItEnds DEF EndsByTimer, EndsByGuard, EndsAtRestart
    <3>3. /\ r.session = running.session /\ relay /\ running.deadline <= clock
          /\ water' = water
      BY <3>1, <3>2 DEF EndsByTimer
    <3>4. running.session \in Sessions /\ clock \in Nat /\ running.deadline \in Int
      BY <3>3, DeviceTypes DEF DeviceFits, RelayInv, FlowIsRecorded, RunRecords
    <3>5. water[running.session] \in Nat
      BY <1>0, <3>4
    <3> QED
      BY <1>0, <3>3, <3>4, <3>5 DEF WholeInv
  <2> QED
    BY <2>1, <2>2
<1>4. pc' = "setup" => nvs'.session \in restarted' \cup { None } \/ nvs'.lastTick = 0
  <2> SUFFICES ASSUME pc' = "setup", nvs'.session # None, nvs'.lastTick # 0
               PROVE  nvs'.session \in restarted'
    OBVIOUS
  <2>1. nvs' = nvs
    BY DEF DeviceSide, ComesToSetup
  <2>2. CASE pc = "setup"
    BY <1>0, <2>1, <2>2 DEF WholeInv
  <2>3. CASE pc # "setup"
    <3>1. running.session = nvs.session
      BY <2>1, <2>3
      DEF DeviceFits, LedgerInv, DeviceInv, StagesFit, DeviceStates
    <3> QED
      BY <2>1, <2>3, <3>1 DEF DeviceSide, ComesToSetup
  <2> QED
    BY <2>2, <2>3
<1> QED
  BY <1>2, <1>3, <1>4, DeviceKeepsFlow DEF WholeInv

(* No late or repeated report of one wash, no restart and no lost answer   *)
(* makes the server record as finished a wash that lacked water, unless a  *)
(* restart cut the wash itself.                                            *)
THEOREM FinishedAlwaysWhole ==
  ASSUME SteadyHour PROVE SysSpec => []FinishedIsWhole
<1> DEFINE SysInv == DeviceFits /\ CoverInv /\ WholeInv
<1>1. SysInit => SysInv
  BY SystemInit, WholeInit
<1>2. SysInv /\ [SysNext]_sysVars => SysInv'
  BY SystemStep, DeviceEffects, ServerEffects, ServerKeepsWhole, DeviceKeepsWhole
<1>3. SysInv => FinishedIsWhole
  BY DEF WholeInv
<1> HIDE DEF SysInv
<1> QED
  BY <1>1, <1>2, <1>3, PTL DEF SysSpec

-----------------------------------------------------------------------------
(* The instants the device reads in the server's answers.                  *)

LEMMA NextDayInMonth ==
  ASSUME NEW y \in Nat, NEW mo \in 1..12, NEW d \in Nat
  PROVE  DaysFromCivil(y, mo, d + 1) = DaysFromCivil(y, mo, d) + 1
BY DEF DaysFromCivil

LEMMA NextMonth ==
  ASSUME NEW y \in Nat, NEW mo \in 1..11
  PROVE  DaysFromCivil(y, mo + 1, 1) = DaysFromCivil(y, mo, 1) + MonthDays(y, mo)
<1>1. CASE mo = 1
  BY <1>1 DEF DaysFromCivil, MonthDays
<1>2. CASE mo = 2
  <2>1. CASE y = 0
    BY <1>2, <2>1 DEF DaysFromCivil, MonthDays, Leap
  <2>2. CASE y >= 1
    BY <1>2, <2>2, SMTT(60) DEF DaysFromCivil, MonthDays, Leap
  <2> QED BY <2>1, <2>2
<1>3. CASE mo = 3
  BY <1>3 DEF DaysFromCivil, MonthDays
<1>4. CASE mo \in 4..11
  BY <1>4 DEF DaysFromCivil, MonthDays
<1> QED BY <1>1, <1>2, <1>3, <1>4

LEMMA NextYear ==
  ASSUME NEW y \in Nat
  PROVE  DaysFromCivil(y + 1, 1, 1) = DaysFromCivil(y, 12, 1) + 31
BY DEF DaysFromCivil

LEMMA DayInMonth ==
  ASSUME NEW y \in Nat, NEW mo \in 1..12, NEW d \in Nat
  PROVE  DaysFromCivil(y, mo, d) = DaysFromCivil(y, mo, 1) + d - 1
BY DEF DaysFromCivil

LEMMA DayNumberIsInt ==
  ASSUME NEW y \in Nat, NEW mo \in 1..12, NEW d \in Nat
  PROVE  DaysFromCivil(y, mo, d) \in Int
BY DEF DaysFromCivil

(* The integers of parseIso8601EpochMs count the days of the Gregorian     *)
(* calendar from 1970, leap years included: every day is one more than the *)
(* day before.                                                             *)
THEOREM CalendarIsGregorian ==
  /\ DayNumber([ y |-> 1970, mo |-> 1, d |-> 1 ]) = 0
  /\ \A date \in Dates :
       DayNumber(Tomorrow(date)) = DayNumber(date) + 1
<1>1. DayNumber([ y |-> 1970, mo |-> 1, d |-> 1 ]) = 0
  BY DEF DayNumber, DaysFromCivil
<1>2. ASSUME NEW date \in Dates
      PROVE  DayNumber(Tomorrow(date)) = DayNumber(date) + 1
  <2>1. PICK y \in Nat, mo \in 1..12, d \in 1..31 :
          date = [ y |-> y, mo |-> mo, d |-> d ]
    BY DEF Dates
  <2>2. d <= MonthDays(y, mo) /\ MonthDays(y, mo) \in Nat
    BY <2>1 DEF Dates, MonthDays
  <2>3. DayNumber(date) = DaysFromCivil(y, mo, d)
    BY <2>1 DEF DayNumber
  <2>4. CASE d < MonthDays(y, mo)
    <3>1. Tomorrow(date) = [ y |-> y, mo |-> mo, d |-> d + 1 ]
      BY <2>1, <2>4 DEF Tomorrow
    <3>2. DayNumber(Tomorrow(date)) = DaysFromCivil(y, mo, d + 1)
      BY <3>1 DEF DayNumber
    <3> QED BY <2>3, <3>2, NextDayInMonth
  <2>5. CASE d = MonthDays(y, mo) /\ mo < 12
    <3>1. Tomorrow(date) = [ y |-> y, mo |-> mo + 1, d |-> 1 ]
      BY <2>1, <2>5 DEF Tomorrow
    <3>2. DayNumber(Tomorrow(date)) = DaysFromCivil(y, mo + 1, 1)
      BY <3>1 DEF DayNumber
    <3>3. DaysFromCivil(y, mo + 1, 1) = DaysFromCivil(y, mo, 1) + MonthDays(y, mo)
      BY <2>5, NextMonth
    <3>4. DaysFromCivil(y, mo, d) = DaysFromCivil(y, mo, 1) + d - 1
      BY DayInMonth
    <3>5. DaysFromCivil(y, mo, 1) \in Int
      BY DayNumberIsInt
    <3> QED BY <2>2, <2>3, <2>5, <3>2, <3>3, <3>4, <3>5
  <2>6. CASE d = MonthDays(y, mo) /\ mo = 12
    <3>1. d = 31
      BY <2>6 DEF MonthDays
    <3>2. Tomorrow(date) = [ y |-> y + 1, mo |-> 1, d |-> 1 ]
      BY <2>1, <2>6 DEF Tomorrow
    <3>3. DayNumber(Tomorrow(date)) = DaysFromCivil(y + 1, 1, 1)
      BY <3>2 DEF DayNumber
    <3>4. DaysFromCivil(y, 12, 31) = DaysFromCivil(y, 12, 1) + 31 - 1
      BY DayInMonth
    <3>5. DaysFromCivil(y, 12, 1) \in Int
      BY DayNumberIsInt
    <3>6. DaysFromCivil(y + 1, 1, 1) = DaysFromCivil(y, 12, 1) + 31
      BY NextYear
    <3> QED BY <2>3, <2>6, <3>1, <3>3, <3>4, <3>5, <3>6
  <2> QED BY <2>2, <2>4, <2>5, <2>6
<1> QED BY <1>1, <1>2

(* An instant the device reads falls on its own day and at its own time of *)
(* that day, so an authorization expires when the server says it does.     *)
THEOREM InstantIsExact ==
  ASSUME NEW date \in Dates, DayNumber(date) >= 0,
         NEW h \in 0..23, NEW mi \in 0..59, NEW s \in 0..59, NEW ms \in 0..999
  PROVE  LET instant == EpochMs(date.y, date.mo, date.d, h, mi, s, ms)
         IN  /\ instant \div DayMs = DayNumber(date)
             /\ instant % DayMs = MsOfDay(h, mi, s, ms)
<1> DEFINE n == DayNumber(date)  part == MsOfDay(h, mi, s, ms)
           instant == EpochMs(date.y, date.mo, date.d, h, mi, s, ms)
<1>0. date.y \in Nat /\ date.mo \in 1..12 /\ date.d \in Nat
  BY DEF Dates
<1>1. n \in Nat
  <2>1. DayNumber(date) \in Int
    BY <1>0, DayNumberIsInt DEF DayNumber
  <2> QED BY <2>1
<1>2. part \in Nat /\ part < 86400000
  BY DEF MsOfDay
<1>3. InRange(date.mo, date.d, h, mi, s)
  BY DEF InRange, Dates
<1>4. instant = n * 86400000 + part
  <2> DEFINE total == n * 86400000 + part
  <2>1. total >= 0
    BY <1>1, <1>2
  <2> HIDE DEF n, part
  <2>2. instant = IF InRange(date.mo, date.d, h, mi, s) /\ total >= 0
                  THEN total ELSE 0
    BY DEF EpochMs, DayNumber, DayMs, n, part
  <2> QED BY <1>3, <2>1, <2>2
<1> HIDE DEF n, part, instant
<1>5. instant \div 86400000 = n /\ instant % 86400000 = part
  BY <1>1, <1>2, <1>4
<1> QED BY <1>5 DEF DayMs, n, part, instant
=============================================================================
