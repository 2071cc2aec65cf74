---------------------------- MODULE MachineHealth ----------------------------
(***************************************************************************)
(* The status of the machines: heartbeats write it (deviceService.ts), the *)
(* timer's round recomputes it from the age of the last heartbeat, the     *)
(* administrator enables and disables (machineService.ts), and the         *)
(* checkout sells only a machine that is ONLINE (sessionService.ts).       *)
(*                                                                         *)
(* None of the writers is a transaction: each reads a row, awaits, and     *)
(* writes what it derived from it.  Only the checkout locks.               *)
(***************************************************************************)
EXTENDS Integers, FiniteSetsExt

CONSTANTS
  Machines, Rounds, Patches, None,
  Sold,              \* bound: machines customers buy from
  Faulty,            \* bound: machines whose device may report ERROR
  Online, Degraded,  \* deviceOnlineThresholdMs, deviceDegradedThresholdMs
  Every,             \* time between two fires of the timer
  Period,            \* a live device sends a heartbeat this often
  MaxDelay,          \* bound: how long a handler awaits in all
  MaxThrows,         \* bound: sweeps that throw
  Edits,             \* bound: what the administrator changes
  MaxPatches         \* bound: how often

ASSUME HealthAssumption ==
  /\ Sold \cup Faulty \subseteq Machines
  /\ { Online, Degraded, Every, Period, MaxDelay } \subseteq Nat
  /\ Online < Degraded /\ Every > 0
  /\ { MaxThrows, MaxPatches } \subseteq Nat
  /\ Edits \subseteq { "price", "disable", "enable" }

VARIABLES
  \* rows
  enabled, status,   \* of machines
  age,               \* time since devices.lastHeartbeatAt
  link,              \* devices.status
  settings,          \* prices and duration, as a version number
  session,           \* the active session of the machine
  charged,           \* the version its price was taken from
  \* handlers at their awaits
  beat, round, patch, checkout,
  \* surroundings
  alive, failing,    \* the device sends heartbeats; it reports ERROR
  rest,              \* time until the timer fires
  throws, patches

rows     == << enabled, status, age, link, settings, session, charged >>
handlers == << beat, round, patch, checkout >>
world    == << alive, failing, rest, throws, patches >>
vars == << rows, handlers, world >>

Statuses == { "ONLINE", "DEGRADED", "OFFLINE", "DISABLED" }

(* How stale a status may be when it is sold: a handler still writes that  *)
(* a device is online when the heartbeat is Online + MaxDelay old; the next*)
(* fire of the timer finds it silent after both of its awaits, the sweep   *)
(* and the round; each sweep that throws costs a period more.              *)
Staleness == Online + Every + 3 * MaxDelay + MaxThrows * Every

(* Ages beyond every threshold, and beyond the staleness, are one age.     *)
Oldest == Max({ Degraded + MaxDelay, Staleness }) + 1

Idle == [ at |-> "idle", since |-> 0 ]

Init ==
  /\ enabled = [ m \in Machines |-> TRUE ]
  /\ status = [ m \in Machines |-> "OFFLINE" ]
  /\ age = [ m \in Machines |-> Oldest ]
  /\ link = [ m \in Machines |-> "OFFLINE" ]
  /\ settings = [ m \in Machines |-> 0 ]
  /\ session = [ m \in Machines |-> "none" ]
  /\ charged = [ m \in Machines |-> None ]
  /\ beat = [ m \in Machines |-> Idle ]
  /\ round = [ r \in Rounds |-> Idle ]
  /\ patch = [ p \in Patches |-> [ at |-> "idle" ] ]
  /\ checkout = [ m \in Machines |-> None ]
  /\ alive = [ m \in Machines |-> TRUE ]
  /\ failing = [ m \in Machines |-> FALSE ]
  /\ rest = Every /\ throws = 0 /\ patches = 0

-----------------------------------------------------------------------------
(* A heartbeat.                                                            *)

Reported(failed) == IF failed THEN "DEGRADED" ELSE "ONLINE"

HeartbeatArrives(m) ==
  /\ alive[m] /\ beat[m].at = "idle"
  /\ age' = [ age EXCEPT ![m] = 0 ]
  /\ link' = [ link EXCEPT ![m] = Reported(failing[m]) ]
  /\ beat' = [ beat EXCEPT ![m] =
                 [ at |-> "written", since |-> 0, next |-> Reported(failing[m]) ] ]
  /\ UNCHANGED << enabled, status, settings, session, charged, round, patch, checkout,
                  world >>

HeartbeatReads(m) ==
  /\ beat[m].at = "written"
  /\ beat' = [ beat EXCEPT ![m] = IF enabled[m] /\ status[m] # beat[m].next
                                    THEN [ beat[m] EXCEPT !.at = "read" ] ELSE Idle ]
  /\ UNCHANGED << rows, round, patch, checkout, world >>

HeartbeatWrites(m) ==
  /\ beat[m].at = "read"
  /\ status' = [ status EXCEPT ![m] = beat[m].next ]
  /\ beat' = [ beat EXCEPT ![m] = Idle ]
  /\ UNCHANGED << enabled, age, link, settings, session, charged, round, patch, checkout,
                  world >>

-----------------------------------------------------------------------------
(* A round of the timer: sweepExpired, then recomputeMachineStatuses.      *)

RoundBegins(r) ==
  /\ rest = 0 /\ round[r].at = "idle"
  /\ rest' = Every
  /\ round' = [ round EXCEPT ![r] = [ at |-> "sweep", since |-> 0 ] ]
  /\ UNCHANGED << rows, beat, patch, checkout, alive, failing, throws, patches >>

(* A sweep that throws takes the recomputation with it.                    *)
SweepThrows(r) ==
  /\ round[r].at = "sweep" /\ throws < MaxThrows
  /\ throws' = throws + 1
  /\ round' = [ round EXCEPT ![r] = Idle ]
  /\ UNCHANGED << rows, beat, patch, checkout, alive, failing, rest, patches >>

(* now, and the list of all machines.                                      *)
RoundLists(r) ==
  /\ round[r].at = "sweep"
  /\ round' = [ round EXCEPT ![r] =
                  [ at |-> "list", since |-> 0, todo |-> Machines,
                    was |-> status, active |-> enabled ] ]
  /\ UNCHANGED << rows, beat, patch, checkout, world >>

(* Fault: the thresholds are excluded.                                     *)
DerivedStrictly(a) ==
  IF a < Online THEN "ONLINE" ELSE IF a < Degraded THEN "DEGRADED" ELSE "OFFLINE"

Derived(a) ==
  IF a <= Online THEN "ONLINE" ELSE IF a <= Degraded THEN "DEGRADED" ELSE "OFFLINE"

(* Ages are taken at the round's now: a later heartbeat counts as fresh.   *)
AgeAt(r, m) == age[m] - round[r].since

Recomputed(r, m) == IF round[r].active[m] THEN Derived(AgeAt(r, m)) ELSE "DISABLED"

RoundReads(r, m) ==
  /\ round[r].at = "list" /\ m \in round[r].todo
  /\ round' = [ round EXCEPT ![r] =
                  [ at |-> "machine", since |-> @.since, todo |-> @.todo \ { m },
                    was |-> @.was, active |-> @.active, machine |-> m,
                    next |-> Recomputed(r, m), link |-> link[m] ] ]
  /\ UNCHANGED << rows, beat, patch, checkout, world >>

Written(r) ==
  round' = [ round EXCEPT ![r].at =
               IF round[r].next = "OFFLINE" /\ round[r].link # "OFFLINE"
                 THEN "link" ELSE "list" ]

(* Fault: a machine found offline is not written.                          *)
RoundSpares(r) ==
  /\ round[r].at = "machine"
  /\ status' = IF round[r].next = "OFFLINE" THEN status
               ELSE [ status EXCEPT ![round[r].machine] = round[r].next ]
  /\ Written(r)
  /\ UNCHANGED << enabled, age, link, settings, session, charged, beat, patch, checkout,
                  world >>

RoundWrites(r) ==
  /\ round[r].at = "machine"
  /\ LET m == round[r].machine IN
       status' = IF round[r].next = round[r].was[m] THEN status
                 ELSE [ status EXCEPT ![m] = round[r].next ]
  /\ Written(r)
  /\ UNCHANGED << enabled, age, link, settings, session, charged, beat, patch, checkout,
                  world >>

RoundUnlinks(r) ==
  /\ round[r].at = "link"
  /\ link' = [ link EXCEPT ![round[r].machine] = "OFFLINE" ]
  /\ round' = [ round EXCEPT ![r].at = "list" ]
  /\ UNCHANGED << enabled, status, age, settings, session, charged, beat, patch, checkout,
                  world >>

RoundEnds(r) ==
  /\ round[r].at = "list" /\ round[r].todo = {}
  /\ round' = [ round EXCEPT ![r] = Idle ]
  /\ UNCHANGED << rows, beat, patch, checkout, world >>

-----------------------------------------------------------------------------
(* The administrator: a read, and an update without a transaction.         *)

Critical == { "price", "disable" }

PatchReads(p, m) ==
  /\ patch[p].at = "idle" /\ patches < MaxPatches
  /\ \E kind \in Edits :
       /\ kind \in Critical => session[m] # "running"
       /\ patch' = [ patch EXCEPT ![p] = [ at |-> "read", machine |-> m, kind |-> kind ] ]
  /\ patches' = patches + 1
  /\ UNCHANGED << rows, beat, round, checkout, alive, failing, rest, throws >>

PatchWrites(p) ==
  /\ patch[p].at = "read"
  /\ LET m == patch[p].machine IN
       /\ settings' = IF patch[p].kind = "price"
                        THEN [ settings EXCEPT ![m] = @ + 1 ] ELSE settings
       /\ enabled' = CASE patch[p].kind = "disable" -> [ enabled EXCEPT ![m] = FALSE ]
                       [] patch[p].kind = "enable" -> [ enabled EXCEPT ![m] = TRUE ]
                       [] OTHER -> enabled
  /\ patch' = [ patch EXCEPT ![p] = [ at |-> "idle" ] ]
  /\ UNCHANGED << status, age, link, session, charged, beat, round, checkout, world >>

-----------------------------------------------------------------------------
(* A checkout: the machine is read, then locked and checked.               *)

CheckoutReads(m) ==
  /\ checkout[m] = None
  /\ checkout' = [ checkout EXCEPT ![m] = settings[m] ]
  /\ UNCHANGED << rows, beat, round, patch, world >>

Payable(m) == enabled[m] /\ status[m] = "ONLINE" /\ session[m] = "none"

CheckoutReserves(m) ==
  /\ checkout[m] # None
  /\ checkout' = [ checkout EXCEPT ![m] = None ]
  /\ IF Payable(m)
       THEN /\ session' = [ session EXCEPT ![m] = "pending" ]
            /\ charged' = [ charged EXCEPT ![m] = checkout[m] ]
       ELSE UNCHANGED << session, charged >>
  /\ UNCHANGED << enabled, status, age, link, settings, beat, round, patch, world >>

PaymentApproved(m) ==
  /\ session[m] = "pending"
  /\ session' = [ session EXCEPT ![m] = "running" ]
  /\ UNCHANGED << enabled, status, age, link, settings, charged, handlers, world >>

SessionEnds(m) ==
  /\ session[m] # "none"
  /\ session' = [ session EXCEPT ![m] = "none" ]
  /\ charged' = [ charged EXCEPT ![m] = None ]
  /\ UNCHANGED << enabled, status, age, link, settings, handlers, world >>

-----------------------------------------------------------------------------
(* Time and the devices.                                                   *)

Longer(frame) == IF frame.at = "idle" THEN frame ELSE [ frame EXCEPT !.since = @ + 1 ]

Elapse ==
  /\ rest > 0
  /\ \A m \in Machines : alive[m] /\ beat[m].at = "idle" => age[m] < Period
  /\ \A f \in { beat[m] : m \in Machines } \cup { round[r] : r \in Rounds } :
       f.at = "idle" \/ f.since < MaxDelay
  /\ age' = [ m \in Machines |-> IF age[m] < Oldest THEN age[m] + 1 ELSE age[m] ]
  /\ beat' = [ m \in Machines |-> Longer(beat[m]) ]
  /\ round' = [ r \in Rounds |-> Longer(round[r]) ]
  /\ rest' = rest - 1
  /\ UNCHANGED << enabled, status, link, settings, session, charged, patch, checkout,
                  alive, failing, throws, patches >>

DeviceChanges(m) ==
  /\ \/ alive' = [ alive EXCEPT ![m] = ~@ ] /\ UNCHANGED failing
     \/ m \in Faulty /\ failing' = [ failing EXCEPT ![m] = ~@ ] /\ UNCHANGED alive
  /\ UNCHANGED << rows, handlers, rest, throws, patches >>

Heartbeat(m) == HeartbeatArrives(m) \/ HeartbeatReads(m) \/ HeartbeatWrites(m)

Round(r) ==
  \/ RoundBegins(r) \/ RoundLists(r)
  \/ \E m \in Machines : RoundReads(r, m)
  \/ RoundWrites(r) \/ RoundUnlinks(r) \/ RoundEnds(r)

Customer(m) ==
  CheckoutReads(m) \/ CheckoutReserves(m) \/ PaymentApproved(m) \/ SessionEnds(m)

Next ==
  \/ \E m \in Machines : Heartbeat(m) \/ DeviceChanges(m)
  \/ \E m \in Sold : Customer(m)
  \/ \E r \in Rounds : Round(r) \/ SweepThrows(r)
  \/ \E p \in Patches : PatchWrites(p) \/ \E m \in Machines : PatchReads(p, m)
  \/ Elapse

Spec == Init /\ [][Next]_vars

(* Handlers answer, the timer fires, live devices send heartbeats.         *)
Fairness ==
  /\ \A m \in Machines : WF_vars(Heartbeat(m))
  /\ \A r \in Rounds : WF_vars(Round(r))
  /\ \A p \in Patches : WF_vars(PatchWrites(p))
  /\ WF_vars(Elapse)

FairSpec == Spec /\ Fairness

-----------------------------------------------------------------------------
(* Properties.                                                             *)

(* Every row keeps its type, and a sold machine has a price.               *)
TypeOK ==
  /\ enabled \in [ Machines -> BOOLEAN ]
  /\ status \in [ Machines -> Statuses ]
  /\ age \in [ Machines -> 0..Oldest ]
  /\ link \in [ Machines -> Statuses \ { "DISABLED" } ]
  /\ settings \in [ Machines -> 0..MaxPatches ]
  /\ session \in [ Machines -> { "none", "pending", "running" } ]
  /\ \A m \in Machines : (charged[m] = None) = (session[m] = "none")

(* No customer is charged for a machine that has been silent for longer    *)
(* than that, whatever heartbeats and rounds overwrite each other.         *)
SoldIsAlive ==
  [][ \A m \in Machines : session[m] = "none" /\ session'[m] = "pending"
        => age[m] <= Staleness ]_vars

(* A device that stays up and healthy ends up ONLINE, and stays so.        *)
SteadyIsOnline ==
  \A m \in Machines :
    <>[](alive[m] /\ ~failing[m] /\ enabled[m])
      => <>[](status[m] = "ONLINE" /\ link[m] = "ONLINE")

(* device-protocol.md:62: a machine that stays silent ends up OFFLINE.     *)
SilentGoesOffline ==
  \A m \in Machines : <>[](~alive[m] /\ enabled[m]) => <>[](status[m] = "OFFLINE")

(* machineService.ts:214: critical settings do not change in a session.    *)
SettingsLocked ==
  [][ \A m \in Machines : session[m] = "running"
        => settings'[m] = settings[m] /\ (enabled[m] => enabled'[m]) ]_vars

(* deviceService.ts:74: the status follows the heartbeat; a machine whose  *)
(* device reports ERROR does not become ONLINE without a healthy one.      *)
FailingIsNotRaised ==
  [][ \A m \in Machines :
        /\ link[m] = "DEGRADED" /\ status[m] = "DEGRADED" /\ beat[m].at = "idle"
        => status'[m] # "ONLINE" ]_vars

(* sessionService.ts:74: the price is checked again at the reservation.    *)
ChargedIsCurrent ==
  [][ \A m \in Machines : session[m] = "none" /\ session'[m] = "pending"
        => charged'[m] = settings[m] ]_vars
=============================================================================
