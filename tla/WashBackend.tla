---------------------------- MODULE WashBackend ----------------------------
(***************************************************************************)
(* The API server of the self-service car wash: checkout, approval of      *)
(* payments, expiry sweep, delivery of authorizations to the machines,     *)
(* start and end of a wash, emergency stop.                                *)
(*                                                                         *)
(* A database transaction is one atomic step (what PGlite does, and what   *)
(* the comments of paymentService.ts ask of Postgres).  Everything that an *)
(* await separates OUTSIDE a transaction is a step of its own: the call to *)
(* the payment provider between the two transactions of a checkout, the    *)
(* re-query that precedes an approval, each iteration of the sweep, the    *)
(* three statements of the authorization poll.                             *)
(*                                                                         *)
(* A session, its payment and its authorization share one name: the unique *)
(* indexes on payments.session_id and authorizations.session_id make them  *)
(* three rows of one purchase.  Time is abstract: a session crosses its    *)
(* payment timeout and an authorization its expiresAt at any moment.  One  *)
(* behaviour covers one business day, so no wash leaves the daily count by *)
(* the date alone.                                                         *)
(***************************************************************************)
EXTENDS Integers, FiniteSets, SessionStates

CONSTANTS
  Machines,     \* the car-wash machines
  Sessions,     \* the purchases that may ever be attempted
  Plates,       \* the licence plates
  MachineOf,    \* the machine and ...
  PlateOf,      \* ... the plate each purchase is for
  DailyLimit,   \* washes a plate may use per day
  Attempts,     \* payment attempts a client may make on one checkout
  Outcomes,     \* what the provider may report of an attempt
  Requests,     \* HTTP requests in flight between re-query and approval
  Sweepers,     \* sweeps that may overlap (the timer does not wait for the last)
  None,         \* no session
  MaxStops,     \* bound: emergency stops per machine
  MaxCrashes    \* bound: restarts of the server

(* What getPaymentById reports of one attempt.  MISMATCH is an approval of *)
(* an amount other than the one charged.                                   *)
Verdicts == { "PENDING", "APPROVED", "MISMATCH", "REJECTED", "REFUNDED" }

ASSUME SessionAssumption ==
  /\ MachineOf \in [Sessions -> Machines]
  /\ PlateOf \in [Sessions -> Plates]
  /\ None \notin Sessions
  /\ Outcomes \subseteq Verdicts

ASSUME BoundAssumption ==
  /\ DailyLimit \in Nat
  /\ MaxStops \in Nat
  /\ MaxCrashes \in Nat

VARIABLES
  \* rows of the database
  status,       \* sessions.status ("NONE": the session was never created)
  createdAt,    \* sessions.created_at, as the rank of creation
  pay,          \* payments.status ("NONE": no payment row)
  auth,         \* authorizations.status ("NONE": no authorization row)
  online,       \* the machine row is enabled and ONLINE
  stops,        \* emergency-stop commands inserted for the machine's device
  \* time
  clock,        \* sessions created so far
  timedOut,     \* the session is older than the payment timeout
  overdue,      \* the authorization's expiresAt is past
  \* the payment provider
  remote,       \* what the provider knows of each attempt ("NONE": not made)
  \* the server's memory, lost when it restarts
  checkout,     \* progress of the checkout request of the session
  request,      \* re-queried verdicts not yet applied
  poll,         \* progress of the machine's authorization poll
  sweep,        \* progress of each sweep
  crashes,      \* restarts so far
  \* the devices
  delivered     \* sessions whose authorization was handed to the device

rowVars  == << status, createdAt, pay, auth >>
timeVars == << clock, timedOut, overdue >>
procVars == << checkout, request, poll, sweep, crashes >>
envVars  == << online, stops, remote, delivered >>
vars     == << rowVars, timeVars, procVars, envVars >>

-----------------------------------------------------------------------------
(* Rows the services ask for.                                              *)

Created(s) == status[s] # "NONE"
Active(s)  == status[s] \in ActiveStatuses
Armed(s)   == status[s] \in { "AUTHORIZED", "WAITING_FOR_BUTTON" }

ActiveOn(m) == { s \in Sessions : MachineOf[s] = m /\ Active(s) }

OthersOn(s) == { t \in Sessions \ {s} : MachineOf[t] = MachineOf[s] }

WashesToday(p) ==
  { s \in Sessions : PlateOf[s] = p /\ status[s] \in WashCountingStatuses }

(* Fault: looks for a newer session that is still active.                  *)
ExistsNewerActive(s) ==
  \E t \in OthersOn(s) :
    createdAt[t] >= createdAt[s] /\ status[t] \in ActiveStatuses

(* A session of the same machine, not older than s, that already ended.    *)
ExistsNewerSession(s) ==
  \E t \in OthersOn(s) :
    createdAt[t] >= createdAt[s] /\ status[t] \in TerminalStatuses

(* selectSearchMatch: the approved attempts of exactly the right amount.   *)
ApprovedAttempts(s) == { a \in Attempts : remote[s][a] = "APPROVED" }

(* The provider took the exact amount, even if it was later given back.    *)
Charged(s) == \E a \in Attempts : remote[s][a] \in { "APPROVED", "REFUNDED" }

NoRequest == [ session |-> None, verdict |-> "PENDING" ]
NoPoll    == [ pc |-> "idle", session |-> None ]
NoSweep   == [ pc |-> "idle", todo |-> {}, session |-> None, due |-> {} ]

RequestStates ==
  { NoRequest } \cup [ session : Sessions, verdict : Verdicts ]

PollStates ==
  { NoPoll } \cup [ pc : { "selected", "arming" }, session : Sessions ]

(* A sweep is at one session, or between two of them.                      *)
SweepStates ==
  [ pc : { "idle", "sessions", "auths" }, session : { None },
    todo : SUBSET Sessions, due : SUBSET Sessions ]
  \cup
  [ pc : { "search", "approve", "expire" }, session : Sessions,
    todo : SUBSET Sessions, due : SUBSET Sessions ]

Init ==
  /\ status = [ s \in Sessions |-> "NONE" ]
  /\ createdAt = [ s \in Sessions |-> 0 ]
  /\ pay = [ s \in Sessions |-> "NONE" ]
  /\ auth = [ s \in Sessions |-> "NONE" ]
  /\ online = [ m \in Machines |-> TRUE ]
  /\ stops = [ m \in Machines |-> 0 ]
  /\ clock = 0
  /\ timedOut = [ s \in Sessions |-> FALSE ]
  /\ overdue = [ s \in Sessions |-> FALSE ]
  /\ remote = [ s \in Sessions |-> [ a \in Attempts |-> "NONE" ] ]
  /\ checkout = [ s \in Sessions |-> "none" ]
  /\ request = [ r \in Requests |-> NoRequest ]
  /\ poll = [ m \in Machines |-> NoPoll ]
  /\ sweep = [ w \in Sweepers |-> NoSweep ]
  /\ crashes = 0
  /\ delivered = {}

-----------------------------------------------------------------------------
(* Checkout: createSessionWithPayment.                                     *)

(* First transaction: the machine is payable, the plate has washes left,   *)
(* and the session is inserted IDLE and moved on before the commit.        *)
CheckoutReserve(s) ==
  /\ ~Created(s)
  /\ online[MachineOf[s]]
  /\ ActiveOn(MachineOf[s]) = {}
  /\ Cardinality(WashesToday(PlateOf[s])) < DailyLimit
  /\ status' = [ status EXCEPT ![s] = "PAYMENT_PENDING" ]
  /\ clock' = clock + 1
  /\ createdAt' = [ createdAt EXCEPT ![s] = clock + 1 ]
  /\ checkout' = [ checkout EXCEPT ![s] = "calling" ]
  /\ UNCHANGED << pay, auth, timedOut, overdue, request, poll, sweep, crashes,
                  envVars >>

(* The provider created the charge; second transaction: the payment row.   *)
(* The session may have expired meanwhile, its status is then left alone.  *)
CheckoutOpen(s) ==
  /\ checkout[s] = "calling"
  /\ pay' = [ pay EXCEPT ![s] = "PENDING" ]
  /\ checkout' = [ checkout EXCEPT ![s] = "open" ]
  /\ UNCHANGED << status, createdAt, auth, timeVars, request, poll, sweep,
                  crashes, envVars >>

(* Fault: writes the failure without looking at the status.                *)
FailBlindly(s) ==
  /\ checkout[s] = "calling"
  /\ status' = [ status EXCEPT ![s] = "PAYMENT_FAILED" ]
  /\ checkout' = [ checkout EXCEPT ![s] = "closed" ]
  /\ UNCHANGED << createdAt, pay, auth, timeVars, request, poll, sweep,
                  crashes, envVars >>

(* The provider failed: the session fails too, unless it already expired,  *)
(* in which case the transition throws and the transaction is undone.      *)
CheckoutFail(s) ==
  /\ checkout[s] = "calling"
  /\ status' = [ status EXCEPT ![s] =
                   IF @ = "PAYMENT_PENDING" THEN "PAYMENT_FAILED" ELSE @ ]
  /\ checkout' = [ checkout EXCEPT ![s] = "closed" ]
  /\ UNCHANGED << createdAt, pay, auth, timeVars, request, poll, sweep,
                  crashes, envVars >>

-----------------------------------------------------------------------------
(* The payment provider.  The preference never expires and a client may    *)
(* try again on it, so attempts are independent of what the server thinks. *)

NextVerdicts ==
  [ NONE     |-> { "PENDING", "APPROVED", "MISMATCH", "REJECTED" },
    PENDING  |-> { "APPROVED", "MISMATCH", "REJECTED" },
    APPROVED |-> { "REFUNDED" },
    MISMATCH |-> {}, REJECTED |-> {}, REFUNDED |-> {} ]

ProviderMoves(s, a) ==
  /\ checkout[s] = "open"
  /\ \E v \in NextVerdicts[remote[s][a]] \cap Outcomes :
       remote' = [ remote EXCEPT ![s][a] = v ]
  /\ UNCHANGED << rowVars, timeVars, procVars, online, stops, delivered >>

-----------------------------------------------------------------------------
(* processApproval, one disjunct per way out of the function.  It changes  *)
(* only the three rows of the purchase: status, pay and auth.              *)

(* Fault: an expired payment is closed for ever.                           *)
NeverReconciling(s) == pay[s] = "EXPIRED" /\ status[s] = "NONE"

(* A reconciliation of an expired payment escapes the idempotency guard.   *)
Reconciling(s) ==
  pay[s] = "EXPIRED" /\ status[s] \in RecoverableStatuses

(* Fault: any payment on record counts as already dealt with.              *)
DuplicatedIfKnown(s) == pay[s] # "NONE"

Duplicated(s) ==
  \/ pay[s] = "APPROVED" /\ auth[s] \notin { "NONE", "REVOKED" }
  \/ pay[s] \in { "REJECTED", "EXPIRED", "REFUNDED" } /\ ~Reconciling(s)

Acknowledge(s) ==
  /\ Duplicated(s)
  /\ UNCHANGED << status, pay, auth >>

RejectPayment(s, v) ==
  /\ ~Duplicated(s)
  /\ v \in { "REJECTED", "MISMATCH" }
  /\ pay' = [ pay EXCEPT ![s] = "REJECTED" ]
  /\ status' = [ status EXCEPT ![s] =
                   IF @ = "PAYMENT_PENDING" THEN "PAYMENT_FAILED" ELSE @ ]
  /\ UNCHANGED auth

(* Every other verdict than an approval, a refund included, is written     *)
(* down as a pending payment.                                              *)
KeepPending(s, v) ==
  /\ ~Duplicated(s)
  /\ v \in { "PENDING", "REFUNDED" }
  /\ pay' = [ pay EXCEPT ![s] = "PENDING" ]
  /\ UNCHANGED << status, auth >>

(* Fault: the money taken for a machine that went away leaves no trace.    *)
OfflineWithoutRecord(s) ==
  /\ status[s] = "PAYMENT_PENDING"
  /\ ~online[MachineOf[s]]
  /\ status' = [ status EXCEPT ![s] = "MACHINE_OFFLINE" ]
  /\ UNCHANGED auth

ApproveOffline(s) ==
  /\ status[s] = "PAYMENT_PENDING"
  /\ ~online[MachineOf[s]]
  /\ status' = [ status EXCEPT ![s] = "MACHINE_OFFLINE" ]
  /\ auth' = [ auth EXCEPT ![s] = "REVOKED" ]

ApproveAndArm(s) ==
  /\ status[s] = "PAYMENT_PENDING"
  /\ online[MachineOf[s]]
  /\ status' = [ status EXCEPT ![s] = "AUTHORIZED" ]
  /\ auth' = [ auth EXCEPT ![s] = "AUTHORIZED" ]

(* The session already went on, or ended without a way back.  An armed     *)
(* session that lost its authorization would get a new one; a waiting one  *)
(* would throw.                                                            *)
ApproveTooLate(s) ==
  /\ status[s] \notin { "PAYMENT_PENDING" } \cup RecoverableStatuses
  /\ ~ (status[s] = "WAITING_FOR_BUTTON" /\ auth[s] = "NONE")
  /\ auth' = [ auth EXCEPT ![s] =
                 IF status[s] = "AUTHORIZED" /\ @ = "NONE" THEN "AUTHORIZED"
                                                           ELSE @ ]
  /\ UNCHANGED status

(* Late money on an expired session: refused when the machine has served   *)
(* somebody since (ExistsNewerSession) or is taken right now (the unique   *)
(* index undoes the savepoint); the payment stays APPROVED either way.     *)
RecoveryRefused(s) ==
  /\ status[s] \in RecoverableStatuses
  /\ ExistsNewerSession(s) \/ \E t \in OthersOn(s) : Active(t)
  /\ UNCHANGED << status, auth >>

Recover(s) ==
  /\ status[s] \in RecoverableStatuses
  /\ ~ExistsNewerSession(s)
  /\ \A t \in OthersOn(s) : ~Active(t)
  /\ status' = [ status EXCEPT ![s] = "AUTHORIZED" ]
  /\ auth' = [ auth EXCEPT ![s] = "AUTHORIZED" ]

(* Fault: the amount is not compared.                                      *)
ApproveAnyAmount(s, v) ==
  /\ ~Duplicated(s)
  /\ v \in { "APPROVED", "MISMATCH" }
  /\ pay' = [ pay EXCEPT ![s] = "APPROVED" ]
  /\ \/ ApproveOffline(s)
     \/ ApproveAndArm(s)
     \/ ApproveTooLate(s)
     \/ RecoveryRefused(s)
     \/ Recover(s)

ApprovePayment(s, v) ==
  /\ ~Duplicated(s)
  /\ v = "APPROVED"
  /\ pay' = [ pay EXCEPT ![s] = "APPROVED" ]
  /\ \/ ApproveOffline(s)
     \/ ApproveAndArm(s)
     \/ ApproveTooLate(s)
     \/ RecoveryRefused(s)
     \/ Recover(s)

ProcessApproval(s, v) ==
  /\ \/ Acknowledge(s)
     \/ RejectPayment(s, v)
     \/ KeepPending(s, v)
     \/ ApprovePayment(s, v)
  /\ UNCHANGED << createdAt, timeVars, envVars >>

-----------------------------------------------------------------------------
(* Who calls processApproval from a request: the webhook, and the two      *)
(* reconciliations of the front desk.  The provider is asked first; the    *)
(* answer may be old when the transaction finally runs.                    *)

Requery(r, s, v) ==
  /\ request[r] = NoRequest
  /\ pay[s] # "NONE"
  /\ request' = [ request EXCEPT ![r] = [ session |-> s, verdict |-> v ] ]
  /\ UNCHANGED << rowVars, timeVars, checkout, poll, sweep, crashes, envVars >>

(* A notification of the provider, about any of the attempts, at any time  *)
(* and any number of times.                                                *)
Webhook(r, s, a) == remote[s][a] # "NONE" /\ Requery(r, s, remote[s][a])

(* "Try again": only for an expired session, and only on one clear match.  *)
ReconcileAutomatic(r, s) ==
  /\ status[s] \in RecoverableStatuses
  /\ Cardinality(ApprovedAttempts(s)) = 1
  /\ Requery(r, s, "APPROVED")

(* The front desk types the id of an attempt that belongs to the session.  *)
ReconcileManual(r, s, a) ==
  /\ status[s] \in RecoverableStatuses
  /\ remote[s][a] # "NONE"
  /\ Requery(r, s, remote[s][a])

ApplyVerdict(r) ==
  /\ request[r] # NoRequest
  /\ ProcessApproval(request[r].session, request[r].verdict)
  /\ request' = [ request EXCEPT ![r] = NoRequest ]
  /\ UNCHANGED << checkout, poll, sweep, crashes >>

-----------------------------------------------------------------------------
(* sweepExpired: first the charges nobody confirmed, then the              *)
(* authorizations nobody used.  `due` remembers which authorizations were  *)
(* past their expiry at the `now` the sweep was started with.              *)

SweepTo(w, next) ==
  /\ sweep' = [ sweep EXCEPT ![w] = next ]
  /\ UNCHANGED << createdAt, timeVars, checkout, request, poll, crashes,
                  envVars >>

(* Fault: an inner join with payments loses the sessions without one.      *)
SweepBeginJoined(w) ==
  /\ sweep[w].pc = "idle"
  /\ SweepTo(w, [ pc |-> "sessions",
                  todo |-> { s \in Sessions : /\ status[s] = "PAYMENT_PENDING"
                                              /\ timedOut[s]
                                              /\ pay[s] # "NONE" },
                  session |-> None,
                  due |-> { s \in Sessions : overdue[s] } ])
  /\ UNCHANGED << status, pay, auth >>

SweepBegin(w) ==
  /\ sweep[w].pc = "idle"
  /\ SweepTo(w, [ pc |-> "sessions",
                  todo |-> { s \in Sessions : /\ status[s] = "PAYMENT_PENDING"
                                              /\ timedOut[s] },
                  session |-> None,
                  due |-> { s \in Sessions : overdue[s] } ])
  /\ UNCHANGED << status, pay, auth >>

(* Next stale session; only a payment still PENDING is looked up.          *)
SweepTake(w) ==
  /\ sweep[w].pc = "sessions"
  /\ \E s \in sweep[w].todo :
       SweepTo(w, [ sweep[w] EXCEPT
                      !.pc = IF pay[s] = "PENDING" THEN "search" ELSE "expire",
                      !.todo = @ \ {s}, !.session = s ])
  /\ UNCHANGED << status, pay, auth >>

(* The one last search.  No match, several, a timeout or an error all lead *)
(* to the expiry.                                                          *)
SweepSearch(w) ==
  /\ sweep[w].pc = "search"
  /\ \/ /\ Cardinality(ApprovedAttempts(sweep[w].session)) = 1
        /\ SweepTo(w, [ sweep[w] EXCEPT !.pc = "approve" ])
     \/ SweepTo(w, [ sweep[w] EXCEPT !.pc = "expire" ])
  /\ UNCHANGED << status, pay, auth >>

SweepApprove(w) ==
  /\ sweep[w].pc = "approve"
  /\ ProcessApproval(sweep[w].session, "APPROVED")
  /\ SweepTo(w, [ sweep[w] EXCEPT !.pc = "sessions", !.session = None ])

(* Fault: the payment's status is written into the session.                *)
SweepExpireMixed(w) ==
  LET s == sweep[w].session IN
  /\ sweep[w].pc = "expire"
  /\ status[s] \in { "PAYMENT_PENDING", "PAYMENT_EXPIRED" }
  /\ status' = [ status EXCEPT ![s] = "EXPIRED" ]
  /\ pay' = [ pay EXCEPT ![s] = IF @ = "PENDING" THEN "EXPIRED" ELSE @ ]
  /\ SweepTo(w, [ sweep[w] EXCEPT !.pc = "sessions", !.session = None ])
  /\ UNCHANGED auth

(* Fault: trusts the status the session had when it was selected.          *)
SweepExpireBlindly(w) ==
  LET s == sweep[w].session IN
  /\ sweep[w].pc = "expire"
  /\ status' = [ status EXCEPT ![s] = "PAYMENT_EXPIRED" ]
  /\ pay' = [ pay EXCEPT ![s] = IF @ = "PENDING" THEN "EXPIRED" ELSE @ ]
  /\ SweepTo(w, [ sweep[w] EXCEPT !.pc = "sessions", !.session = None ])
  /\ UNCHANGED auth

SweepExpire(w) ==
  LET s == sweep[w].session IN
  /\ sweep[w].pc = "expire"
  /\ status[s] \in { "PAYMENT_PENDING", "PAYMENT_EXPIRED" }
  /\ status' = [ status EXCEPT ![s] = "PAYMENT_EXPIRED" ]
  /\ pay' = [ pay EXCEPT ![s] = IF @ = "PENDING" THEN "EXPIRED" ELSE @ ]
  /\ SweepTo(w, [ sweep[w] EXCEPT !.pc = "sessions", !.session = None ])
  /\ UNCHANGED auth

(* The session moved since it was selected: the transition throws and the  *)
(* rest of this sweep is abandoned.                                        *)
SweepAbort(w) ==
  /\ sweep[w].pc = "expire"
  /\ status[sweep[w].session] \notin { "PAYMENT_PENDING", "PAYMENT_EXPIRED" }
  /\ SweepTo(w, NoSweep)
  /\ UNCHANGED << status, pay, auth >>

SweepSelectAuths(w) ==
  /\ sweep[w].pc = "sessions"
  /\ sweep[w].todo = {}
  /\ SweepTo(w, [ sweep[w] EXCEPT
                    !.pc = "auths", !.due = {},
                    !.todo = { s \in sweep[w].due : auth[s] = "AUTHORIZED" } ])
  /\ UNCHANGED << status, pay, auth >>

(* Fault: forgets the sessions already waiting for the button.             *)
SweepExpireFetched(w) ==
  /\ sweep[w].pc = "auths"
  /\ \E s \in sweep[w].todo :
       /\ auth' = [ auth EXCEPT ![s] = "EXPIRED" ]
       /\ status' = [ status EXCEPT ![s] =
                        IF @ = "AUTHORIZED" THEN "AUTHORIZATION_EXPIRED" ELSE @ ]
       /\ SweepTo(w, [ sweep[w] EXCEPT !.todo = @ \ {s} ])
  /\ UNCHANGED pay

(* The authorization is overwritten whatever it has become since.          *)
SweepExpireAuth(w) ==
  /\ sweep[w].pc = "auths"
  /\ \E s \in sweep[w].todo :
       /\ auth' = [ auth EXCEPT ![s] = "EXPIRED" ]
       /\ status' = [ status EXCEPT ![s] =
                        IF Armed(s) THEN "AUTHORIZATION_EXPIRED" ELSE @ ]
       /\ SweepTo(w, [ sweep[w] EXCEPT !.todo = @ \ {s} ])
  /\ UNCHANGED pay

SweepEnd(w) ==
  /\ sweep[w].pc = "auths"
  /\ sweep[w].todo = {}
  /\ SweepTo(w, NoSweep)
  /\ UNCHANGED << status, pay, auth >>

SweepStep(w) ==
  \/ SweepBegin(w) \/ SweepTake(w) \/ SweepSearch(w) \/ SweepApprove(w)
  \/ SweepExpire(w) \/ SweepAbort(w)
  \/ SweepSelectAuths(w) \/ SweepExpireAuth(w) \/ SweepEnd(w)

-----------------------------------------------------------------------------
(* The device's requests.                                                  *)

(* getAuthorizationForDevice, outside any transaction: the authorization,  *)
(* then the session, then the move to WAITING_FOR_BUTTON.                  *)
PollSelect(m) ==
  /\ poll[m].pc = "idle"
  /\ \E s \in Sessions :
       /\ MachineOf[s] = m
       /\ auth[s] = "AUTHORIZED"
       /\ ~overdue[s]
       /\ poll' = [ poll EXCEPT ![m] = [ pc |-> "selected", session |-> s ] ]
  /\ UNCHANGED << rowVars, timeVars, checkout, request, sweep, crashes,
                  envVars >>

(* A session that is not AUTHORIZED any more is delivered as it is: the    *)
(* authorization row read before still says AUTHORIZED.                    *)
PollRead(m) ==
  LET s == poll[m].session IN
  /\ poll[m].pc = "selected"
  /\ \/ /\ status[s] = "AUTHORIZED"
        /\ poll' = [ poll EXCEPT ![m].pc = "arming" ]
        /\ UNCHANGED delivered
     \/ /\ status[s] # "AUTHORIZED"
        /\ poll' = [ poll EXCEPT ![m] = NoPoll ]
        /\ delivered' = delivered \cup {s}
  /\ UNCHANGED << rowVars, timeVars, checkout, request, sweep, crashes, online,
                  stops, remote >>

(* Fault: the update is not conditional on the status read before.         *)
PollArmBlindly(m) ==
  LET s == poll[m].session IN
  /\ poll[m].pc = "arming"
  /\ status' = [ status EXCEPT ![s] = "WAITING_FOR_BUTTON" ]
  /\ delivered' = delivered \cup {s}
  /\ poll' = [ poll EXCEPT ![m] = NoPoll ]
  /\ UNCHANGED << createdAt, pay, auth, timeVars, checkout, request, sweep,
                  crashes, online, stops, remote >>

(* Conditional on AUTHORIZED; already WAITING is fine, anything else throws *)
(* and nothing is delivered.                                               *)
PollArm(m) ==
  LET s == poll[m].session IN
  /\ poll[m].pc = "arming"
  /\ status' = [ status EXCEPT ![s] =
                   IF @ = "AUTHORIZED" THEN "WAITING_FOR_BUTTON" ELSE @ ]
  /\ delivered' = IF Armed(s) THEN delivered \cup {s} ELSE delivered
  /\ poll' = [ poll EXCEPT ![m] = NoPoll ]
  /\ UNCHANGED << createdAt, pay, auth, timeVars, checkout, request, sweep,
                  crashes, online, stops, remote >>

(* Fault: the expiry of the authorization is left to the sweep.            *)
StartOverdue(s) ==
  /\ s \in delivered
  /\ auth[s] = "AUTHORIZED"
  /\ status[s] = "WAITING_FOR_BUTTON"
  /\ auth' = [ auth EXCEPT ![s] = "CONSUMED" ]
  /\ status' = [ status EXCEPT ![s] = "RUNNING" ]
  /\ UNCHANGED << createdAt, pay, timeVars, procVars, envVars >>

(* startSessionFromDevice: every refusal throws and undoes what the        *)
(* transaction wrote, so only the accepted press changes anything.         *)
StartSession(s) ==
  /\ s \in delivered
  /\ auth[s] = "AUTHORIZED"
  /\ ~overdue[s]
  /\ status[s] = "WAITING_FOR_BUTTON"
  /\ auth' = [ auth EXCEPT ![s] = "CONSUMED" ]
  /\ status' = [ status EXCEPT ![s] = "RUNNING" ]
  /\ UNCHANGED << createdAt, pay, timeVars, procVars, envVars >>

(* finishSession and interruptSession: only a running session ends; a      *)
(* repeated report is answered without a write.                            *)
EndSession(s) ==
  /\ s \in delivered
  /\ status[s] = "RUNNING"
  /\ \E end \in { "FINISHED", "SESSION_INTERRUPTED", "EMERGENCY_STOP",
                  "DEVICE_ERROR" } :
       status' = [ status EXCEPT ![s] = end ]
  /\ UNCHANGED << createdAt, pay, auth, timeVars, procVars, envVars >>

-----------------------------------------------------------------------------
(* The administration, the machines' health, time and crashes.             *)

(* Fault: stops the session and leaves its authorization live.             *)
StopWithoutRevoking(m) ==
  /\ stops[m] < MaxStops
  /\ \/ ActiveOn(m) = {} /\ UNCHANGED status
     \/ \E s \in ActiveOn(m) :
          status' = [ status EXCEPT ![s] =
                        IF Armed(s) \/ @ = "RUNNING" THEN "EMERGENCY_STOP"
                                                     ELSE @ ]
  /\ stops' = [ stops EXCEPT ![m] = @ + 1 ]
  /\ UNCHANGED << createdAt, pay, auth, timeVars, procVars, online, remote,
                  delivered >>

(* emergencyStopFromAdmin: the session holding the machine is stopped if   *)
(* it is authorized or running, every live authorization of the machine is *)
(* revoked and a command is left for the device.                           *)
EmergencyStop(m) ==
  /\ stops[m] < MaxStops
  /\ \/ ActiveOn(m) = {} /\ UNCHANGED status
     \/ \E s \in ActiveOn(m) :
          status' = [ status EXCEPT ![s] =
                        IF Armed(s) \/ @ = "RUNNING" THEN "EMERGENCY_STOP"
                                                     ELSE @ ]
  /\ auth' = [ s \in Sessions |->
                 IF MachineOf[s] = m /\ auth[s] = "AUTHORIZED" THEN "REVOKED"
                                                               ELSE auth[s] ]
  /\ stops' = [ stops EXCEPT ![m] = @ + 1 ]
  /\ UNCHANGED << createdAt, pay, timeVars, procVars, online, remote,
                  delivered >>

(* Heartbeats that come or stop coming, and the administrator's switch.    *)
MachineHealth(m) ==
  /\ online' = [ online EXCEPT ![m] = ~@ ]
  /\ UNCHANGED << rowVars, timeVars, procVars, stops, remote, delivered >>

PaymentTimeout(s) ==
  /\ status[s] = "PAYMENT_PENDING"
  /\ ~timedOut[s]
  /\ timedOut' = [ timedOut EXCEPT ![s] = TRUE ]
  /\ UNCHANGED << rowVars, clock, overdue, procVars, envVars >>

AuthorizationTimeout(s) ==
  /\ auth[s] = "AUTHORIZED"
  /\ ~overdue[s]
  /\ overdue' = [ overdue EXCEPT ![s] = TRUE ]
  /\ UNCHANGED << rowVars, clock, timedOut, procVars, envVars >>

(* The process dies: what only lived in memory is gone.                    *)
Crash ==
  /\ crashes < MaxCrashes
  /\ crashes' = crashes + 1
  /\ checkout' = [ s \in Sessions |->
                     IF checkout[s] = "calling" THEN "closed" ELSE checkout[s] ]
  /\ request' = [ r \in Requests |-> NoRequest ]
  /\ poll' = [ m \in Machines |-> NoPoll ]
  /\ sweep' = [ w \in Sweepers |-> NoSweep ]
  /\ UNCHANGED << rowVars, timeVars, envVars >>

-----------------------------------------------------------------------------
Next ==
  \/ \E s \in Sessions :
       \/ CheckoutReserve(s) \/ CheckoutOpen(s) \/ CheckoutFail(s)
       \/ \E a \in Attempts :
            \/ ProviderMoves(s, a)
            \/ \E r \in Requests : Webhook(r, s, a) \/ ReconcileManual(r, s, a)
       \/ \E r \in Requests : ReconcileAutomatic(r, s)
       \/ StartSession(s) \/ EndSession(s)
       \/ PaymentTimeout(s) \/ AuthorizationTimeout(s)
  \/ \E r \in Requests : ApplyVerdict(r)
  \/ \E w \in Sweepers : SweepStep(w)
  \/ \E m \in Machines :
       \/ PollSelect(m) \/ PollRead(m) \/ PollArm(m)
       \/ EmergencyStop(m) \/ MachineHealth(m)
  \/ Crash

Spec == Init /\ [][Next]_vars

(* The sweep is a timer of the server: each one goes on, and a new one     *)
(* always follows.  A request that was accepted is carried through.        *)
ServerFairness ==
  /\ \A w \in Sweepers : WF_vars(SweepStep(w))
  /\ \A r \in Requests : WF_vars(ApplyVerdict(r))

(* The provider repeats an unanswered notification for days.  The code     *)
(* serves any number at once; sharing the few `Requests` of a model is     *)
(* what calls for strong fairness here.                                    *)
NotificationFairness ==
  \A s \in Sessions, a \in Attempts :
    SF_vars(\E r \in Requests : Webhook(r, s, a))

FairSpec == Spec /\ ServerFairness
NotifiedSpec == FairSpec /\ NotificationFairness

-----------------------------------------------------------------------------
(* What the server promises.                                               *)

TypeOK ==
  /\ status \in [ Sessions -> SessionStatuses \cup { "NONE" } ]
  /\ createdAt \in [ Sessions -> Nat ]
  /\ pay \in [ Sessions -> PaymentStatuses \cup { "NONE" } ]
  /\ auth \in [ Sessions -> AuthorizationStatuses \cup { "NONE" } ]
  /\ online \in [ Machines -> BOOLEAN ]
  /\ stops \in [ Machines -> Nat ]
  /\ clock \in Nat
  /\ timedOut \in [ Sessions -> BOOLEAN ]
  /\ overdue \in [ Sessions -> BOOLEAN ]
  /\ remote \in [ Sessions -> [ Attempts -> Verdicts \cup { "NONE" } ] ]
  /\ checkout \in [ Sessions -> { "none", "calling", "open", "closed" } ]
  /\ request \in [ Requests -> RequestStates ]
  /\ poll \in [ Machines -> PollStates ]
  /\ sweep \in [ Sweepers -> SweepStates ]
  /\ crashes \in Nat
  /\ delivered \subseteq Sessions

(* Whoever holds a machine is the last customer who reserved it: a late    *)
(* payment never takes the machine back from, or reopens it behind, a      *)
(* newer customer.  Two guards of processApproval that live in different   *)
(* places (existsNewerSessionForMachine and the unique index) add up to    *)
(* it; at most one active session per machine is a consequence.            *)
HolderIsLatest ==
  \A s \in Sessions : \A t \in OthersOn(s) :
    Active(s) /\ Created(t) => createdAt[t] < createdAt[s]

(* The session row and the authorization row never disagree: a session     *)
(* waits for its button exactly while its authorization is live, whatever  *)
(* webhook, sweep, poll or emergency stop ran in between.                  *)
ArmedIffAuthorized ==
  \A s \in Sessions : Armed(s) <=> auth[s] = "AUTHORIZED"

(* Water only ever ran against money: the authorization was consumed, the  *)
(* payment is on record as approved and the provider really took it.       *)
WaterIsPaid ==
  \A s \in Sessions :
    status[s] \in { "RUNNING", "FINISHED", "SESSION_INTERRUPTED",
                    "DEVICE_ERROR" }
      => auth[s] = "CONSUMED" /\ pay[s] = "APPROVED" /\ Charged(s)

(* Money recorded as approved got an authorization (a revoked one at       *)
(* least, which is what the refund policy looks at), or the machine had    *)
(* gone to a later customer.                                               *)
ApprovedIsAccounted ==
  \A s \in Sessions :
    pay[s] = "APPROVED" =>
      \/ auth[s] # "NONE"
      \/ /\ status[s] = "PAYMENT_EXPIRED"
         /\ \E t \in OthersOn(s) : createdAt[t] > createdAt[s]

(* One authorization, one cycle: once consumed it stays consumed although  *)
(* the sweep overwrites authorizations without looking, and nothing that   *)
(* stopped being live becomes live again.                                  *)
AuthorizationUsedOnce ==
  [][ \A s \in Sessions :
        /\ auth[s] = "CONSUMED" => auth'[s] = "CONSUMED"
        /\ auth'[s] = "AUTHORIZED" => auth[s] \in { "NONE", "AUTHORIZED" }
    ]_vars

(* After an emergency stop nothing of that machine is armed or running:    *)
(* the handler stops the one session it finds and revokes by machine.      *)
EmergencyStopDisarms ==
  [][ \A m \in Machines, s \in Sessions :
        stops'[m] # stops[m] /\ MachineOf[s] = m =>
          /\ auth'[s] # "AUTHORIZED"
          /\ status'[s] \notin { "AUTHORIZED", "WAITING_FOR_BUTTON", "RUNNING" }
    ]_vars

(* The sweep skips the expiry of a session it rescued, trusting that any   *)
(* result of processApproval took it out of PAYMENT_PENDING.               *)
RescueLeavesPending ==
  [][ \A w \in Sweepers :
        sweep[w].pc = "approve" /\ sweep'[w].pc = "sessions" =>
          status'[sweep[w].session] # "PAYMENT_PENDING"
    ]_vars

(* Every status written follows a declared edge of the state machine (an   *)
(* approval follows two of them in one transaction).                       *)
EveryMoveIsDeclared ==
  [][ \A s \in Sessions :
        Created(s) =>
          \/ CanTransition(status[s], status'[s])
          \/ /\ CanTransition(status[s], "PAYMENT_APPROVED")
             /\ CanTransition("PAYMENT_APPROVED", status'[s])
    ]_vars

(* A charge nobody confirmed does not hold the machine for ever, although  *)
(* sweeps overlap, are abandoned half way and die with the server.         *)
StalePendingLeaves ==
  \A s \in Sessions :
    status[s] = "PAYMENT_PENDING" /\ timedOut[s]
      ~> status[s] # "PAYMENT_PENDING"

(* Nor does an authorization nobody used.                                  *)
OverdueAuthorizationLeaves ==
  \A s \in Sessions : Armed(s) /\ overdue[s] ~> ~Armed(s)

(* If the provider took the money and keeps notifying, the purchase is     *)
(* settled: it was armed, or revoked, or rejected, or somebody else had    *)
(* reserved the machine since; unless the money goes back.                 *)
PaidIsSettled ==
  \A s \in Sessions :
    ApprovedAttempts(s) # {} ~>
      \/ auth[s] # "NONE"
      \/ pay[s] = "REJECTED"
      \/ \E t \in OthersOn(s) : createdAt[t] > createdAt[s]
      \/ ApprovedAttempts(s) = {}

-----------------------------------------------------------------------------
(* The server implements the lease of MachineLease.                        *)

(* What each status that has not ended means for the lease; an ended lease *)
(* was served exactly if its authorization was consumed.                   *)
OpenPhases ==
  [ NONE |-> "none", PAYMENT_PENDING |-> "reserved",
    PAYMENT_EXPIRED |-> "lapsed", AUTHORIZED |-> "armed",
    WAITING_FOR_BUTTON |-> "armed", RUNNING |-> "washing" ]

PhaseOf(s) ==
  IF status[s] \in DOMAIN OpenPhases THEN OpenPhases[status[s]]
  ELSE IF auth[s] = "CONSUMED" THEN "served" ELSE "void"

Lease == INSTANCE MachineLease
           WITH phase <- [ s \in Sessions |-> PhaseOf(s) ],
                turn  <- createdAt,
                turns <- clock,
                paid  <- { s \in Sessions : Charged(s) }

(* Checkout, webhooks, sweeps, polls and emergency stops together do       *)
(* nothing to a machine that the lease does not allow: in particular late  *)
(* money rearms a purchase only when nobody reserved the machine after it. *)
ImplementsLease == Lease!Spec

-----------------------------------------------------------------------------
(* Why the server keeps its promises: what relates the rows to each other  *)
(* and to what the server remembers of them, in every reachable state.     *)

(* Ranks of creation are dealt once, from 1 to clock.                      *)
RanksAreUnique ==
  /\ \A s \in Sessions :
       /\ createdAt[s] <= clock
       /\ createdAt[s] = 0 <=> ~Created(s)
  /\ \A s, t \in Sessions :
       s # t /\ createdAt[s] = createdAt[t] => createdAt[s] = 0

(* What the status of a session says of its authorization.  IDLE and       *)
(* PAYMENT_APPROVED never survive the transaction that writes them.        *)
StatusFixesAuth ==
  \A s \in Sessions :
    /\ status[s] \notin { "IDLE", "PAYMENT_APPROVED" }
    /\ auth[s] = "NONE" <=> status[s] \in { "NONE", "PAYMENT_PENDING",
                                          "PAYMENT_EXPIRED", "PAYMENT_FAILED" }
    /\ auth[s] = "AUTHORIZED" <=> Armed(s)
    /\ status[s] \in { "RUNNING", "FINISHED", "SESSION_INTERRUPTED",
                       "DEVICE_ERROR" } => auth[s] = "CONSUMED"

(* ... and of its payment.                                                 *)
StatusFixesPay ==
  \A s \in Sessions :
    /\ ~Created(s) => pay[s] = "NONE" /\ checkout[s] = "none"
    /\ status[s] = "PAYMENT_PENDING" => pay[s] \in { "NONE", "PENDING" }
    /\ status[s] = "PAYMENT_FAILED" =>
         \/ pay[s] = "REJECTED"
         \/ pay[s] = "NONE" /\ checkout[s] = "closed"
    /\ auth[s] \in { "AUTHORIZED", "CONSUMED" } => pay[s] = "APPROVED"

(* Money comes in only through a checkout that was opened, and an approval *)
(* the server recorded, or is about to record, is money that came in.      *)
ApprovalsAreCharged ==
  /\ \A s \in Sessions : checkout[s] = "open" <=> pay[s] # "NONE"
  /\ \A s \in Sessions, a \in Attempts :
       remote[s][a] # "NONE" => pay[s] # "NONE"
  /\ \A s \in Sessions : pay[s] = "APPROVED" => Charged(s)
  /\ \A r \in Requests :
       request[r] # NoRequest =>
         /\ pay[request[r].session] # "NONE"
         /\ request[r].verdict = "APPROVED" => Charged(request[r].session)
  /\ \A w \in Sweepers :
       /\ sweep[w].pc \in { "search", "approve" } =>
            pay[sweep[w].session] # "NONE"
       /\ sweep[w].pc = "approve" => Charged(sweep[w].session)

(* The second half of a sweep overwrites only authorizations whose time    *)
(* was up when it began, so a press of the button cannot be among them.    *)
SweepSparesConsumed ==
  \A w \in Sweepers :
    /\ \A s \in sweep[w].due : overdue[s]
    /\ sweep[w].pc = "auths" =>
         \A s \in sweep[w].todo :
           overdue[s] /\ auth[s] \in { "AUTHORIZED", "REVOKED", "EXPIRED" }

Inv ==
  /\ TypeOK
  /\ RanksAreUnique
  /\ HolderIsLatest
  /\ StatusFixesAuth
  /\ StatusFixesPay
  /\ ApprovalsAreCharged
  /\ SweepSparesConsumed
  /\ ApprovedIsAccounted

-----------------------------------------------------------------------------
(* What the documentation says and the code does not do.                   *)

(* device-protocol.md: an emergency stop puts the active session in        *)
(* EMERGENCY_STOP.                                                         *)
StopEndsActiveSession ==
  [][ \A m \in Machines, s \in Sessions :
        stops'[m] # stops[m] /\ MachineOf[s] = m /\ Active(s) =>
          status'[s] = "EMERGENCY_STOP"
    ]_vars

(* state-machine.md: a payment leaves PENDING for good; an approved one    *)
(* does not become pending again.                                          *)
ApprovedNeverPending ==
  [][ \A s \in Sessions : pay[s] = "APPROVED" => pay'[s] # "PENDING" ]_vars

(* state-machine.md: REVOKED has no way out.                               *)
RevokedIsFinal ==
  [][ \A s \in Sessions : auth[s] = "REVOKED" => auth'[s] = "REVOKED" ]_vars

(* paymentRecovery.ts: a session that failed on a rejection has a payment  *)
(* the provider explicitly rejected, so no money is waiting on it.         *)
RejectedIsNotCharged ==
  \A s \in Sessions : pay[s] = "REJECTED" => ~Charged(s)

(* payment-flow.md: a plate's paid washes of the day never pass the limit. *)
DailyLimitHolds ==
  \A p \in Plates : Cardinality(WashesToday(p)) <= DailyLimit

=============================================================================
