------------------------- MODULE WashBackend_proofs -------------------------
(***************************************************************************)
(* The promises of WashBackend hold for every number of machines, sessions,*)
(* attempts, requests and sweeps.                                          *)
(***************************************************************************)
EXTENDS WashBackend, FiniteSetTheorems, TLAPS

(* Type correctness is preserved by every step of the server.              *)
LEMMA TypeStep == TypeOK /\ [Next]_vars => TypeOK'
<1> SUFFICES ASSUME TypeOK, [Next]_vars PROVE TypeOK'
  OBVIOUS
<1> USE SessionAssumption, BoundAssumption
    DEF SessionStatuses, ActiveStatuses, TerminalStatuses, PaymentStatuses,
        AuthorizationStatuses, Verdicts
<1>1. CASE UNCHANGED vars
  BY <1>1 DEF TypeOK, vars, rowVars, timeVars, procVars, envVars
<1>2. ASSUME NEW s \in Sessions, CheckoutReserve(s) PROVE TypeOK'
  BY <1>2 DEF TypeOK, CheckoutReserve, envVars
<1>3. ASSUME NEW s \in Sessions, CheckoutOpen(s) PROVE TypeOK'
  BY <1>3 DEF TypeOK, CheckoutOpen, timeVars, envVars
<1>4. ASSUME NEW s \in Sessions, CheckoutFail(s) PROVE TypeOK'
  BY <1>4 DEF TypeOK, CheckoutFail, timeVars, envVars
<1>5. ASSUME NEW s \in Sessions, NEW a \in Attempts, ProviderMoves(s, a)
      PROVE TypeOK'
  <2>1. PICK v \in Verdicts :
          remote' = [ remote EXCEPT ![s] = [ remote[s] EXCEPT ![a] = v ] ]
    BY <1>5 DEF ProviderMoves
  <2>2. [ remote[s] EXCEPT ![a] = v ] \in [ Attempts -> Verdicts \cup { "NONE" } ]
    BY DEF TypeOK
  <2>3. remote' \in [ Sessions -> [ Attempts -> Verdicts \cup { "NONE" } ] ]
    BY <2>1, <2>2 DEF TypeOK
  <2> QED
    BY <1>5, <2>3 DEF TypeOK, ProviderMoves, rowVars, timeVars, procVars
<1>6. ASSUME NEW r \in Requests, NEW s \in Sessions, NEW v \in Verdicts,
             Requery(r, s, v)
      PROVE TypeOK'
  BY <1>6 DEF TypeOK, Requery, RequestStates, rowVars, timeVars, envVars
<1>7. ASSUME NEW s \in Sessions, NEW a \in Attempts, NEW r \in Requests,
             Webhook(r, s, a) \/ ReconcileManual(r, s, a)
      PROVE TypeOK'
  <2>1. remote[s][a] \in Verdicts
    BY <1>7 DEF TypeOK, Webhook, ReconcileManual
  <2> QED
    BY <1>6, <1>7, <2>1 DEF Webhook, ReconcileManual
<1>8. ASSUME NEW s \in Sessions, NEW r \in Requests, ReconcileAutomatic(r, s)
      PROVE TypeOK'
  BY <1>6, <1>8 DEF ReconcileAutomatic
<1>9. ASSUME NEW s \in Sessions, NEW v, ProcessApproval(s, v)
      PROVE /\ status' \in [ Sessions -> SessionStatuses \cup { "NONE" } ]
            /\ pay' \in [ Sessions -> PaymentStatuses \cup { "NONE" } ]
            /\ auth' \in [ Sessions -> AuthorizationStatuses \cup { "NONE" } ]
  <2>1. CASE Acknowledge(s)
    BY <2>1 DEF TypeOK, Acknowledge
  <2>2. CASE RejectPayment(s, v)
    BY <2>2 DEF TypeOK, RejectPayment
  <2>3. CASE KeepPending(s, v)
    BY <2>3 DEF TypeOK, KeepPending
  <2>4. CASE ApprovePayment(s, v)
    <3>1. pay' \in [ Sessions -> PaymentStatuses \cup { "NONE" } ]
      BY <2>4 DEF TypeOK, ApprovePayment
    <3>2. CASE ApproveOffline(s)
      BY <3>1, <3>2 DEF TypeOK, ApproveOffline
    <3>3. CASE ApproveAndArm(s) \/ Recover(s)
      BY <3>1, <3>3 DEF TypeOK, ApproveAndArm, Recover
    <3>4. CASE ApproveTooLate(s)
      BY <3>1, <3>4 DEF TypeOK, ApproveTooLate
    <3>5. CASE RecoveryRefused(s)
      BY <3>1, <3>5 DEF TypeOK, RecoveryRefused
    <3> QED
      BY <2>4, <3>2, <3>3, <3>4, <3>5 DEF ApprovePayment
  <2> QED
    BY <1>9, <2>1, <2>2, <2>3, <2>4 DEF ProcessApproval
<1>10. ASSUME NEW r \in Requests, ApplyVerdict(r) PROVE TypeOK'
  <2>1. UNCHANGED << createdAt, timeVars, envVars >>
    BY <1>10 DEF ApplyVerdict, ProcessApproval
  <2>2. NoRequest \in RequestStates
    BY DEF RequestStates
  <2>3. request[r].session \in Sessions
    BY <1>10 DEF TypeOK, ApplyVerdict, RequestStates
  <2> QED
    BY <1>9, <1>10, <2>1, <2>2, <2>3 DEF TypeOK, ApplyVerdict, timeVars, envVars
<1>11. ASSUME NEW w \in Sweepers, SweepStep(w) PROVE TypeOK'
  <2>0. sweep[w] \in SweepStates /\ NoSweep \in SweepStates
    BY DEF TypeOK, NoSweep, SweepStates
  <2>a. ASSUME NEW next \in SweepStates, SweepTo(w, next),
               status' \in [ Sessions -> SessionStatuses \cup { "NONE" } ],
               pay' \in [ Sessions -> PaymentStatuses \cup { "NONE" } ],
               auth' \in [ Sessions -> AuthorizationStatuses \cup { "NONE" } ]
        PROVE TypeOK'
    BY <2>a DEF TypeOK, SweepTo, timeVars, envVars
  <2>b. ASSUME UNCHANGED << status, pay, auth >>
        PROVE /\ status' \in [ Sessions -> SessionStatuses \cup { "NONE" } ]
              /\ pay' \in [ Sessions -> PaymentStatuses \cup { "NONE" } ]
              /\ auth' \in [ Sessions -> AuthorizationStatuses \cup { "NONE" } ]
    BY <2>b DEF TypeOK
  <2>c. PICK next \in SweepStates : SweepTo(w, next)
    <3> USE DEF SweepStates
    <3>1. CASE SweepBegin(w)
      BY <3>1 DEF SweepBegin
    <3>2. CASE SweepTake(w)
      BY <2>0, <3>2 DEF SweepTake
    <3>3. CASE SweepSearch(w)
      BY <2>0, <3>3 DEF SweepSearch
    <3>4. CASE SweepApprove(w) \/ SweepExpire(w)
      BY <2>0, <3>4 DEF SweepApprove, SweepExpire
    <3>5. CASE SweepAbort(w) \/ SweepEnd(w)
      BY <2>0, <3>5 DEF SweepAbort, SweepEnd
    <3>6. CASE SweepSelectAuths(w)
      BY <2>0, <3>6 DEF SweepSelectAuths
    <3>7. CASE SweepExpireAuth(w)
      BY <2>0, <3>7 DEF SweepExpireAuth
    <3> QED
      BY <1>11, <3>1, <3>2, <3>3, <3>4, <3>5, <3>6, <3>7 DEF SweepStep
  <2>1. CASE \/ SweepBegin(w) \/ SweepTake(w) \/ SweepSearch(w) \/ SweepAbort(w)
             \/ SweepSelectAuths(w) \/ SweepEnd(w)
    BY <2>1, <2>a, <2>b, <2>c DEF SweepBegin, SweepTake, SweepSearch, SweepAbort,
       SweepSelectAuths, SweepEnd
  <2>2. CASE SweepApprove(w)
    <3>1. sweep[w].session \in Sessions
      BY <2>0, <2>2 DEF SweepApprove, SweepStates
    <3> QED
      BY <1>9, <2>2, <2>a, <2>c, <3>1 DEF SweepApprove
  <2>3. CASE SweepExpire(w)
    <3>1. /\ status' \in [ Sessions -> SessionStatuses \cup { "NONE" } ]
          /\ pay' \in [ Sessions -> PaymentStatuses \cup { "NONE" } ]
          /\ auth' \in [ Sessions -> AuthorizationStatuses \cup { "NONE" } ]
      BY <2>3 DEF SweepExpire, TypeOK
    <3> QED
      BY <3>1, <2>a, <2>c
  <2>4. CASE SweepExpireAuth(w)
    <3>1. /\ status' \in [ Sessions -> SessionStatuses \cup { "NONE" } ]
          /\ pay' \in [ Sessions -> PaymentStatuses \cup { "NONE" } ]
          /\ auth' \in [ Sessions -> AuthorizationStatuses \cup { "NONE" } ]
      <4>1. PICK s \in sweep[w].todo :
              /\ auth' = [ auth EXCEPT ![s] = "EXPIRED" ]
              /\ status' = [ status EXCEPT ![s] =
                              IF Armed(s) THEN "AUTHORIZATION_EXPIRED" ELSE @ ]
        BY <2>4 DEF SweepExpireAuth
      <4>2. UNCHANGED pay
        BY <2>4 DEF SweepExpireAuth
      <4> QED
        BY <4>1, <4>2 DEF TypeOK
    <3> QED
      BY <3>1, <2>a, <2>c
  <2> QED
    BY <1>11, <2>1, <2>2, <2>3, <2>4 DEF SweepStep
<1>12. ASSUME NEW m \in Machines, PollSelect(m) PROVE TypeOK'
  BY <1>12 DEF TypeOK, PollSelect, PollStates, rowVars, timeVars, envVars
<1>13. ASSUME NEW m \in Machines, PollRead(m) PROVE TypeOK'
  <2> DEFINE s == poll[m].session
  <2>1. poll[m] \in PollStates /\ NoPoll \in PollStates /\ s \in Sessions
    BY <1>13 DEF TypeOK, PollStates, NoPoll, PollRead
  <2>2. [ poll[m] EXCEPT !.pc = "arming" ] \in PollStates
    BY <1>13, <2>1 DEF PollStates, NoPoll, PollRead
  <2>3. CASE status[s] = "AUTHORIZED"
    <3>1. poll' = [ poll EXCEPT ![m] = [ poll[m] EXCEPT !.pc = "arming" ] ]
      BY <1>13, <2>3 DEF PollRead
    <3> QED
      BY <1>13, <2>2, <2>3, <3>1 DEF TypeOK, PollRead, rowVars, timeVars
  <2>4. CASE status[s] # "AUTHORIZED"
    BY <1>13, <2>1, <2>4 DEF TypeOK, PollRead, rowVars, timeVars
  <2> QED
    BY <2>3, <2>4
<1>14. ASSUME NEW m \in Machines, PollArm(m) PROVE TypeOK'
  <2> DEFINE s == poll[m].session
  <2>1. poll[m] \in PollStates /\ NoPoll \in PollStates /\ s \in Sessions
    BY <1>14 DEF TypeOK, PollStates, NoPoll, PollArm
  <2> QED
    BY <1>14, <2>1 DEF TypeOK, PollArm, timeVars
<1>15. ASSUME NEW s \in Sessions, StartSession(s) PROVE TypeOK'
  BY <1>15 DEF TypeOK, StartSession, timeVars, procVars, envVars
<1>16. ASSUME NEW s \in Sessions, EndSession(s) PROVE TypeOK'
  BY <1>16 DEF TypeOK, EndSession, timeVars, procVars, envVars
<1>17. ASSUME NEW m \in Machines, EmergencyStop(m) PROVE TypeOK'
  BY <1>17 DEF TypeOK, EmergencyStop, timeVars, procVars
<1>18. ASSUME NEW m \in Machines, MachineHealth(m) PROVE TypeOK'
  BY <1>18 DEF TypeOK, MachineHealth, rowVars, timeVars, procVars
<1>19. ASSUME NEW s \in Sessions, PaymentTimeout(s) \/ AuthorizationTimeout(s)
       PROVE TypeOK'
  BY <1>19 DEF TypeOK, PaymentTimeout, AuthorizationTimeout, rowVars, procVars,
     envVars
<1>20. ASSUME Crash PROVE TypeOK'
  <2>1. /\ NoRequest \in RequestStates
        /\ NoPoll \in PollStates
        /\ NoSweep \in SweepStates
    BY DEF RequestStates, PollStates, SweepStates, NoSweep
  <2> QED
    BY <1>20, <2>1 DEF TypeOK, Crash, rowVars, timeVars, envVars
<1> QED
  BY <1>1, <1>2, <1>3, <1>4, <1>5, <1>7, <1>8, <1>10, <1>11, <1>12, <1>13,
     <1>14, <1>15, <1>16, <1>17, <1>18, <1>19, <1>20 DEF Next
-----------------------------------------------------------------------------
(* Whatever the server remembers is about a session that exists.           *)
LEMMA MemorySessions ==
  ASSUME TypeOK
  PROVE  /\ \A r \in Requests :
              request[r] # NoRequest =>
                request[r] \in [ session : Sessions, verdict : Verdicts ]
         /\ \A w \in Sweepers :
              sweep[w].pc \in { "search", "approve", "expire" } =>
                sweep[w].session \in Sessions
         /\ \A w \in Sweepers :
              sweep[w].todo \subseteq Sessions /\ sweep[w].due \subseteq Sessions
BY DEF TypeOK, RequestStates, SweepStates

(* Nothing but a reservation and a recovery can disturb the order in which *)
(* the customers of a machine hold it.                                     *)
LEMMA OrderKept ==
  ASSUME RanksAreUnique, HolderIsLatest, UNCHANGED << createdAt, clock >>,
         \A s \in Sessions : Created(s)' <=> Created(s),
         \A s \in Sessions : Active(s)' => Active(s)
  PROVE  RanksAreUnique' /\ HolderIsLatest'
<1>1. RanksAreUnique'
  BY DEF RanksAreUnique
<1>2. HolderIsLatest'
  BY DEF HolderIsLatest, OthersOn
<1> QED
  BY <1>1, <1>2

(* Steps that leave the rows of the purchases alone.                       *)
LEMMA QuietRows ==
  ASSUME Inv, UNCHANGED << rowVars, clock >>
  PROVE  /\ RanksAreUnique' /\ HolderIsLatest'
         /\ StatusFixesAuth' /\ ApprovedIsAccounted'
         /\ UNCHANGED checkout => StatusFixesPay'
<1>1. \A s \in Sessions : Created(s)' <=> Created(s)
  BY DEF Created, rowVars
<1>2. \A s \in Sessions : Active(s)' <=> Active(s)
  BY DEF Active, rowVars
<1>3. RanksAreUnique' /\ HolderIsLatest'
  BY <1>1, <1>2, OrderKept DEF Inv, rowVars
<1>4. StatusFixesAuth'
  BY DEF Inv, StatusFixesAuth, Armed, rowVars
<1>5. ApprovedIsAccounted'
  BY DEF Inv, ApprovedIsAccounted, OthersOn, rowVars
<1>6. UNCHANGED checkout => StatusFixesPay'
  BY DEF Inv, StatusFixesPay, Created, rowVars
<1> QED
  BY <1>3, <1>4, <1>5, <1>6

(* Once the provider took the money, that stays true.                      *)
LEMMA ChargedIsStable ==
  ASSUME TypeOK, NEW s \in Sessions, NEW a \in Attempts, ProviderMoves(s, a)
  PROVE  /\ \A t \in Sessions : Charged(t) => Charged(t)'
         /\ \A t \in Sessions, b \in Attempts :
              remote'[t][b] # "NONE" => remote[t][b] # "NONE" \/ t = s
<1>1. PICK v \in NextVerdicts[remote[s][a]] :
        remote' = [ remote EXCEPT ![s] = [ remote[s] EXCEPT ![a] = v ] ]
  BY DEF ProviderMoves
<1>2. remote[s][a] \in { "NONE", "PENDING", "APPROVED", "MISMATCH", "REJECTED",
                         "REFUNDED" }
  BY DEF TypeOK, Verdicts
<1>3. remote[s][a] \in { "APPROVED", "REFUNDED" } => v \in { "APPROVED", "REFUNDED" }
  BY <1>1, <1>2 DEF NextVerdicts
<1>4. \A t \in Sessions, b \in Attempts :
        remote'[t][b] = IF t = s /\ b = a THEN v ELSE remote[t][b]
  BY <1>1 DEF TypeOK
<1> QED
  BY <1>3, <1>4 DEF Charged

LEMMA ProviderStep ==
  ASSUME Inv, NEW s \in Sessions, NEW a \in Attempts, ProviderMoves(s, a)
  PROVE  ApprovalsAreCharged' /\ SweepSparesConsumed'
<1>1. UNCHANGED << pay, auth, overdue, checkout, request, sweep >>
  BY DEF ProviderMoves, rowVars, timeVars, procVars
<1>2. pay[s] # "NONE"
  BY DEF ProviderMoves, Inv, ApprovalsAreCharged
<1>3. \A t \in Sessions : Charged(t) => Charged(t)'
  BY ChargedIsStable DEF Inv
<1>4. ApprovalsAreCharged'
  BY <1>1, <1>2, <1>3, MemorySessions, ChargedIsStable DEF Inv, ApprovalsAreCharged
<1>5. SweepSparesConsumed'
  BY <1>1 DEF Inv, SweepSparesConsumed
<1> QED
  BY <1>4, <1>5

(* The steps that only move the server's memory, the device or the clock.  *)
LEMMA RequeryStep ==
  ASSUME Inv, TypeOK', NEW r \in Requests, NEW s \in Sessions, NEW v \in Verdicts,
         Requery(r, s, v), v = "APPROVED" => Charged(s)
  PROVE  Inv'
<1>1. UNCHANGED << rowVars, timeVars, clock, checkout, sweep, remote, overdue >>
  BY DEF Requery, timeVars, envVars
<1>2. ApprovalsAreCharged'
  <2>1. \A t \in Sessions : Charged(t)' <=> Charged(t)
    BY <1>1 DEF Charged
  <2>2. \A q \in Requests :
          request'[q] # NoRequest =>
            /\ pay[request'[q].session] # "NONE"
            /\ request'[q].verdict = "APPROVED" => Charged(request'[q].session)
    BY DEF Requery, Inv, TypeOK, ApprovalsAreCharged
  <2>3. \A q \in Requests :
          request'[q] # NoRequest => request'[q].session \in Sessions
    BY DEF TypeOK, RequestStates
  <2> QED
    BY <1>1, <2>1, <2>2, <2>3, MemorySessions DEF Inv, ApprovalsAreCharged, rowVars
<1>3. SweepSparesConsumed'
  BY <1>1 DEF Inv, SweepSparesConsumed, rowVars
<1> QED
  BY <1>1, <1>2, <1>3, QuietRows DEF Inv

(* Steps that touch nothing the invariant speaks of but the polls, the     *)
(* health and the orders of the machines, and time that goes on.           *)
LEMMA IdleStep ==
  ASSUME Inv, TypeOK',
         UNCHANGED << rowVars, clock, checkout, request, sweep, remote >>,
         \A s \in Sessions : overdue[s] => overdue'[s]
  PROVE  Inv'
<1>1. \A t \in Sessions : Charged(t)' <=> Charged(t)
  BY DEF Charged
<1>2. ApprovalsAreCharged'
  BY <1>1, MemorySessions DEF Inv, ApprovalsAreCharged, rowVars
<1>3. SweepSparesConsumed'
  BY MemorySessions DEF Inv, SweepSparesConsumed, rowVars
<1> QED
  BY <1>2, <1>3, QuietRows DEF Inv

LEMMA CrashStep == ASSUME Inv, TypeOK', Crash PROVE Inv'
<1>1. UNCHANGED << rowVars, clock, remote, overdue >>
  BY DEF Crash, timeVars, envVars
<1>2. \A s \in Sessions :
        checkout'[s] = IF checkout[s] = "calling" THEN "closed" ELSE checkout[s]
  BY DEF Crash
<1>3. StatusFixesPay'
  BY <1>1, <1>2 DEF Inv, StatusFixesPay, Created, rowVars
<1>4. /\ \A r \in Requests : request'[r] = NoRequest
      /\ \A w \in Sweepers : sweep'[w] = NoSweep
  BY DEF Crash
<1>5. ApprovalsAreCharged'
  <2>1. \A t \in Sessions : Charged(t)' <=> Charged(t)
    BY <1>1 DEF Charged
  <2>2. \A w \in Sweepers : sweep'[w].pc = "idle"
    BY <1>4 DEF NoSweep
  <2> QED
    BY <1>1, <1>2, <1>4, <2>1, <2>2 DEF Inv, ApprovalsAreCharged, rowVars
<1>6. SweepSparesConsumed'
  BY <1>4 DEF SweepSparesConsumed, NoSweep
<1> QED
  BY <1>1, <1>3, <1>5, <1>6, QuietRows DEF Inv

-----------------------------------------------------------------------------
(* The checkout.                                                           *)
LEMMA ReserveStep ==
  ASSUME Inv, TypeOK', NEW s \in Sessions, CheckoutReserve(s)
  PROVE  Inv'
<1> USE DEF Inv
<1>1. /\ UNCHANGED << pay, auth, overdue, request, sweep, remote >>
      /\ clock' = clock + 1 /\ clock \in Nat
      /\ status[s] = "NONE" /\ ActiveOn(MachineOf[s]) = {}
      /\ pay[s] = "NONE" /\ auth[s] = "NONE" /\ createdAt[s] = 0
  BY DEF CheckoutReserve, timeVars, envVars, TypeOK, Created, StatusFixesPay,
     StatusFixesAuth, RanksAreUnique
<1>2. \A t \in Sessions :
        /\ status'[t] = IF t = s THEN "PAYMENT_PENDING" ELSE status[t]
        /\ createdAt'[t] = IF t = s THEN clock + 1 ELSE createdAt[t]
        /\ checkout'[t] = IF t = s THEN "calling" ELSE checkout[t]
        /\ createdAt[t] \in Nat
  BY DEF CheckoutReserve, TypeOK
<1>3. RanksAreUnique'
  BY <1>1, <1>2 DEF RanksAreUnique, Created
<1>4. HolderIsLatest'
  <2>1. \A t \in OthersOn(s) : ~Active(t)
    BY <1>1 DEF OthersOn, ActiveOn
  <2> QED
    BY <1>1, <1>2, <2>1 DEF HolderIsLatest, OthersOn, Active, Created,
       RanksAreUnique
<1>5. StatusFixesAuth'
  BY <1>1, <1>2 DEF StatusFixesAuth, Armed
<1>6. StatusFixesPay'
  BY <1>1, <1>2 DEF StatusFixesPay, Created
<1>7. ApprovalsAreCharged'
  <2>1. \A t \in Sessions : Charged(t)' <=> Charged(t)
    BY <1>1 DEF Charged
  <2> QED
    BY <1>1, <1>2, <2>1, MemorySessions DEF ApprovalsAreCharged, StatusFixesPay,
       Created
<1>8. SweepSparesConsumed'
  BY <1>1 DEF SweepSparesConsumed
<1>9. ApprovedIsAccounted'
  BY <1>1, <1>2 DEF ApprovedIsAccounted, OthersOn, RanksAreUnique
<1> QED
  BY <1>3, <1>4, <1>5, <1>6, <1>7, <1>8, <1>9

LEMMA OpenStep ==
  ASSUME Inv, TypeOK', NEW s \in Sessions, CheckoutOpen(s)
  PROVE  Inv'
<1> USE DEF Inv
<1>1. /\ UNCHANGED << status, createdAt, auth, clock, overdue, request, sweep,
                      remote >>
      /\ pay[s] = "NONE" /\ auth[s] \notin { "AUTHORIZED", "CONSUMED" }
      /\ status[s] \notin { "NONE", "PAYMENT_FAILED" }
  BY DEF CheckoutOpen, timeVars, envVars, ApprovalsAreCharged, StatusFixesPay,
     Created
<1>2. \A t \in Sessions :
        /\ pay'[t] = IF t = s THEN "PENDING" ELSE pay[t]
        /\ checkout'[t] = IF t = s THEN "open" ELSE checkout[t]
  BY DEF CheckoutOpen, TypeOK
<1>3. RanksAreUnique' /\ HolderIsLatest'
  BY <1>1, OrderKept DEF Created, Active
<1>4. StatusFixesAuth'
  BY <1>1 DEF StatusFixesAuth, Armed
<1>5. StatusFixesPay'
  BY <1>1, <1>2 DEF StatusFixesPay, Created
<1>6. ApprovalsAreCharged'
  <2>1. \A t \in Sessions : Charged(t)' <=> Charged(t)
    BY <1>1 DEF Charged
  <2> QED
    BY <1>1, <1>2, <2>1, MemorySessions DEF ApprovalsAreCharged
<1>7. SweepSparesConsumed'
  BY <1>1 DEF SweepSparesConsumed
<1>8. ApprovedIsAccounted'
  BY <1>1, <1>2 DEF ApprovedIsAccounted, OthersOn
<1> QED
  BY <1>3, <1>4, <1>5, <1>6, <1>7, <1>8

LEMMA FailStep ==
  ASSUME Inv, TypeOK', NEW s \in Sessions, CheckoutFail(s)
  PROVE  Inv'
<1> USE DEF Inv
<1>1. /\ UNCHANGED << createdAt, pay, auth, clock, overdue, request, sweep,
                      remote >>
      /\ pay[s] = "NONE" /\ checkout[s] = "calling" /\ status[s] # "NONE"
  BY DEF CheckoutFail, timeVars, envVars, ApprovalsAreCharged, StatusFixesPay,
     Created
<1>2. \A t \in Sessions :
        /\ status'[t] = IF t = s /\ status[t] = "PAYMENT_PENDING"
                        THEN "PAYMENT_FAILED" ELSE status[t]
        /\ checkout'[t] = IF t = s THEN "closed" ELSE checkout[t]
  BY DEF CheckoutFail, TypeOK
<1>3. RanksAreUnique' /\ HolderIsLatest'
  BY <1>1, <1>2, OrderKept DEF Created, Active, ActiveStatuses
<1>4. StatusFixesAuth'
  BY <1>1, <1>2 DEF StatusFixesAuth, Armed
<1>5. StatusFixesPay'
  BY <1>1, <1>2 DEF StatusFixesPay, Created
<1>6. ApprovalsAreCharged'
  <2>1. \A t \in Sessions : Charged(t)' <=> Charged(t)
    BY <1>1 DEF Charged
  <2> QED
    BY <1>1, <1>2, <2>1, MemorySessions DEF ApprovalsAreCharged
<1>7. SweepSparesConsumed'
  BY <1>1 DEF SweepSparesConsumed
<1>8. ApprovedIsAccounted'
  BY <1>1, <1>2 DEF ApprovedIsAccounted, OthersOn
<1> QED
  BY <1>3, <1>4, <1>5, <1>6, <1>7, <1>8

-----------------------------------------------------------------------------
(* processApproval, seen from the three rows it may change.  Its verdict   *)
(* is worth an approval only when the provider charged the session.        *)
LEMMA ApprovalRows ==
  ASSUME Inv, NEW s \in Sessions, NEW v, ProcessApproval(s, v)
  PROVE  \A t \in Sessions \ {s} :
           status'[t] = status[t] /\ pay'[t] = pay[t] /\ auth'[t] = auth[t]
BY DEF Inv, TypeOK, ProcessApproval, Acknowledge, RejectPayment, KeepPending,
   ApprovePayment, ApproveOffline, ApproveAndArm, ApproveTooLate,
   RecoveryRefused, Recover

LEMMA ApprovalOfRow ==
  ASSUME Inv, NEW s \in Sessions, NEW v, ProcessApproval(s, v), pay[s] # "NONE"
  PROVE  \/ UNCHANGED << status[s], pay[s], auth[s] >>
         \/ /\ ~Duplicated(s) /\ pay'[s] \in { "REJECTED", "PENDING" }
            /\ UNCHANGED auth[s]
            /\ status'[s] = IF pay'[s] = "REJECTED" /\ status[s] = "PAYMENT_PENDING"
                            THEN "PAYMENT_FAILED" ELSE status[s]
         \/ /\ ~Duplicated(s) /\ v = "APPROVED" /\ pay'[s] = "APPROVED"
            /\ \/ /\ status[s] = "PAYMENT_PENDING"
                  /\ status'[s] = "MACHINE_OFFLINE" /\ auth'[s] = "REVOKED"
               \/ /\ status[s] = "PAYMENT_PENDING"
                  /\ status'[s] = "AUTHORIZED" /\ auth'[s] = "AUTHORIZED"
               \/ /\ Recover(s)
                  /\ status'[s] = "AUTHORIZED" /\ auth'[s] = "AUTHORIZED"
               \/ /\ RecoveryRefused(s)
                  /\ UNCHANGED << status[s], auth[s] >>
               \/ /\ auth[s] # "NONE"
                  /\ UNCHANGED << status[s], auth[s] >>
<1> USE DEF Inv, TypeOK
<1>1. CASE Acknowledge(s)
  BY <1>1 DEF Acknowledge
<1>2. CASE RejectPayment(s, v)
  BY <1>2 DEF RejectPayment
<1>3. CASE KeepPending(s, v)
  BY <1>3 DEF KeepPending
<1>4. CASE ApprovePayment(s, v)
  <2>1. ~Duplicated(s) /\ v = "APPROVED" /\ pay'[s] = "APPROVED"
    BY <1>4 DEF ApprovePayment
  <2>2. CASE ApproveOffline(s)
    BY <2>1, <2>2 DEF ApproveOffline
  <2>3. CASE ApproveAndArm(s)
    BY <2>1, <2>3 DEF ApproveAndArm
  <2>4. CASE ApproveTooLate(s)
    <3>1. auth[s] # "NONE"
      BY <2>1, <2>4 DEF ApproveTooLate, Duplicated, StatusFixesAuth,
         StatusFixesPay, RecoverableStatuses, Reconciling, Created
    <3> QED
      BY <2>1, <2>4, <3>1 DEF ApproveTooLate
  <2>5. CASE RecoveryRefused(s)
    BY <2>1, <2>5 DEF RecoveryRefused
  <2>6. CASE Recover(s)
    BY <2>1, <2>6 DEF Recover
  <2> QED
    BY <1>4, <2>2, <2>3, <2>4, <2>5, <2>6 DEF ApprovePayment
<1> QED
  BY <1>1, <1>2, <1>3, <1>4 DEF ProcessApproval

(* A late payment takes the machine back only from nobody: this is where   *)
(* the two refusals of processApproval add up.                             *)
LEMMA RecoverIsLatest ==
  ASSUME Inv, NEW s \in Sessions, Recover(s)
  PROVE  \A t \in OthersOn(s) :
           ~Active(t) /\ (Created(t) => createdAt[t] < createdAt[s])
<1>1. SUFFICES ASSUME NEW t \in OthersOn(s), Created(t)
               PROVE  createdAt[t] < createdAt[s]
  BY DEF Recover
<1>2. t \in Sessions /\ ~Active(t)
  BY DEF Recover, OthersOn
<1>3. status[t] \in TerminalStatuses
  BY <1>1, <1>2 DEF Inv, TypeOK, SessionStatuses, Active, Created
<1>4. ~ (createdAt[t] >= createdAt[s])
  BY <1>3 DEF Recover, ExistsNewerSession
<1> QED
  BY <1>2, <1>4 DEF Inv, TypeOK

LEMMA ApprovalStep ==
  ASSUME Inv, TypeOK', NEW s \in Sessions, NEW v, ProcessApproval(s, v),
         pay[s] # "NONE", v = "APPROVED" => Charged(s), UNCHANGED checkout
  PROVE  /\ RanksAreUnique' /\ HolderIsLatest' /\ StatusFixesAuth'
         /\ StatusFixesPay' /\ ApprovedIsAccounted'
         /\ \A t \in Sessions :
              /\ auth[t] # "NONE" => auth'[t] = auth[t]
              /\ pay[t] = "NONE" <=> pay'[t] = "NONE"
              /\ pay'[t] = "APPROVED" => Charged(t)'
<1> USE DEF Inv
<1>0. UNCHANGED << createdAt, clock, remote >>
  BY DEF ProcessApproval, timeVars, envVars
<1>1. \A t \in Sessions \ {s} :
        status'[t] = status[t] /\ pay'[t] = pay[t] /\ auth'[t] = auth[t]
  BY ApprovalRows
<1>2. \A t \in Sessions : Charged(t)' <=> Charged(t)
  BY <1>0 DEF Charged
<1>3. RanksAreUnique' /\ HolderIsLatest'
  <2>1. \A t \in Sessions : Created(t)' <=> Created(t)
    BY <1>1, ApprovalOfRow DEF Created, Recover, RecoveryRefused,
       RecoverableStatuses
  <2>2. CASE Recover(s)
    <3>1. RanksAreUnique'
      BY <1>0, <2>1 DEF RanksAreUnique
    <3>2. HolderIsLatest'
      BY <1>0, <1>1, <2>1, <2>2, RecoverIsLatest DEF HolderIsLatest, OthersOn,
         Active
    <3> QED
      BY <3>1, <3>2
  <2>3. CASE ~Recover(s)
    <3>1. \A t \in Sessions : Active(t)' => Active(t)
      BY <1>1, <2>3, ApprovalOfRow DEF Active, ActiveStatuses
    <3> QED
      BY <1>0, <2>1, <3>1, OrderKept
  <2> QED
    BY <2>2, <2>3
<1>4. StatusFixesAuth'
  BY <1>1, ApprovalOfRow DEF StatusFixesAuth, Armed
<1>5. StatusFixesPay'
  <2>1. /\ status[s] # "NONE"
        /\ status[s] = "PAYMENT_PENDING" => pay[s] = "PENDING"
        /\ auth[s] \in { "AUTHORIZED", "CONSUMED" } => Duplicated(s)
        /\ status[s] = "PAYMENT_FAILED" => Duplicated(s) /\ pay[s] = "REJECTED"
        /\ status[s] = "PAYMENT_PENDING" => auth[s] = "NONE"
    BY DEF StatusFixesPay, StatusFixesAuth, Created, Duplicated, Reconciling,
       RecoverableStatuses
  <2>2. Recover(s) \/ RecoveryRefused(s) => status[s] = "PAYMENT_EXPIRED"
    BY DEF Recover, RecoveryRefused, RecoverableStatuses
  <2>3. /\ status'[s] # "NONE"
        /\ status'[s] = "PAYMENT_PENDING" => pay'[s] = "PENDING"
        /\ status'[s] = "PAYMENT_FAILED" => pay'[s] = "REJECTED"
        /\ auth'[s] \in { "AUTHORIZED", "CONSUMED" } => pay'[s] = "APPROVED"
    <3>1. auth[s] \in { "AUTHORIZED", "CONSUMED" } => pay[s] = "APPROVED"
      BY DEF Inv, StatusFixesPay
    <3> QED
      BY <2>1, <2>2, <3>1, ApprovalOfRow
  <2> QED
    BY <1>1, <2>3 DEF StatusFixesPay, Created
<1>6. ApprovedIsAccounted'
  <2>1. CASE RecoveryRefused(s)
    <3>1. \E t \in OthersOn(s) : createdAt[t] > createdAt[s]
      <4>1. Created(s) /\ createdAt[s] \in Nat /\ createdAt[s] # 0
        BY <2>1 DEF RecoveryRefused, RecoverableStatuses, Created, TypeOK,
           RanksAreUnique
      <4>2. ASSUME NEW t \in OthersOn(s), Active(t)
            PROVE  createdAt[t] > createdAt[s]
        <5>1. t \in Sessions /\ s \in OthersOn(t) /\ createdAt[t] \in Nat
          BY DEF OthersOn, TypeOK
        <5> QED
          BY <4>1, <4>2, <5>1 DEF HolderIsLatest
      <4>3. ASSUME NEW t \in OthersOn(s), createdAt[t] >= createdAt[s]
            PROVE  createdAt[t] > createdAt[s]
        <5>1. t \in Sessions /\ t # s /\ createdAt[t] \in Nat
          BY DEF OthersOn, TypeOK
        <5> QED
          BY <4>1, <4>3, <5>1 DEF RanksAreUnique
      <4> QED
        BY <2>1, <4>2, <4>3 DEF RecoveryRefused, ExistsNewerSession
    <3> QED
      BY <1>0, <1>1, <2>1, <3>1, ApprovalOfRow DEF ApprovedIsAccounted, OthersOn,
         RecoveryRefused, RecoverableStatuses
  <2>2. CASE ~RecoveryRefused(s)
    BY <1>0, <1>1, <2>2, ApprovalOfRow DEF ApprovedIsAccounted, OthersOn
  <2> QED
    BY <2>1, <2>2
<1>7. \A t \in Sessions :
        /\ auth[t] # "NONE" => auth'[t] = auth[t]
        /\ pay[t] = "NONE" <=> pay'[t] = "NONE"
        /\ pay'[t] = "APPROVED" => Charged(t)'
  BY <1>1, <1>2, ApprovalOfRow DEF ApprovalsAreCharged, StatusFixesAuth, Recover,
     RecoverableStatuses
<1> QED
  BY <1>3, <1>4, <1>5, <1>6, <1>7

LEMMA VerdictStep ==
  ASSUME Inv, TypeOK', NEW r \in Requests, ApplyVerdict(r)
  PROVE  Inv'
<1> DEFINE s == request[r].session
           v == request[r].verdict
<1>1. /\ request[r] # NoRequest /\ ProcessApproval(s, v)
      /\ UNCHANGED << checkout, poll, sweep, crashes, overdue, remote >>
      /\ \A q \in Requests : request'[q] = IF q = r THEN NoRequest ELSE request[q]
  BY DEF ApplyVerdict, ProcessApproval, timeVars, envVars, Inv, TypeOK
<1>2. s \in Sessions /\ pay[s] # "NONE" /\ (v = "APPROVED" => Charged(s))
  BY <1>1, MemorySessions DEF Inv, ApprovalsAreCharged
<1>3. /\ RanksAreUnique' /\ HolderIsLatest' /\ StatusFixesAuth'
      /\ StatusFixesPay' /\ ApprovedIsAccounted'
      /\ \A t \in Sessions :
           /\ auth[t] # "NONE" => auth'[t] = auth[t]
           /\ pay[t] = "NONE" <=> pay'[t] = "NONE"
           /\ pay'[t] = "APPROVED" => Charged(t)'
  BY <1>1, <1>2, ApprovalStep
<1>4. ApprovalsAreCharged'
  <2>1. \A t \in Sessions : Charged(t)' <=> Charged(t)
    BY <1>1 DEF Charged
  <2> QED
    BY <1>1, <1>3, <2>1, MemorySessions DEF Inv, ApprovalsAreCharged
<1>5. SweepSparesConsumed'
  BY <1>1, <1>3, MemorySessions DEF Inv, SweepSparesConsumed
<1> QED
  BY <1>3, <1>4, <1>5 DEF Inv

-----------------------------------------------------------------------------
(* The sweep.                                                              *)

(* The steps of a sweep that only look.                                    *)
LEMMA SweepLooks ==
  ASSUME Inv, TypeOK', NEW w \in Sweepers,
         \/ SweepBegin(w) \/ SweepTake(w) \/ SweepSearch(w) \/ SweepAbort(w)
         \/ SweepSelectAuths(w) \/ SweepEnd(w)
  PROVE  Inv'
<1>0. ASSUME NEW next, SweepTo(w, next)
      PROVE  /\ sweep'[w] = next
             /\ \A u \in Sweepers : u # w => sweep'[u] = sweep[u]
             /\ UNCHANGED << createdAt, clock, overdue, checkout, request, remote >>
  BY <1>0 DEF SweepTo, timeVars, envVars, Inv, TypeOK
<1>1. /\ UNCHANGED << rowVars, clock, overdue, checkout, request, remote >>
      /\ \A u \in Sweepers : u # w => sweep'[u] = sweep[u]
  <2>1. UNCHANGED << status, pay, auth >>
    BY DEF SweepBegin, SweepTake, SweepSearch, SweepAbort, SweepSelectAuths,
       SweepEnd
  <2>2. \E next : SweepTo(w, next)
    BY DEF SweepBegin, SweepTake, SweepSearch, SweepAbort, SweepSelectAuths,
       SweepEnd
  <2> QED
    BY <1>0, <2>1, <2>2 DEF rowVars
<1>2. sweep[w] \in SweepStates /\ sweep'[w] \in SweepStates
  BY DEF Inv, TypeOK
<1>3. /\ \A s \in sweep[w].due : overdue[s]
      /\ sweep[w].pc = "search" =>
           pay[sweep[w].session] # "NONE" /\ sweep[w].session \in Sessions
  BY <1>2 DEF Inv, SweepSparesConsumed, ApprovalsAreCharged, SweepStates
<1>4. /\ sweep'[w].pc \in { "search", "approve" } => pay[sweep'[w].session] # "NONE"
      /\ sweep'[w].pc = "approve" => Charged(sweep'[w].session)
      /\ \A s \in sweep'[w].due : overdue[s]
      /\ sweep'[w].pc = "auths" =>
           \A s \in sweep'[w].todo :
             overdue[s] /\ auth[s] \in { "AUTHORIZED", "REVOKED", "EXPIRED" }
  <2>1. CASE SweepBegin(w)
    BY <1>0, <2>1 DEF SweepBegin
  <2>2. CASE SweepTake(w)
    <3>1. PICK s \in sweep[w].todo :
            sweep'[w] = [ sweep[w] EXCEPT
                          !.pc = IF pay[s] = "PENDING" THEN "search" ELSE "expire",
                          !.todo = @ \ {s}, !.session = s ]
      BY <1>0, <2>2 DEF SweepTake
    <3>2. /\ sweep'[w].pc = IF pay[s] = "PENDING" THEN "search" ELSE "expire"
          /\ sweep'[w].session = s
          /\ sweep'[w].due = sweep[w].due
      BY <1>2, <3>1 DEF SweepStates
    <3> QED
      BY <1>3, <3>2
  <2>3. CASE SweepSearch(w)
    <3>1. CASE sweep'[w] = [ sweep[w] EXCEPT !.pc = "expire" ]
      BY <1>2, <1>3, <3>1 DEF SweepStates
    <3>2. CASE /\ Cardinality(ApprovedAttempts(sweep[w].session)) = 1
               /\ sweep'[w] = [ sweep[w] EXCEPT !.pc = "approve" ]
      <4>1. ApprovedAttempts(sweep[w].session) # {}
        BY <3>2, FS_EmptySet
      <4>2. Charged(sweep[w].session)
        BY <4>1 DEF ApprovedAttempts, Charged
      <4>3. /\ sweep'[w].pc = "approve"
            /\ sweep'[w].session = sweep[w].session
            /\ sweep'[w].due = sweep[w].due
        BY <1>2, <3>2 DEF SweepStates
      <4> QED
        BY <1>3, <2>3, <4>2, <4>3 DEF SweepSearch
    <3> QED
      BY <1>0, <2>3, <3>1, <3>2 DEF SweepSearch
  <2>4. CASE SweepAbort(w) \/ SweepEnd(w)
    BY <1>0, <2>4 DEF SweepAbort, SweepEnd, NoSweep
  <2>5. CASE SweepSelectAuths(w)
    <3>1. sweep'[w] = [ sweep[w] EXCEPT
                          !.pc = "auths", !.due = {},
                          !.todo = { s \in sweep[w].due : auth[s] = "AUTHORIZED" } ]
      BY <1>0, <2>5 DEF SweepSelectAuths
    <3>2. /\ sweep'[w].pc = "auths" /\ sweep'[w].due = {}
          /\ sweep'[w].todo = { s \in sweep[w].due : auth[s] = "AUTHORIZED" }
      BY <1>2, <3>1 DEF SweepStates
    <3> QED
      BY <1>3, <3>2
  <2> QED
    BY <2>1, <2>2, <2>3, <2>4, <2>5
<1>5. ApprovalsAreCharged'
  <2>1. \A t \in Sessions : Charged(t)' <=> Charged(t)
    BY <1>1 DEF Charged
  <2>2. \A u \in Sweepers :
          sweep'[u].pc \in { "search", "approve" } => sweep'[u].session \in Sessions
    BY DEF TypeOK, SweepStates
  <2> QED
    BY <1>1, <1>4, <2>1, <2>2, MemorySessions DEF Inv, ApprovalsAreCharged,
       rowVars
<1>6. SweepSparesConsumed'
  BY <1>1, <1>4, MemorySessions DEF Inv, SweepSparesConsumed, rowVars
<1> QED
  BY <1>1, <1>5, <1>6, QuietRows DEF Inv

(* The steps of a sweep that write: they all leave it between two sessions,*)
(* with the same work left or less.                                        *)
LEMMA SweepWrites ==
  ASSUME Inv, TypeOK', NEW w \in Sweepers, NEW next, SweepTo(w, next),
         next.pc \in { "sessions", "auths" },
         next.due \subseteq sweep[w].due,
         next.pc = "auths" => sweep[w].pc = "auths" /\ next.todo \subseteq sweep[w].todo,
         \A t \in Sessions :
           /\ auth[t] \in { "AUTHORIZED", "REVOKED", "EXPIRED" } =>
                auth'[t] \in { "AUTHORIZED", "REVOKED", "EXPIRED" }
           /\ pay[t] = "NONE" <=> pay'[t] = "NONE"
           /\ pay'[t] = "APPROVED" => Charged(t)'
  PROVE  ApprovalsAreCharged' /\ SweepSparesConsumed'
<1>1. /\ UNCHANGED << overdue, checkout, request, remote >>
      /\ sweep'[w] = next
      /\ \A u \in Sweepers : u # w => sweep'[u] = sweep[u]
  BY DEF SweepTo, timeVars, envVars, Inv, TypeOK
<1>2. \A t \in Sessions : Charged(t)' <=> Charged(t)
  BY <1>1 DEF Charged
<1>3. ApprovalsAreCharged'
  BY <1>1, <1>2, MemorySessions DEF Inv, ApprovalsAreCharged
<1>4. SweepSparesConsumed'
  <2>1. /\ \A s \in sweep[w].due : overdue[s]
        /\ sweep[w].pc = "auths" =>
             \A s \in sweep[w].todo :
               overdue[s] /\ auth'[s] \in { "AUTHORIZED", "REVOKED", "EXPIRED" }
    BY MemorySessions DEF Inv, SweepSparesConsumed
  <2> QED
    BY <1>1, <2>1, MemorySessions DEF Inv, SweepSparesConsumed
<1> QED
  BY <1>3, <1>4

LEMMA SweepApproveStep ==
  ASSUME Inv, TypeOK', NEW w \in Sweepers, SweepApprove(w)
  PROVE  Inv'
<1> DEFINE s == sweep[w].session
           next == [ sweep[w] EXCEPT !.pc = "sessions", !.session = None ]
<1>1. /\ ProcessApproval(s, "APPROVED") /\ SweepTo(w, next)
      /\ sweep[w].pc = "approve" /\ UNCHANGED checkout
  BY DEF SweepApprove, SweepTo
<1>2. s \in Sessions /\ pay[s] # "NONE" /\ Charged(s)
  BY <1>1, MemorySessions DEF Inv, ApprovalsAreCharged
<1>3. /\ RanksAreUnique' /\ HolderIsLatest' /\ StatusFixesAuth'
      /\ StatusFixesPay' /\ ApprovedIsAccounted'
      /\ \A t \in Sessions :
           /\ auth[t] # "NONE" => auth'[t] = auth[t]
           /\ pay[t] = "NONE" <=> pay'[t] = "NONE"
           /\ pay'[t] = "APPROVED" => Charged(t)'
  BY <1>1, <1>2, ApprovalStep
<1>4. next.pc = "sessions" /\ next.due = sweep[w].due
  BY DEF Inv, TypeOK, SweepStates
<1> HIDE DEF next
<1>5. ApprovalsAreCharged' /\ SweepSparesConsumed'
  BY <1>1, <1>3, <1>4, SweepWrites
<1> QED
  BY <1>3, <1>5 DEF Inv

LEMMA SweepExpireStep ==
  ASSUME Inv, TypeOK', NEW w \in Sweepers, SweepExpire(w)
  PROVE  Inv'
<1> DEFINE s == sweep[w].session
           next == [ sweep[w] EXCEPT !.pc = "sessions", !.session = None ]
<1>1. /\ SweepTo(w, next) /\ sweep[w].pc = "expire"
      /\ UNCHANGED << createdAt, auth, clock, checkout, remote >>
      /\ status[s] \in { "PAYMENT_PENDING", "PAYMENT_EXPIRED" }
  BY DEF SweepExpire, SweepTo, timeVars, envVars
<1>2. s \in Sessions
  BY <1>1, MemorySessions DEF Inv
<1>3. \A t \in Sessions :
        /\ status'[t] = IF t = s THEN "PAYMENT_EXPIRED" ELSE status[t]
        /\ pay'[t] = IF t = s /\ pay[t] = "PENDING" THEN "EXPIRED" ELSE pay[t]
  BY DEF SweepExpire, Inv, TypeOK
<1>4. RanksAreUnique' /\ HolderIsLatest'
  <2>1. \A t \in Sessions :
          (Created(t)' <=> Created(t)) /\ (Active(t)' => Active(t))
    BY <1>1, <1>3 DEF Created, Active, ActiveStatuses
  <2> QED
    BY <1>1, <2>1, OrderKept DEF Inv
<1>5. StatusFixesAuth'
  BY <1>1, <1>3 DEF Inv, StatusFixesAuth, Armed
<1>6. StatusFixesPay'
  BY <1>1, <1>3 DEF Inv, StatusFixesPay, StatusFixesAuth, Created
<1>7. ApprovedIsAccounted'
  BY <1>1, <1>3 DEF Inv, ApprovedIsAccounted, OthersOn, StatusFixesPay
<1>8. \A t \in Sessions :
        /\ pay[t] = "NONE" <=> pay'[t] = "NONE"
        /\ pay'[t] = "APPROVED" => Charged(t)'
  BY <1>1, <1>3 DEF Inv, ApprovalsAreCharged, Charged
<1>9. next.pc = "sessions" /\ next.due = sweep[w].due
  BY DEF Inv, TypeOK, SweepStates
<1> HIDE DEF next
<1>10. ApprovalsAreCharged' /\ SweepSparesConsumed'
  BY <1>1, <1>8, <1>9, SweepWrites
<1> QED
  BY <1>4, <1>5, <1>6, <1>7, <1>10 DEF Inv

LEMMA SweepExpireAuthStep ==
  ASSUME Inv, TypeOK', NEW w \in Sweepers, SweepExpireAuth(w)
  PROVE  Inv'
<1>1. PICK s \in sweep[w].todo :
        /\ auth' = [ auth EXCEPT ![s] = "EXPIRED" ]
        /\ status' = [ status EXCEPT ![s] =
                         IF Armed(s) THEN "AUTHORIZATION_EXPIRED" ELSE @ ]
        /\ SweepTo(w, [ sweep[w] EXCEPT !.todo = @ \ {s} ])
  BY DEF SweepExpireAuth
<1> DEFINE next == [ sweep[w] EXCEPT !.todo = @ \ {s} ]
<1>2. /\ SweepTo(w, next) /\ sweep[w].pc = "auths"
      /\ UNCHANGED << createdAt, pay, clock, checkout, remote >>
  BY <1>1 DEF SweepExpireAuth, SweepTo, timeVars, envVars
<1>3. s \in Sessions /\ auth[s] \in { "AUTHORIZED", "REVOKED", "EXPIRED" }
  BY <1>2, MemorySessions DEF Inv, SweepSparesConsumed
<1>4. \A t \in Sessions :
        /\ auth'[t] = IF t = s THEN "EXPIRED" ELSE auth[t]
        /\ status'[t] = IF t = s /\ Armed(t) THEN "AUTHORIZATION_EXPIRED"
                                            ELSE status[t]
  BY <1>1 DEF Inv, TypeOK
<1>5. RanksAreUnique' /\ HolderIsLatest'
  <2>1. \A t \in Sessions :
          (Created(t)' <=> Created(t)) /\ (Active(t)' => Active(t))
    BY <1>4 DEF Created, Active, ActiveStatuses, Armed
  <2> QED
    BY <1>2, <2>1, OrderKept DEF Inv
<1>6. StatusFixesAuth'
  BY <1>3, <1>4 DEF Inv, StatusFixesAuth, Armed
<1>7. StatusFixesPay'
  BY <1>2, <1>3, <1>4 DEF Inv, StatusFixesPay, Created, Armed
<1>8. ApprovedIsAccounted'
  BY <1>2, <1>3, <1>4 DEF Inv, ApprovedIsAccounted, OthersOn
<1>9. \A t \in Sessions : pay'[t] = "APPROVED" => Charged(t)'
  BY <1>2 DEF Inv, ApprovalsAreCharged, Charged
<1>10. /\ next.pc = "auths" /\ next.due = sweep[w].due
       /\ next.todo \subseteq sweep[w].todo
  BY <1>2 DEF Inv, TypeOK, SweepStates
<1> HIDE DEF next
<1>11. ApprovalsAreCharged' /\ SweepSparesConsumed'
  BY <1>2, <1>3, <1>4, <1>9, <1>10, SweepWrites
<1> QED
  BY <1>5, <1>6, <1>7, <1>8, <1>11 DEF Inv

-----------------------------------------------------------------------------
(* The machines.                                                           *)

(* Steps that end or advance armed and running sessions: nothing becomes   *)
(* live again, and money is not involved.                                  *)
LEMMA AdvanceStep ==
  ASSUME Inv, TypeOK', StatusFixesAuth',
         UNCHANGED << createdAt, pay, clock, overdue, checkout, request, sweep,
                      remote >>,
         \A t \in Sessions :
           /\ Active(t)' => Active(t)
           /\ status'[t] = status[t] \/ (Active(t) /\ auth[t] # "NONE" /\ auth'[t] # "NONE")
           /\ auth'[t] = auth[t] \/ auth[t] = "AUTHORIZED"
           /\ overdue[t] => auth'[t] = auth[t] \/ auth'[t] = "REVOKED"
  PROVE  Inv'
<1>1. \A t \in Sessions : auth'[t] = "NONE" <=> auth[t] = "NONE"
  BY DEF Inv, StatusFixesAuth, Active, ActiveStatuses
<1>2. \A t \in Sessions : Created(t)' <=> Created(t)
  BY <1>1 DEF Inv, StatusFixesAuth, Active, ActiveStatuses, Created
<1>3. RanksAreUnique' /\ HolderIsLatest'
  BY <1>2, OrderKept DEF Inv
<1>4. StatusFixesPay'
  BY <1>1, <1>2 DEF Inv, StatusFixesPay, StatusFixesAuth, Created
<1>5. ApprovalsAreCharged'
  <2>1. \A t \in Sessions : Charged(t)' <=> Charged(t)
    BY DEF Charged
  <2> QED
    BY <2>1, MemorySessions DEF Inv, ApprovalsAreCharged
<1>6. SweepSparesConsumed'
  BY MemorySessions DEF Inv, SweepSparesConsumed
<1>7. ApprovedIsAccounted'
  BY <1>1 DEF Inv, ApprovedIsAccounted, OthersOn
<1> QED
  BY <1>3, <1>4, <1>5, <1>6, <1>7 DEF Inv

LEMMA PollArmStep ==
  ASSUME Inv, TypeOK', NEW m \in Machines, PollArm(m)
  PROVE  Inv'
<1>1. UNCHANGED << createdAt, pay, auth, clock, overdue, checkout, request, sweep,
                   remote >>
  BY DEF PollArm, timeVars
<1>2. \A t \in Sessions :
        status'[t] = status[t]
        \/ (status[t] = "AUTHORIZED" /\ status'[t] = "WAITING_FOR_BUTTON")
  BY DEF PollArm, Inv, TypeOK
<1>3. StatusFixesAuth'
  BY <1>1, <1>2 DEF Inv, StatusFixesAuth, Armed
<1>4. \A t \in Sessions :
        /\ Active(t)' => Active(t)
        /\ status'[t] = status[t] \/ (Active(t) /\ auth[t] # "NONE")
  BY <1>2 DEF Inv, StatusFixesAuth, Active, ActiveStatuses
<1> QED
  BY <1>1, <1>3, <1>4, AdvanceStep

LEMMA StartStep ==
  ASSUME Inv, TypeOK', NEW s \in Sessions, StartSession(s)
  PROVE  Inv'
<1>1. /\ UNCHANGED << createdAt, pay, clock, overdue, checkout, request, sweep,
                      remote >>
      /\ ~overdue[s] /\ auth[s] = "AUTHORIZED" /\ status[s] = "WAITING_FOR_BUTTON"
  BY DEF StartSession, timeVars, procVars, envVars
<1>2. \A t \in Sessions :
        /\ status'[t] = IF t = s THEN "RUNNING" ELSE status[t]
        /\ auth'[t] = IF t = s THEN "CONSUMED" ELSE auth[t]
  BY DEF StartSession, Inv, TypeOK
<1>3. StatusFixesAuth'
  BY <1>1, <1>2 DEF Inv, StatusFixesAuth, Armed
<1>4. \A t \in Sessions :
        /\ Active(t)' => Active(t)
        /\ status'[t] = status[t] \/ (Active(t) /\ auth[t] # "NONE" /\ auth'[t] # "NONE")
  BY <1>1, <1>2 DEF Active, ActiveStatuses
<1> QED
  BY <1>1, <1>2, <1>3, <1>4, AdvanceStep

LEMMA EndStep ==
  ASSUME Inv, TypeOK', NEW s \in Sessions, EndSession(s)
  PROVE  Inv'
<1>1. /\ UNCHANGED << createdAt, pay, auth, clock, overdue, checkout, request,
                      sweep, remote >>
      /\ status[s] = "RUNNING"
  BY DEF EndSession, timeVars, procVars, envVars
<1>2. /\ status'[s] \in { "FINISHED", "SESSION_INTERRUPTED", "EMERGENCY_STOP",
                          "DEVICE_ERROR" }
      /\ \A t \in Sessions : t # s => status'[t] = status[t]
  BY DEF EndSession, Inv, TypeOK
<1>3. StatusFixesAuth'
  BY <1>1, <1>2 DEF Inv, StatusFixesAuth, Armed
<1>4. \A t \in Sessions :
        /\ Active(t)' => Active(t)
        /\ status'[t] = status[t] \/ (Active(t) /\ auth[t] # "NONE")
  BY <1>1, <1>2 DEF Inv, StatusFixesAuth, Active, ActiveStatuses
<1> QED
  BY <1>1, <1>3, <1>4, AdvanceStep

(* At most one session of a machine is active, so the one the handler of   *)
(* the emergency stop finds is the only one it has to end.                 *)
LEMMA OneActive ==
  ASSUME Inv, NEW m \in Machines, NEW s \in ActiveOn(m), NEW t \in ActiveOn(m)
  PROVE  s = t
<1>1. SUFFICES ASSUME s # t PROVE FALSE
  OBVIOUS
<1>2. s \in Sessions /\ t \in Sessions /\ s \in OthersOn(t) /\ t \in OthersOn(s)
  BY <1>1 DEF ActiveOn, OthersOn
<1>3. Active(s) /\ Active(t) /\ Created(s) /\ Created(t)
  BY DEF ActiveOn, Active, Created, ActiveStatuses
<1>4. createdAt[s] < createdAt[t] /\ createdAt[t] < createdAt[s]
  BY <1>2, <1>3 DEF Inv, HolderIsLatest
<1> QED
  BY <1>2, <1>4 DEF Inv, TypeOK

LEMMA StopStep ==
  ASSUME Inv, TypeOK', NEW m \in Machines, EmergencyStop(m)
  PROVE  /\ Inv'
         /\ \A t \in Sessions : MachineOf[t] = m =>
              /\ auth'[t] # "AUTHORIZED"
              /\ status'[t] \notin { "AUTHORIZED", "WAITING_FOR_BUTTON", "RUNNING" }
<1>1. UNCHANGED << createdAt, pay, clock, overdue, checkout, request, sweep, remote >>
  BY DEF EmergencyStop, timeVars, procVars
<1>2. \A t \in Sessions :
        auth'[t] = IF MachineOf[t] = m /\ auth[t] = "AUTHORIZED" THEN "REVOKED"
                                                                ELSE auth[t]
  BY DEF EmergencyStop
<1>3. \A t \in Sessions :
        status'[t] = IF MachineOf[t] = m /\ (Armed(t) \/ status[t] = "RUNNING")
                     THEN "EMERGENCY_STOP" ELSE status[t]
  <2>1. \A t \in Sessions : MachineOf[t] = m /\ (Armed(t) \/ status[t] = "RUNNING")
                              => t \in ActiveOn(m)
    BY DEF ActiveOn, Active, Armed, ActiveStatuses
  <2>2. CASE ActiveOn(m) = {} /\ UNCHANGED status
    BY <2>1, <2>2
  <2>3. ASSUME NEW s \in ActiveOn(m),
               status' = [ status EXCEPT ![s] =
                             IF Armed(s) \/ @ = "RUNNING" THEN "EMERGENCY_STOP"
                                                          ELSE @ ]
        PROVE  \A t \in Sessions :
                 status'[t] =
                   IF MachineOf[t] = m /\ (Armed(t) \/ status[t] = "RUNNING")
                   THEN "EMERGENCY_STOP" ELSE status[t]
    <3>1. s \in Sessions /\ MachineOf[s] = m
      BY DEF ActiveOn
    <3>2. \A t \in Sessions : t \in ActiveOn(m) => t = s
      BY OneActive
    <3> QED
      BY <2>1, <2>3, <3>1, <3>2 DEF Inv, TypeOK
  <2> QED
    BY <2>2, <2>3 DEF EmergencyStop
<1>4. StatusFixesAuth'
  BY <1>2, <1>3 DEF Inv, StatusFixesAuth, Armed
<1>5. \A t \in Sessions :
        /\ Active(t)' => Active(t)
        /\ status'[t] = status[t] \/ (Active(t) /\ auth[t] # "NONE" /\ auth'[t] # "NONE")
  BY <1>2, <1>3 DEF Inv, StatusFixesAuth, Active, Armed, ActiveStatuses
<1>6. Inv'
  BY <1>1, <1>2, <1>4, <1>5, AdvanceStep
<1> QED
  BY <1>2, <1>3, <1>6 DEF Armed

-----------------------------------------------------------------------------
(* The whole server.                                                       *)

LEMMA InitInv == Init => Inv
<1> SUFFICES ASSUME Init PROVE Inv
  OBVIOUS
<1> USE SessionAssumption, BoundAssumption DEF Init
<1>1. TypeOK
  <2>1. /\ NoRequest \in RequestStates
        /\ NoPoll \in PollStates
        /\ NoSweep \in SweepStates
    BY DEF RequestStates, PollStates, SweepStates, NoSweep
  <2> QED
    BY <2>1 DEF TypeOK
<1>2. RanksAreUnique /\ HolderIsLatest
  BY DEF RanksAreUnique, HolderIsLatest, Created, Active, ActiveStatuses
<1>3. StatusFixesAuth /\ StatusFixesPay
  BY DEF StatusFixesAuth, StatusFixesPay, Created, Armed
<1>4. ApprovalsAreCharged
  BY DEF ApprovalsAreCharged, NoSweep
<1>5. SweepSparesConsumed /\ ApprovedIsAccounted
  BY DEF SweepSparesConsumed, ApprovedIsAccounted, NoSweep
<1> QED
  BY <1>1, <1>2, <1>3, <1>4, <1>5 DEF Inv

LEMMA NextInv == Inv /\ [Next]_vars => Inv'
<1> SUFFICES ASSUME Inv, [Next]_vars PROVE Inv'
  OBVIOUS
<1>0. TypeOK'
  BY TypeStep DEF Inv
<1>1. CASE UNCHANGED vars
  BY <1>0, <1>1, IdleStep DEF vars, timeVars, procVars, envVars
<1>2. ASSUME NEW s \in Sessions,
             CheckoutReserve(s) \/ CheckoutOpen(s) \/ CheckoutFail(s)
      PROVE  Inv'
  BY <1>0, <1>2, ReserveStep, OpenStep, FailStep
<1>3. ASSUME NEW s \in Sessions, NEW a \in Attempts, ProviderMoves(s, a)
      PROVE  Inv'
  <2>1. UNCHANGED << rowVars, clock, checkout >>
    BY <1>3 DEF ProviderMoves, timeVars, procVars
  <2> QED
    BY <1>0, <1>3, <2>1, QuietRows, ProviderStep DEF Inv
<1>4. ASSUME NEW s \in Sessions, NEW a \in Attempts, NEW r \in Requests,
             Webhook(r, s, a) \/ ReconcileManual(r, s, a)
      PROVE  Inv'
  <2>1. /\ Requery(r, s, remote[s][a])
        /\ remote[s][a] \in Verdicts
    BY <1>4 DEF Webhook, ReconcileManual, Inv, TypeOK
  <2>2. remote[s][a] = "APPROVED" => Charged(s)
    BY DEF Charged
  <2> QED
    BY <1>0, <2>1, <2>2, RequeryStep
<1>5. ASSUME NEW s \in Sessions, NEW r \in Requests, ReconcileAutomatic(r, s)
      PROVE  Inv'
  <2>1. ApprovedAttempts(s) # {}
    BY <1>5, FS_EmptySet DEF ReconcileAutomatic
  <2>2. Charged(s)
    BY <2>1 DEF ApprovedAttempts, Charged
  <2> QED
    BY <1>0, <1>5, <2>2, RequeryStep DEF ReconcileAutomatic, Verdicts
<1>6. ASSUME NEW r \in Requests, ApplyVerdict(r) PROVE Inv'
  BY <1>0, <1>6, VerdictStep
<1>7. ASSUME NEW w \in Sweepers, SweepStep(w) PROVE Inv'
  BY <1>0, <1>7, SweepLooks, SweepApproveStep, SweepExpireStep,
     SweepExpireAuthStep DEF SweepStep
<1>8. ASSUME NEW m \in Machines,
             PollSelect(m) \/ PollRead(m) \/ MachineHealth(m)
      PROVE  Inv'
  <2>1. UNCHANGED << rowVars, clock, overdue, checkout, request, sweep, remote >>
    BY <1>8 DEF PollSelect, PollRead, MachineHealth, timeVars, procVars, envVars
  <2> QED
    BY <1>0, <2>1, IdleStep
<1>9. ASSUME NEW m \in Machines, PollArm(m) \/ EmergencyStop(m) PROVE Inv'
  BY <1>0, <1>9, PollArmStep, StopStep
<1>10. ASSUME NEW s \in Sessions, StartSession(s) \/ EndSession(s) PROVE Inv'
  BY <1>0, <1>10, StartStep, EndStep
<1>11. ASSUME NEW s \in Sessions, PaymentTimeout(s) \/ AuthorizationTimeout(s)
       PROVE  Inv'
  <2>1. UNCHANGED << rowVars, clock, checkout, request, sweep, remote >>
    BY <1>11 DEF PaymentTimeout, AuthorizationTimeout, procVars, envVars
  <2>2. \A t \in Sessions : overdue[t] => overdue'[t]
    BY <1>11 DEF PaymentTimeout, AuthorizationTimeout, Inv, TypeOK
  <2> QED
    BY <1>0, <2>1, <2>2, IdleStep
<1>12. CASE Crash
  BY <1>0, <1>12, CrashStep
<1> QED
  BY <1>1, <1>2, <1>3, <1>4, <1>5, <1>6, <1>7, <1>8, <1>9, <1>10, <1>11, <1>12
  DEF Next

(* Every reachable state satisfies the inductive invariant.                *)
THEOREM Invariance == Spec => []Inv
BY InitInv, NextInv, PTL DEF Spec

(* The variables of the server keep their types, whatever runs.            *)
THEOREM TypeCorrect == Spec => []TypeOK
<1>1. Inv => TypeOK
  BY DEF Inv
<1> QED
  BY <1>1, Invariance, PTL

(* The machine is held by the last customer who reserved it, for any       *)
(* number of customers, retried payments and overlapping sweeps.           *)
THEOREM LatestHolds == Spec => []HolderIsLatest
<1>1. Inv => HolderIsLatest
  BY DEF Inv
<1> QED
  BY <1>1, Invariance, PTL

(* A session waits for the button exactly while its authorization lives.   *)
THEOREM ArmedAgrees == Spec => []ArmedIffAuthorized
<1>1. Inv => ArmedIffAuthorized
  BY DEF Inv, StatusFixesAuth, ArmedIffAuthorized
<1> QED
  BY <1>1, Invariance, PTL

(* No water without money the provider took.                               *)
THEOREM WaterPaid == Spec => []WaterIsPaid
<1>1. Inv => WaterIsPaid
  BY DEF Inv, StatusFixesAuth, StatusFixesPay, ApprovalsAreCharged, WaterIsPaid
<1> QED
  BY <1>1, Invariance, PTL

(* Money recorded as approved is never simply forgotten.                   *)
THEOREM ApprovedAccounted == Spec => []ApprovedIsAccounted
<1>1. Inv => ApprovedIsAccounted
  BY DEF Inv
<1> QED
  BY <1>1, Invariance, PTL

(* The emergency stop leaves nothing armed or running on its machine.      *)
THEOREM StopDisarms == Spec => EmergencyStopDisarms
<1> DEFINE A == \A m \in Machines, s \in Sessions :
                  stops'[m] # stops[m] /\ MachineOf[s] = m =>
                    /\ auth'[s] # "AUTHORIZED"
                    /\ status'[s] \notin { "AUTHORIZED", "WAITING_FOR_BUTTON",
                                           "RUNNING" }
<1>1. Inv /\ [Next]_vars => [A]_vars
  <2> SUFFICES ASSUME Inv, Next, NEW m \in Machines, stops'[m] # stops[m]
               PROVE  EmergencyStop(m)
    BY NextInv, TypeStep, StopStep DEF Inv
  <2>1. \A n \in Machines : EmergencyStop(n) =>
          \A k \in Machines \ {n} : stops'[k] = stops[k]
    BY DEF EmergencyStop, Inv, TypeOK
  <2>2. (\A n \in Machines : ~EmergencyStop(n)) => UNCHANGED stops
    BY DEF Next, CheckoutReserve, CheckoutOpen, CheckoutFail, ProviderMoves,
       Webhook, ReconcileAutomatic, ReconcileManual, Requery, ApplyVerdict,
       ProcessApproval, SweepStep, SweepBegin, SweepTake, SweepSearch,
       SweepApprove, SweepExpire, SweepAbort, SweepSelectAuths, SweepExpireAuth,
       SweepEnd, SweepTo, PollSelect, PollRead, PollArm, StartSession,
       EndSession, MachineHealth, PaymentTimeout, AuthorizationTimeout, Crash,
       envVars
  <2> QED
    BY <2>1, <2>2
<1> QED
  BY <1>1, Invariance, PTL DEF Spec, EmergencyStopDisarms

(* An authorization is consumed once and for all and never comes back to   *)
(* life, in spite of the sweep that overwrites it without looking.         *)
THEOREM UsedOnce == Spec => AuthorizationUsedOnce
<1> DEFINE Once(s) == /\ auth[s] = "CONSUMED" => auth'[s] = "CONSUMED"
                      /\ auth'[s] = "AUTHORIZED" => auth[s] \in { "NONE", "AUTHORIZED" }
           A == \A s \in Sessions : Once(s)
<1>1. Inv /\ [Next]_vars => [A]_vars
  <2> SUFFICES ASSUME Inv, Next PROVE A
    OBVIOUS
  <2>0. Inv'
    BY NextInv
  <2>1. UNCHANGED auth => A
    OBVIOUS
  <2>2. ASSUME NEW s \in Sessions, NEW v, ProcessApproval(s, v), pay[s] # "NONE",
               v = "APPROVED" => Charged(s), UNCHANGED checkout
        PROVE  A
    <3>1. \A t \in Sessions : auth[t] # "NONE" => auth'[t] = auth[t]
      BY <2>0, <2>2, ApprovalStep DEF Inv
    <3> QED
      BY <3>1
  <2>3. ASSUME NEW r \in Requests, ApplyVerdict(r) PROVE A
    BY <2>2, <2>3, MemorySessions DEF ApplyVerdict, Inv, ApprovalsAreCharged
  <2>4. ASSUME NEW w \in Sweepers, SweepApprove(w) PROVE A
    BY <2>2, <2>4, MemorySessions DEF SweepApprove, SweepTo, Inv,
       ApprovalsAreCharged
  <2>5. ASSUME NEW w \in Sweepers, SweepExpireAuth(w) PROVE A
    <3>1. PICK s \in sweep[w].todo : auth' = [ auth EXCEPT ![s] = "EXPIRED" ]
      BY <2>5 DEF SweepExpireAuth
    <3>2. auth[s] # "CONSUMED"
      BY <2>5 DEF SweepExpireAuth, Inv, SweepSparesConsumed
    <3> QED
      BY <3>1, <3>2 DEF Inv, TypeOK
  <2>6. ASSUME NEW w \in Sweepers, SweepStep(w) PROVE A
    BY <2>1, <2>4, <2>5, <2>6 DEF SweepStep, SweepBegin, SweepTake, SweepSearch,
       SweepExpire, SweepAbort, SweepSelectAuths, SweepEnd
  <2>7. ASSUME NEW s \in Sessions, StartSession(s) PROVE A
    BY <2>7 DEF StartSession, Inv, TypeOK
  <2>8. ASSUME NEW m \in Machines, EmergencyStop(m) PROVE A
    BY <2>8 DEF EmergencyStop
  <2>9. ASSUME NEW s \in Sessions, NEW a \in Attempts, NEW r \in Requests,
               Webhook(r, s, a) \/ ReconcileManual(r, s, a)
        PROVE  A
    BY <2>1, <2>9 DEF Webhook, ReconcileManual, Requery, rowVars
  <2>10. ASSUME NEW s \in Sessions, NEW r \in Requests, ReconcileAutomatic(r, s)
         PROVE  A
    BY <2>1, <2>10 DEF ReconcileAutomatic, Requery, rowVars
  <2>11. ASSUME NEW s \in Sessions, NEW a \in Attempts, ProviderMoves(s, a)
         PROVE  A
    BY <2>1, <2>11 DEF ProviderMoves, rowVars
  <2>12. ASSUME NEW s \in Sessions,
                \/ CheckoutReserve(s) \/ CheckoutOpen(s) \/ CheckoutFail(s)
                \/ EndSession(s) \/ PaymentTimeout(s) \/ AuthorizationTimeout(s)
         PROVE  A
    BY <2>1, <2>12 DEF CheckoutReserve, CheckoutOpen, CheckoutFail, EndSession,
       PaymentTimeout, AuthorizationTimeout, rowVars
  <2>13. ASSUME NEW m \in Machines,
                PollSelect(m) \/ PollRead(m) \/ PollArm(m) \/ MachineHealth(m)
         PROVE  A
    BY <2>1, <2>13 DEF PollSelect, PollRead, PollArm, MachineHealth, rowVars
  <2>14. CASE Crash
    BY <2>1, <2>14 DEF Crash, rowVars
  <2> QED
    BY <2>3, <2>6, <2>7, <2>8, <2>9, <2>10, <2>11, <2>12, <2>13, <2>14 DEF Next
<1> QED
  BY <1>1, Invariance, PTL DEF Spec, AuthorizationUsedOnce

(* What EveryMoveIsDeclared asks of one session.                           *)
DeclaredMove(s) ==
  \/ CanTransition(status[s], status'[s])
  \/ /\ CanTransition(status[s], "PAYMENT_APPROVED")
     /\ CanTransition("PAYMENT_APPROVED", status'[s])

(* The edges the transactions of the server follow.                        *)
LEMMA Edges ==
  /\ CanTransition("PAYMENT_PENDING", "PAYMENT_APPROVED")
  /\ CanTransition("PAYMENT_APPROVED", "AUTHORIZED")
  /\ CanTransition("PAYMENT_PENDING", "MACHINE_OFFLINE")
  /\ CanTransition("PAYMENT_PENDING", "PAYMENT_FAILED")
  /\ CanTransition("PAYMENT_PENDING", "PAYMENT_EXPIRED")
  /\ CanTransition("PAYMENT_EXPIRED", "AUTHORIZED")
  /\ CanTransition("AUTHORIZED", "WAITING_FOR_BUTTON")
  /\ CanTransition("WAITING_FOR_BUTTON", "RUNNING")
  /\ \A from \in { "AUTHORIZED", "WAITING_FOR_BUTTON" } :
       CanTransition(from, "AUTHORIZATION_EXPIRED")
  /\ \A from \in { "AUTHORIZED", "WAITING_FOR_BUTTON", "RUNNING" } :
       CanTransition(from, "EMERGENCY_STOP")
  /\ \A to \in { "FINISHED", "SESSION_INTERRUPTED", "EMERGENCY_STOP",
                 "DEVICE_ERROR" } : CanTransition("RUNNING", to)
  /\ \A from : CanTransition(from, from)
BY DEF CanTransition, TRANSITIONS

(* Every status written follows a declared edge, although several writers  *)
(* never ask assertTransition and one of them follows two edges at once.   *)
THEOREM MovesAreDeclared == Spec => EveryMoveIsDeclared
<1> DEFINE A == \A s \in Sessions : Created(s) => DeclaredMove(s)
<1>1. Inv /\ [Next]_vars => [A]_vars
  <2> SUFFICES ASSUME Inv, Next PROVE A
    OBVIOUS
  <2>1. UNCHANGED status => A
    BY Edges DEF DeclaredMove
  <2>2. ASSUME NEW s \in Sessions, NEW v, ProcessApproval(s, v), pay[s] # "NONE"
        PROVE  A
    <3>1. \A t \in Sessions \ {s} : status'[t] = status[t]
      BY <2>2, ApprovalRows
    <3>2. \/ status'[s] = status[s]
          \/ /\ status[s] = "PAYMENT_PENDING"
             /\ status'[s] \in { "PAYMENT_FAILED", "MACHINE_OFFLINE", "AUTHORIZED" }
          \/ status[s] = "PAYMENT_EXPIRED" /\ status'[s] = "AUTHORIZED"
      BY <2>2, ApprovalOfRow DEF Recover, RecoverableStatuses
    <3> QED
      BY <3>1, <3>2, Edges DEF DeclaredMove
  <2>3. ASSUME NEW r \in Requests, ApplyVerdict(r) PROVE A
    BY <2>2, <2>3, MemorySessions DEF ApplyVerdict, Inv, ApprovalsAreCharged
  <2>4. ASSUME NEW w \in Sweepers, SweepApprove(w) PROVE A
    BY <2>2, <2>4, MemorySessions DEF SweepApprove, Inv, ApprovalsAreCharged
  <2>5. ASSUME NEW w \in Sweepers, SweepExpire(w) PROVE A
    <3>1. PICK s \in Sessions :
            /\ status[s] \in { "PAYMENT_PENDING", "PAYMENT_EXPIRED" }
            /\ status' = [ status EXCEPT ![s] = "PAYMENT_EXPIRED" ]
      BY <2>5, MemorySessions DEF SweepExpire, Inv
    <3> QED
      BY <3>1, Edges DEF DeclaredMove, Inv, TypeOK
  <2>6. ASSUME NEW w \in Sweepers, SweepExpireAuth(w) PROVE A
    <3>1. PICK s \in Sessions :
            status' = [ status EXCEPT ![s] =
                          IF Armed(s) THEN "AUTHORIZATION_EXPIRED" ELSE @ ]
      BY <2>6, MemorySessions DEF SweepExpireAuth, Inv
    <3>2. \A t \in Sessions :
            \/ status'[t] = status[t]
            \/ /\ status[t] \in { "AUTHORIZED", "WAITING_FOR_BUTTON" }
               /\ status'[t] = "AUTHORIZATION_EXPIRED"
      BY <3>1 DEF Armed, Inv, TypeOK
    <3> QED
      BY <3>2, Edges DEF DeclaredMove
  <2>7. ASSUME NEW w \in Sweepers, SweepStep(w) PROVE A
    <3>1. \/ UNCHANGED status
          \/ SweepApprove(w) \/ SweepExpire(w) \/ SweepExpireAuth(w)
      BY <2>7 DEF SweepStep, SweepBegin, SweepTake, SweepSearch, SweepAbort,
         SweepSelectAuths, SweepEnd
    <3> QED
      BY <2>1, <2>4, <2>5, <2>6, <3>1
  <2>8. ASSUME NEW s \in Sessions, CheckoutReserve(s) PROVE A
    <3>1. ~Created(s) /\ \A t \in Sessions \ {s} : status'[t] = status[t]
      BY <2>8 DEF CheckoutReserve, Inv, TypeOK
    <3> QED
      BY <3>1, Edges DEF DeclaredMove
  <2>9. ASSUME NEW s \in Sessions, CheckoutFail(s) PROVE A
    <3>1. \A t \in Sessions :
            \/ status'[t] = status[t]
            \/ status[t] = "PAYMENT_PENDING" /\ status'[t] = "PAYMENT_FAILED"
      BY <2>9 DEF CheckoutFail, Inv, TypeOK
    <3> QED
      BY <3>1, Edges DEF DeclaredMove
  <2>10. ASSUME NEW s \in Sessions, StartSession(s) \/ EndSession(s) PROVE A
    <3>1. \A t \in Sessions :
            \/ status'[t] = status[t]
            \/ status[t] = "WAITING_FOR_BUTTON" /\ status'[t] = "RUNNING"
            \/ /\ status[t] = "RUNNING"
               /\ status'[t] \in { "FINISHED", "SESSION_INTERRUPTED",
                                   "EMERGENCY_STOP", "DEVICE_ERROR" }
      BY <2>10 DEF StartSession, EndSession, Inv, TypeOK
    <3> QED
      BY <3>1, Edges DEF DeclaredMove
  <2>11. ASSUME NEW m \in Machines, PollArm(m) PROVE A
    <3>1. \A t \in Sessions :
            \/ status'[t] = status[t]
            \/ status[t] = "AUTHORIZED" /\ status'[t] = "WAITING_FOR_BUTTON"
      BY <2>11 DEF PollArm, Inv, TypeOK
    <3> QED
      BY <3>1, Edges DEF DeclaredMove
  <2>12. ASSUME NEW m \in Machines, EmergencyStop(m) PROVE A
    <3>1. \A t \in Sessions :
            \/ status'[t] = status[t]
            \/ /\ status[t] \in { "AUTHORIZED", "WAITING_FOR_BUTTON", "RUNNING" }
               /\ status'[t] = "EMERGENCY_STOP"
      BY <2>12 DEF EmergencyStop, ActiveOn, Armed, Inv, TypeOK
    <3> QED
      BY <3>1, Edges DEF DeclaredMove
  <2>13. ASSUME NEW s \in Sessions, NEW a \in Attempts, NEW r \in Requests,
                Webhook(r, s, a) \/ ReconcileManual(r, s, a)
         PROVE  A
    BY <2>1, <2>13 DEF Webhook, ReconcileManual, Requery, rowVars
  <2>14. ASSUME NEW s \in Sessions, NEW r \in Requests, ReconcileAutomatic(r, s)
         PROVE  A
    BY <2>1, <2>14 DEF ReconcileAutomatic, Requery, rowVars
  <2>15. ASSUME NEW s \in Sessions, NEW a \in Attempts, ProviderMoves(s, a)
         PROVE  A
    BY <2>1, <2>15 DEF ProviderMoves, rowVars
  <2>16. ASSUME NEW s \in Sessions,
                CheckoutOpen(s) \/ PaymentTimeout(s) \/ AuthorizationTimeout(s)
         PROVE  A
    BY <2>1, <2>16 DEF CheckoutOpen, PaymentTimeout, AuthorizationTimeout, rowVars
  <2>17. ASSUME NEW m \in Machines, PollSelect(m) \/ PollRead(m) \/ MachineHealth(m)
         PROVE  A
    BY <2>1, <2>17 DEF PollSelect, PollRead, MachineHealth, rowVars
  <2>18. CASE Crash
    BY <2>1, <2>18 DEF Crash, rowVars
  <2> QED
    BY <2>3, <2>7, <2>8, <2>9, <2>10, <2>11, <2>12, <2>13, <2>14, <2>15, <2>16, <2>17,
       <2>18 DEF Next
<1> QED
  BY <1>1, Invariance, PTL DEF Spec, EveryMoveIsDeclared, DeclaredMove

(* The sweep may skip the expiry of a session it rescued: an approval that *)
(* was processed for a pending session always moves it on.                 *)
THEOREM RescueMovesOn == Spec => RescueLeavesPending
<1> DEFINE A == \A w \in Sweepers :
                  sweep[w].pc = "approve" /\ sweep'[w].pc = "sessions" =>
                    status'[sweep[w].session] # "PAYMENT_PENDING"
<1>1. Inv /\ [Next]_vars => [A]_vars
  <2> SUFFICES ASSUME Inv, Next, NEW w \in Sweepers,
                      sweep[w].pc = "approve", sweep'[w].pc = "sessions"
               PROVE  status'[sweep[w].session] # "PAYMENT_PENDING"
    OBVIOUS
  <2>1. UNCHANGED sweep => FALSE
    OBVIOUS
  <2>2. ASSUME NEW u \in Sweepers, SweepStep(u) PROVE SweepApprove(w)
    <3>1. ASSUME NEW next, SweepTo(u, next)
          PROVE  \A v \in Sweepers \ {u} : sweep'[v] = sweep[v]
      BY <3>1 DEF SweepTo, Inv, TypeOK
    <3>2. \A v \in Sweepers \ {u} : sweep'[v] = sweep[v]
      BY <2>2, <3>1 DEF SweepStep, SweepBegin, SweepTake, SweepSearch, SweepApprove,
         SweepExpire, SweepAbort, SweepSelectAuths, SweepExpireAuth, SweepEnd
    <3>3. u = w
      BY <3>2
    <3> QED
      BY <2>2, <3>3 DEF SweepStep, SweepBegin, SweepTake, SweepSearch, SweepExpire,
         SweepAbort, SweepSelectAuths, SweepExpireAuth, SweepEnd
  <2>3. SweepApprove(w)
    <3>1. ~ Crash
      BY DEF Crash, NoSweep
    <3> QED
      BY <2>1, <2>2, <3>1 DEF Next, CheckoutReserve, CheckoutOpen, CheckoutFail, ProviderMoves,
         Webhook, ReconcileAutomatic, ReconcileManual, Requery, ApplyVerdict, PollSelect,
         PollRead, PollArm, StartSession, EndSession, EmergencyStop, MachineHealth,
         PaymentTimeout, AuthorizationTimeout, procVars
  <2>4. PICK s \in Sessions : s = sweep[w].session
    BY MemorySessions DEF Inv
  <2>5. ProcessApproval(s, "APPROVED") /\ pay[s] # "NONE"
    BY <2>3, <2>4 DEF SweepApprove, Inv, ApprovalsAreCharged
  <2>6. CASE Acknowledge(s)
    <3>1. status[s] # "PAYMENT_PENDING"
      BY <2>6 DEF Acknowledge, Duplicated, Inv, StatusFixesPay
    <3> QED
      BY <2>4, <2>6, <3>1 DEF Acknowledge
  <2>7. CASE ApprovePayment(s, "APPROVED")
    BY <2>4, <2>7 DEF ApprovePayment, ApproveOffline, ApproveAndArm, ApproveTooLate,
       RecoveryRefused, Recover, RecoverableStatuses, Inv, TypeOK
  <2> QED
    BY <2>5, <2>6, <2>7 DEF ProcessApproval, RejectPayment, KeepPending
<1> QED
  BY <1>1, Invariance, PTL DEF Spec, RescueLeavesPending

-----------------------------------------------------------------------------
(* The refinement: every step of the server is a step of the lease or none.*)

LEMMA PhaseValues ==
  ASSUME NEW s \in Sessions
  PROVE  /\ PhaseOf(s) = "none" <=> status[s] = "NONE"
         /\ PhaseOf(s) = "reserved" <=> status[s] = "PAYMENT_PENDING"
         /\ PhaseOf(s) = "lapsed" <=> status[s] = "PAYMENT_EXPIRED"
         /\ PhaseOf(s) = "armed" <=> Armed(s)
         /\ PhaseOf(s) = "washing" <=> status[s] = "RUNNING"
         /\ status[s] \notin { "NONE", "PAYMENT_PENDING", "PAYMENT_EXPIRED",
                               "AUTHORIZED", "WAITING_FOR_BUTTON", "RUNNING" }
              => PhaseOf(s) = IF auth[s] = "CONSUMED" THEN "served" ELSE "void"
BY DEF PhaseOf, OpenPhases, Armed

LEMMA LeaseInit == Init => Lease!Init
<1> SUFFICES ASSUME Init PROVE Lease!Init
  OBVIOUS
<1>1. [ s \in Sessions |-> PhaseOf(s) ] = [ s \in Sessions |-> "none" ]
  BY PhaseValues DEF Init
<1>2. { s \in Sessions : Charged(s) } = {}
  BY DEF Init, Charged
<1> QED
  BY <1>1, <1>2 DEF Init, Lease!Init

LEMMA LeaseStutter ==
  ASSUME UNCHANGED << createdAt, clock, remote >>,
         \A t \in Sessions : PhaseOf(t)' = PhaseOf(t)
  PROVE  UNCHANGED Lease!leaseVars
<1>1. \A t \in Sessions : Charged(t)' <=> Charged(t)
  BY DEF Charged
<1>2. { t \in Sessions : Charged(t) }' = { t \in Sessions : Charged(t) }
  BY <1>1
<1>3. [ t \in Sessions |-> PhaseOf(t) ]' = [ t \in Sessions |-> PhaseOf(t) ]
  OBVIOUS
<1> QED
  BY <1>2, <1>3 DEF Lease!leaseVars

LEMMA LeaseMove ==
  ASSUME UNCHANGED << createdAt, clock, remote >>, NEW s \in Sessions,
         \A t \in Sessions \ {s} : PhaseOf(t)' = PhaseOf(t)
  PROVE  Lease!Move(s, PhaseOf(s), PhaseOf(s)')
<1>1. \A t \in Sessions : Charged(t)' <=> Charged(t)
  BY DEF Charged
<1>2. { t \in Sessions : Charged(t) }' = { t \in Sessions : Charged(t) }
  BY <1>1
<1>3. [ t \in Sessions |-> PhaseOf(t) ]' =
        [ [ t \in Sessions |-> PhaseOf(t) ] EXCEPT ![s] = PhaseOf(s)' ]
  OBVIOUS
<1> QED
  BY <1>2, <1>3 DEF Lease!Move

LEMMA LeaseReserve ==
  ASSUME Inv, NEW s \in Sessions, CheckoutReserve(s)
  PROVE  Lease!Next
<1>1. /\ UNCHANGED << auth, remote >> /\ clock' = clock + 1
      /\ status[s] = "NONE"
      /\ status' = [ status EXCEPT ![s] = "PAYMENT_PENDING" ]
      /\ createdAt' = [ createdAt EXCEPT ![s] = clock + 1 ]
  BY DEF CheckoutReserve, envVars, Created
<1>2. PhaseOf(s) = "none" /\ PhaseOf(s)' = "reserved"
  BY <1>1 DEF PhaseOf, OpenPhases, Inv, TypeOK
<1>3. \A t \in Sessions \ {s} : PhaseOf(t)' = PhaseOf(t)
  BY <1>1 DEF PhaseOf, Inv, TypeOK
<1>4. [ t \in Sessions |-> PhaseOf(t) ]' =
        [ [ t \in Sessions |-> PhaseOf(t) ] EXCEPT ![s] = "reserved" ]
  BY <1>2, <1>3
<1>5. { t \in Sessions : Charged(t) }' = { t \in Sessions : Charged(t) }
  BY <1>1 DEF Charged
<1>6. \A t \in Lease!Rivals(s) : PhaseOf(t) \notin Lease!Holding
  BY PhaseValues DEF CheckoutReserve, ActiveOn, Active, ActiveStatuses,
     Lease!Rivals, Lease!Holding, Armed
<1>7. Lease!Reserve(s)
  BY <1>1, <1>2, <1>4, <1>5, <1>6 DEF Lease!Reserve, Lease!Rivals
<1> QED
  BY <1>7 DEF Lease!Next

LEMMA LeasePay ==
  ASSUME Inv, NEW s \in Sessions, NEW a \in Attempts, ProviderMoves(s, a)
  PROVE  [Lease!Next]_(Lease!leaseVars)
<1>1. /\ UNCHANGED << status, auth, createdAt, clock >>
      /\ checkout[s] = "open"
  BY DEF ProviderMoves, rowVars, timeVars
<1>2. PhaseOf(s) # "none"
  BY <1>1 DEF Inv, ApprovalsAreCharged, StatusFixesPay, Created, PhaseOf,
     OpenPhases
<1>3. [ t \in Sessions |-> PhaseOf(t) ]' = [ t \in Sessions |-> PhaseOf(t) ]
  BY <1>1 DEF PhaseOf
<1>4. \A t \in Sessions : /\ Charged(t) => Charged(t)'
                          /\ t # s => (Charged(t)' <=> Charged(t))
  <2>1. \A t \in Sessions : t # s => remote'[t] = remote[t]
    BY DEF ProviderMoves, Inv, TypeOK
  <2> QED
    BY <2>1, ChargedIsStable DEF Inv, Charged
<1>5. CASE Charged(s)' <=> Charged(s)
  <2>1. { t \in Sessions : Charged(t) }' = { t \in Sessions : Charged(t) }
    BY <1>4, <1>5
  <2> QED
    BY <1>1, <1>3, <2>1 DEF Lease!leaseVars
<1>6. CASE Charged(s)' /\ ~Charged(s)
  <2>1. { t \in Sessions : Charged(t) }' = { t \in Sessions : Charged(t) } \cup {s}
    BY <1>4, <1>6
  <2>2. Lease!Pay(s)
    BY <1>1, <1>2, <1>3, <2>1 DEF Lease!Pay
  <2> QED
    BY <2>2 DEF Lease!Next
<1> QED
  BY <1>4, <1>5, <1>6

LEMMA LeaseApproval ==
  ASSUME Inv, Inv', NEW s \in Sessions, NEW v, ProcessApproval(s, v),
         pay[s] # "NONE", v = "APPROVED" => Charged(s)
  PROVE  [Lease!Next]_(Lease!leaseVars)
<1>1. UNCHANGED << createdAt, clock, remote >>
  BY DEF ProcessApproval, timeVars, envVars
<1>2. \A t \in Sessions \ {s} : PhaseOf(t)' = PhaseOf(t)
  BY ApprovalRows DEF PhaseOf
<1>3. Lease!Move(s, PhaseOf(s), PhaseOf(s)')
  BY <1>1, <1>2, LeaseMove
<1>4. CASE status'[s] = status[s] /\ auth'[s] = auth[s]
  <2>1. PhaseOf(s)' = PhaseOf(s)
    BY <1>4 DEF PhaseOf
  <2> QED
    BY <1>1, <1>2, <2>1, LeaseStutter
<1>5. CASE /\ status[s] = "PAYMENT_PENDING"
           /\ status'[s] \in { "PAYMENT_FAILED", "MACHINE_OFFLINE" }
           /\ auth'[s] # "CONSUMED"
  <2>1. PhaseOf(s) = "reserved" /\ PhaseOf(s)' = "void"
    BY <1>5 DEF PhaseOf, OpenPhases
  <2> QED
    BY <1>3, <2>1 DEF Lease!Next, Lease!Refuse
<1>6. CASE /\ status[s] = "PAYMENT_PENDING" /\ status'[s] = "AUTHORIZED"
           /\ v = "APPROVED"
  <2>1. PhaseOf(s) = "reserved" /\ PhaseOf(s)' = "armed"
    BY <1>6 DEF PhaseOf, OpenPhases
  <2> QED
    BY <1>3, <1>6, <2>1 DEF Lease!Next, Lease!Arm
<1>7. CASE Recover(s) /\ status'[s] = "AUTHORIZED" /\ v = "APPROVED"
  <2>1. PhaseOf(s) = "lapsed" /\ PhaseOf(s)' = "armed"
    BY <1>7 DEF PhaseOf, OpenPhases, Recover, RecoverableStatuses
  <2>2. createdAt[s] \in Nat /\ createdAt[s] # 0
    BY <1>7 DEF Inv, TypeOK, RanksAreUnique, Created, Recover, RecoverableStatuses
  <2>3. \A t \in OthersOn(s) : createdAt[t] < createdAt[s] /\ ~Active(t)
    BY <1>7, <2>2, RecoverIsLatest DEF Inv, RanksAreUnique, OthersOn
  <2>4. \A t \in Lease!Rivals(s) :
          createdAt[t] < createdAt[s] /\ PhaseOf(t) \notin Lease!Holding
    BY <2>3, PhaseValues DEF OthersOn, Lease!Rivals, Lease!Holding, Active,
       ActiveStatuses, Armed
  <2>5. \A t \in Lease!Rivals(s) : t \in Sessions
    BY DEF Lease!Rivals
  <2>6. Lease!Rearm(s)
    BY <1>3, <1>7, <2>1, <2>4, <2>5 DEF Lease!Rearm
  <2> QED
    BY <2>6 DEF Lease!Next
<1>8. /\ status[s] = "PAYMENT_PENDING" => auth[s] = "NONE"
      /\ status[s] = "PAYMENT_PENDING" => pay[s] = "PENDING"
  BY DEF Inv, StatusFixesAuth, StatusFixesPay
<1> QED
  BY <1>4, <1>5, <1>6, <1>7, <1>8, ApprovalOfRow

LEMMA LeaseSweep ==
  ASSUME Inv, Inv', NEW w \in Sweepers, SweepStep(w)
  PROVE  [Lease!Next]_(Lease!leaseVars)
<1>1. CASE UNCHANGED << status, pay, auth >>
  <2>1. UNCHANGED << createdAt, clock, remote >>
    BY DEF SweepStep, SweepBegin, SweepTake, SweepSearch, SweepApprove,
       SweepExpire, SweepAbort, SweepSelectAuths, SweepExpireAuth, SweepEnd,
       SweepTo, timeVars, envVars
  <2>2. \A t \in Sessions : PhaseOf(t)' = PhaseOf(t)
    BY <1>1 DEF PhaseOf
  <2> QED
    BY <2>1, <2>2, LeaseStutter
<1>2. CASE SweepApprove(w)
  BY <1>2, MemorySessions, LeaseApproval DEF SweepApprove, Inv, ApprovalsAreCharged
<1>3. CASE SweepExpire(w)
  <2>1. PICK s \in Sessions : s = sweep[w].session
    BY <1>3, MemorySessions DEF SweepExpire, Inv
  <2>2. /\ UNCHANGED << createdAt, clock, remote, auth >>
        /\ status[s] \in { "PAYMENT_PENDING", "PAYMENT_EXPIRED" }
        /\ status' = [ status EXCEPT ![s] = "PAYMENT_EXPIRED" ]
    BY <1>3, <2>1 DEF SweepExpire, SweepTo, timeVars, envVars
  <2>3. \A t \in Sessions \ {s} : PhaseOf(t)' = PhaseOf(t)
    BY <2>2 DEF PhaseOf, Inv, TypeOK
  <2>4. PhaseOf(s) \in { "reserved", "lapsed" } /\ PhaseOf(s)' = "lapsed"
    BY <2>2 DEF PhaseOf, OpenPhases, Inv, TypeOK
  <2>5. CASE PhaseOf(s) = "lapsed"
    BY <2>2, <2>3, <2>4, <2>5, LeaseStutter
  <2>6. CASE PhaseOf(s) = "reserved"
    <3>1. Lease!Move(s, PhaseOf(s), PhaseOf(s)')
      BY <2>2, <2>3, LeaseMove
    <3> QED
      BY <2>4, <2>6, <3>1 DEF Lease!Next, Lease!Lapse
  <2> QED
    BY <2>4, <2>5, <2>6
<1>4. CASE SweepExpireAuth(w)
  <2>1. PICK s \in sweep[w].todo :
          /\ auth' = [ auth EXCEPT ![s] = "EXPIRED" ]
          /\ status' = [ status EXCEPT ![s] =
                           IF Armed(s) THEN "AUTHORIZATION_EXPIRED" ELSE @ ]
    BY <1>4 DEF SweepExpireAuth
  <2>2. s \in Sessions /\ auth[s] \in { "AUTHORIZED", "REVOKED", "EXPIRED" }
    BY <1>4, MemorySessions DEF SweepExpireAuth, Inv, SweepSparesConsumed
  <2>3. UNCHANGED << createdAt, clock, remote >>
    BY <1>4 DEF SweepExpireAuth, SweepTo, timeVars, envVars
  <2>4. \A t \in Sessions \ {s} : PhaseOf(t)' = PhaseOf(t)
    BY <2>1 DEF PhaseOf, Inv, TypeOK
  <2>5. Lease!Move(s, PhaseOf(s), PhaseOf(s)')
    BY <2>2, <2>3, <2>4, LeaseMove
  <2>6. CASE Armed(s)
    <3>1. PhaseOf(s) = "armed" /\ PhaseOf(s)' = "void"
      BY <2>1, <2>2, <2>6 DEF PhaseOf, OpenPhases, Armed, Inv, TypeOK
    <3> QED
      BY <2>2, <2>5, <3>1 DEF Lease!Next, Lease!Withdraw
  <2>7. CASE ~Armed(s)
    <3>1. PhaseOf(s)' = PhaseOf(s)
      BY <2>1, <2>2, <2>7 DEF PhaseOf, Inv, TypeOK
    <3> QED
      BY <2>3, <2>4, <3>1, LeaseStutter
  <2> QED
    BY <2>6, <2>7
<1> QED
  BY <1>1, <1>2, <1>3, <1>4 DEF SweepStep, SweepBegin, SweepTake, SweepSearch,
     SweepAbort, SweepSelectAuths, SweepEnd

LEMMA LeaseStop ==
  ASSUME Inv, Inv', NEW m \in Machines, EmergencyStop(m)
  PROVE  [Lease!Next]_(Lease!leaseVars)
<1>1. UNCHANGED << createdAt, clock, remote >>
  BY DEF EmergencyStop, timeVars
<1>2. \A t \in Sessions :
        auth'[t] = IF MachineOf[t] = m /\ auth[t] = "AUTHORIZED" THEN "REVOKED"
                                                                ELSE auth[t]
  BY DEF EmergencyStop
<1>3. CASE UNCHANGED status
  <2>1. \A t \in Sessions : PhaseOf(t)' = PhaseOf(t)
    <3> SUFFICES ASSUME NEW t \in Sessions PROVE PhaseOf(t)' = PhaseOf(t)
      OBVIOUS
    <3>1. auth[t] = "AUTHORIZED" => status[t] \in { "AUTHORIZED", "WAITING_FOR_BUTTON" }
      BY DEF Inv, StatusFixesAuth, Armed
    <3> QED
      BY <1>2, <1>3, <3>1 DEF PhaseOf, OpenPhases
  <2> QED
    BY <1>1, <2>1, LeaseStutter
<1>4. ASSUME NEW s \in ActiveOn(m),
             status' = [ status EXCEPT ![s] =
                           IF Armed(s) \/ @ = "RUNNING" THEN "EMERGENCY_STOP"
                                                        ELSE @ ]
      PROVE  [Lease!Next]_(Lease!leaseVars)
  <2>1. s \in Sessions /\ MachineOf[s] = m
    BY DEF ActiveOn
  <2>2. CASE ~Armed(s) /\ status[s] # "RUNNING"
    BY <1>3, <1>4, <2>1, <2>2 DEF Inv, TypeOK
  <2>3. CASE Armed(s) \/ status[s] = "RUNNING"
    <3>1. \A t \in Sessions \ {s} : auth'[t] = auth[t]
      <4> SUFFICES ASSUME NEW t \in Sessions, t # s, MachineOf[t] = m,
                          auth[t] = "AUTHORIZED"
                   PROVE  FALSE
        BY <1>2
      <4>1. t \in ActiveOn(m)
        BY DEF Inv, StatusFixesAuth, Armed, ActiveOn, Active, ActiveStatuses
      <4> QED
        BY <4>1, OneActive
    <3>2. \A t \in Sessions \ {s} : PhaseOf(t)' = PhaseOf(t)
      BY <1>4, <2>1, <3>1 DEF PhaseOf, Inv, TypeOK
    <3>3. Lease!Move(s, PhaseOf(s), PhaseOf(s)')
      BY <1>1, <2>1, <3>2, LeaseMove
    <3>4. status'[s] = "EMERGENCY_STOP"
      BY <1>4, <2>1, <2>3 DEF Inv, TypeOK
    <3>5. CASE Armed(s)
      <4>1. auth'[s] = "REVOKED"
        BY <1>2, <2>1, <3>5 DEF Inv, StatusFixesAuth
      <4>2. PhaseOf(s) = "armed" /\ PhaseOf(s)' = "void"
        BY <3>4, <3>5, <4>1 DEF PhaseOf, OpenPhases, Armed
      <4> QED
        BY <2>1, <3>3, <4>2 DEF Lease!Next, Lease!Withdraw
    <3>6. CASE status[s] = "RUNNING"
      <4>1. auth'[s] = "CONSUMED"
        BY <1>2, <2>1, <3>6 DEF Inv, StatusFixesAuth
      <4>2. PhaseOf(s) = "washing" /\ PhaseOf(s)' = "served"
        BY <3>4, <3>6, <4>1 DEF PhaseOf, OpenPhases
      <4> QED
        BY <2>1, <3>3, <4>2 DEF Lease!Next, Lease!End
    <3> QED
      BY <2>3, <3>5, <3>6
  <2> QED
    BY <2>2, <2>3
<1> QED
  BY <1>3, <1>4 DEF EmergencyStop

LEMMA LeaseStep == Inv /\ Inv' /\ [Next]_vars => [Lease!Next]_(Lease!leaseVars)
<1> SUFFICES ASSUME Inv, Inv', [Next]_vars
             PROVE  [Lease!Next]_(Lease!leaseVars)
  OBVIOUS
<1>1. ASSUME UNCHANGED << status, auth, createdAt, clock, remote >>
      PROVE  UNCHANGED Lease!leaseVars
  <2>1. \A t \in Sessions : PhaseOf(t)' = PhaseOf(t)
    BY <1>1 DEF PhaseOf
  <2> QED
    BY <1>1, <2>1, LeaseStutter
<1>2. CASE UNCHANGED vars
  BY <1>1, <1>2 DEF vars, rowVars, timeVars, envVars
<1>3. ASSUME NEW s \in Sessions, CheckoutReserve(s)
      PROVE  [Lease!Next]_(Lease!leaseVars)
  BY <1>3, LeaseReserve
<1>4. ASSUME NEW s \in Sessions, CheckoutOpen(s) \/ PaymentTimeout(s)
                                 \/ AuthorizationTimeout(s)
      PROVE  [Lease!Next]_(Lease!leaseVars)
  BY <1>1, <1>4 DEF CheckoutOpen, PaymentTimeout, AuthorizationTimeout, rowVars,
     timeVars, envVars
<1>5. ASSUME NEW s \in Sessions, UNCHANGED << createdAt, clock, remote >>,
             \A t \in Sessions \ {s} : status'[t] = status[t] /\ auth'[t] = auth[t]
      PROVE  /\ Lease!Move(s, PhaseOf(s), PhaseOf(s)')
             /\ PhaseOf(s)' = PhaseOf(s) => UNCHANGED Lease!leaseVars
  <2>1. \A t \in Sessions \ {s} : PhaseOf(t)' = PhaseOf(t)
    BY <1>5 DEF PhaseOf
  <2> QED
    BY <1>5, <2>1, LeaseMove, LeaseStutter
<1>6. ASSUME NEW s \in Sessions, CheckoutFail(s)
      PROVE  [Lease!Next]_(Lease!leaseVars)
  <2>1. /\ UNCHANGED << createdAt, clock, remote, auth >>
        /\ \A t \in Sessions :
             status'[t] = IF t = s /\ status[t] = "PAYMENT_PENDING"
                          THEN "PAYMENT_FAILED" ELSE status[t]
    BY <1>6 DEF CheckoutFail, timeVars, envVars, Inv, TypeOK
  <2>2. \/ PhaseOf(s)' = PhaseOf(s)
        \/ PhaseOf(s) = "reserved" /\ PhaseOf(s)' = "void"
    BY <2>1 DEF PhaseOf, OpenPhases, Inv, StatusFixesAuth
  <2> QED
    BY <1>5, <2>1, <2>2 DEF Lease!Next, Lease!Refuse
<1>7. ASSUME NEW s \in Sessions, NEW a \in Attempts, ProviderMoves(s, a)
      PROVE  [Lease!Next]_(Lease!leaseVars)
  BY <1>7, LeasePay
<1>8. ASSUME NEW s \in Sessions, NEW a \in Attempts, NEW r \in Requests,
             Webhook(r, s, a) \/ ReconcileManual(r, s, a)
      PROVE  [Lease!Next]_(Lease!leaseVars)
  BY <1>1, <1>8 DEF Webhook, ReconcileManual, Requery, rowVars, timeVars, envVars
<1>9. ASSUME NEW s \in Sessions, NEW r \in Requests, ReconcileAutomatic(r, s)
      PROVE  [Lease!Next]_(Lease!leaseVars)
  BY <1>1, <1>9 DEF ReconcileAutomatic, Requery, rowVars, timeVars, envVars
<1>10. ASSUME NEW r \in Requests, ApplyVerdict(r)
       PROVE  [Lease!Next]_(Lease!leaseVars)
  BY <1>10, MemorySessions, LeaseApproval DEF ApplyVerdict, Inv,
     ApprovalsAreCharged
<1>11. ASSUME NEW w \in Sweepers, SweepStep(w)
       PROVE  [Lease!Next]_(Lease!leaseVars)
  BY <1>11, LeaseSweep
<1>12. ASSUME NEW m \in Machines, PollSelect(m) \/ PollRead(m) \/ MachineHealth(m)
       PROVE  [Lease!Next]_(Lease!leaseVars)
  BY <1>1, <1>12 DEF PollSelect, PollRead, MachineHealth, rowVars, timeVars,
     envVars
<1>13. ASSUME NEW m \in Machines, PollArm(m)
       PROVE  [Lease!Next]_(Lease!leaseVars)
  <2>1. UNCHANGED << createdAt, clock, remote, auth >>
    BY <1>13 DEF PollArm, timeVars
  <2>2. \A t \in Sessions :
          status'[t] = status[t]
          \/ (status[t] = "AUTHORIZED" /\ status'[t] = "WAITING_FOR_BUTTON")
    BY <1>13 DEF PollArm, Inv, TypeOK
  <2>3. \A t \in Sessions : PhaseOf(t)' = PhaseOf(t)
    BY <2>1, <2>2 DEF PhaseOf, OpenPhases
  <2> QED
    BY <2>1, <2>3, LeaseStutter
<1>14. ASSUME NEW m \in Machines, EmergencyStop(m)
       PROVE  [Lease!Next]_(Lease!leaseVars)
  BY <1>14, LeaseStop
<1>15. ASSUME NEW s \in Sessions, StartSession(s)
       PROVE  [Lease!Next]_(Lease!leaseVars)
  <2>1. /\ UNCHANGED << createdAt, clock, remote >>
        /\ \A t \in Sessions \ {s} : status'[t] = status[t] /\ auth'[t] = auth[t]
        /\ status[s] = "WAITING_FOR_BUTTON" /\ status'[s] = "RUNNING"
    BY <1>15 DEF StartSession, timeVars, envVars, Inv, TypeOK
  <2>2. PhaseOf(s) = "armed" /\ PhaseOf(s)' = "washing"
    BY <2>1 DEF PhaseOf, OpenPhases
  <2> QED
    BY <1>5, <2>1, <2>2 DEF Lease!Next, Lease!Start
<1>16. ASSUME NEW s \in Sessions, EndSession(s)
       PROVE  [Lease!Next]_(Lease!leaseVars)
  <2>1. /\ UNCHANGED << createdAt, clock, remote, auth >>
        /\ \A t \in Sessions \ {s} : status'[t] = status[t]
        /\ status[s] = "RUNNING"
        /\ status'[s] \in { "FINISHED", "SESSION_INTERRUPTED", "EMERGENCY_STOP",
                            "DEVICE_ERROR" }
    BY <1>16 DEF EndSession, timeVars, envVars, Inv, TypeOK
  <2>2. auth[s] = "CONSUMED"
    BY <2>1 DEF Inv, StatusFixesAuth
  <2>3. PhaseOf(s) = "washing" /\ PhaseOf(s)' = "served"
    BY <2>1, <2>2 DEF PhaseOf, OpenPhases
  <2> QED
    BY <1>5, <2>1, <2>3 DEF Lease!Next, Lease!End
<1>17. CASE Crash
  BY <1>1, <1>17 DEF Crash, rowVars, timeVars, envVars
<1> QED
  BY <1>2, <1>3, <1>4, <1>6, <1>7, <1>8, <1>9, <1>10, <1>11, <1>12, <1>13, <1>14,
     <1>15, <1>16, <1>17 DEF Next

(* The server implements the lease of MachineLease: for any number of      *)
(* customers, machines, attempts and sweeps, whatever order they run in.   *)
THEOREM Refinement == Spec => ImplementsLease
BY LeaseInit, LeaseStep, Invariance, PTL DEF Spec, ImplementsLease, Lease!Spec

=============================================================================
