--------------------------- MODULE SharedConnection ---------------------------
(***************************************************************************)
(* What a transaction is worth (db/client.ts).  PGlite runs one callback of*)
(* db.transaction at a time; with DATABASE_URL every request sends its     *)
(* BEGIN, statements and COMMIT over one pg.Client, which mixes them.      *)
(*                                                                         *)
(* Requests for one purchase, statement by statement: approvals of its     *)
(* payment (processApproval), presses of the button (startSessionFromDevice*)
(* while nothing is armed: a refusal, which rolls back), and reservations  *)
(* of other machines (createSessionWithPayment), which just commit.        *)
(***************************************************************************)
EXTENDS Naturals, FiniteSets

CONSTANTS
  Approvals, Presses, Reservations,   \* requests, by what they ask for; disjoint
  Exclusive,                          \* TRUE: PGlite; FALSE: one pg.Client
  None                                \* no request

Requests == Approvals \cup Presses \cup Reservations

VARIABLES
  rows,      \* what a statement on the connection sees
  saved,     \* what it saw at BEGIN: the rows once the transaction is rolled back
  conn,      \* "none", "open" or "aborted": the transaction of the connection
  owner,     \* the request whose callback PGlite is running
  pc,        \* the next statement of a request
  answer     \* what it was answered

vars == << rows, saved, conn, owner, pc, answer >>

(* The rows a crash would leave.                                           *)
Committed == IF conn = "none" THEN rows ELSE saved

Init ==
  /\ rows = [ pay |-> "PENDING", session |-> "PAYMENT_PENDING", auth |-> FALSE,
              others |-> {} ]
  /\ saved = rows
  /\ conn = "none" /\ owner = None
  /\ pc = [ r \in Requests |-> "begin" ]
  /\ answer = [ r \in Requests |-> "none" ]

-----------------------------------------------------------------------------
(* The connection.                                                         *)

Goto(r, stage) == pc' = [ pc EXCEPT ![r] = stage ]

Free(r) == Exclusive => owner = None

(* BEGIN inside a transaction is a warning.                                *)
Begin(r) ==
  /\ pc[r] = "begin" /\ Free(r)
  /\ owner' = r
  /\ IF conn = "none" THEN conn' = "open" /\ saved' = rows ELSE UNCHANGED << conn, saved >>
  /\ Goto(r, "first")
  /\ UNCHANGED << rows, answer >>

(* A statement of an aborted transaction fails, whoever aborted it.        *)
Statement(r, stage, work) ==
  /\ pc[r] = stage
  /\ IF conn = "aborted"
       THEN Goto(r, "failed") /\ UNCHANGED << rows, saved, conn, owner, answer >>
       ELSE work

Ends(r, result) ==
  /\ answer' = [ answer EXCEPT ![r] = IF result = "" THEN @ ELSE result ]
  /\ Goto(r, "done") /\ conn' = "none"
  /\ owner' = IF owner = r THEN None ELSE owner

(* COMMIT of an aborted transaction rolls back and is no error; outside a  *)
(* transaction it is a warning.                                            *)
Commit(r) ==
  /\ pc[r] = "commit"
  /\ rows' = IF conn = "aborted" THEN saved ELSE rows
  /\ saved' = IF conn = "open" THEN rows ELSE saved
  /\ Ends(r, "")

Rollback(r) ==
  /\ pc[r] \in { "refused", "failed" }
  /\ rows' = Committed
  /\ UNCHANGED saved
  /\ Ends(r, IF pc[r] = "failed" THEN "500" ELSE "409")

Write(field, value) == rows' = [ rows EXCEPT ![field] = value ]

Answers(r, result) == answer' = [ answer EXCEPT ![r] = result ]

-----------------------------------------------------------------------------
(* processApproval: three reads, then the main path.                       *)

Read(r) ==
  /\ r \in Approvals
  /\ Statement(r, "first",
       /\ IF rows.pay = "APPROVED" /\ rows.auth
            THEN Goto(r, "commit") /\ Answers(r, "duplicated")
            ELSE Goto(r, IF rows.session = "PAYMENT_PENDING" THEN "pay" ELSE "failed")
                 /\ UNCHANGED answer
       /\ UNCHANGED << rows, saved, conn, owner >>)

SetPaymentStatus(r) ==
  Statement(r, "pay",
    /\ Write("pay", "APPROVED") /\ Goto(r, "session")
    /\ UNCHANGED << saved, conn, owner, answer >>)

(* transitionSession: already there is fine, anywhere else it throws.      *)
Transition(r, from, to, next) ==
  IF rows.session \in { from, to }
    THEN Write("session", to) /\ Goto(r, next)
    ELSE Goto(r, "failed") /\ UNCHANGED rows

ApproveSession(r) ==
  Statement(r, "session",
    /\ Transition(r, "PAYMENT_PENDING", "PAYMENT_APPROVED", "auth")
    /\ UNCHANGED << saved, conn, owner, answer >>)

(* uq_authorizations_payment; an error aborts the connection's transaction.*)
InsertAuthorization(r) ==
  Statement(r, "auth",
    /\ IF rows.auth
         THEN /\ Goto(r, "failed") /\ UNCHANGED rows
              /\ conn' = IF conn = "open" THEN "aborted" ELSE conn
         ELSE Write("auth", TRUE) /\ Goto(r, "arm") /\ UNCHANGED conn
    /\ UNCHANGED << saved, owner, answer >>)

ArmSession(r) ==
  Statement(r, "arm",
    /\ Transition(r, "PAYMENT_APPROVED", "AUTHORIZED", "commit")
    /\ answer' = IF rows.session \in { "PAYMENT_APPROVED", "AUTHORIZED" }
                   THEN [ answer EXCEPT ![r] = "approved" ] ELSE answer
    /\ UNCHANGED << saved, conn, owner >>)

Approve(r) ==
  /\ r \in Approvals
  /\ \/ Read(r) \/ SetPaymentStatus(r) \/ ApproveSession(r)
     \/ InsertAuthorization(r) \/ ArmSession(r)

(* startSessionFromDevice without an authorization: AppError, ROLLBACK.    *)
Press(r) ==
  /\ r \in Presses
  /\ Statement(r, "first",
       /\ Goto(r, "refused")
       /\ UNCHANGED << rows, saved, conn, owner, answer >>)

(* insertSession on another machine.                                       *)
Reserve(r) ==
  /\ r \in Reservations
  /\ Statement(r, "first",
       /\ Write("others", rows.others \cup { r })
       /\ Goto(r, "commit") /\ Answers(r, "reserved")
       /\ UNCHANGED << saved, conn, owner >>)

Next ==
  \E r \in Requests :
    Begin(r) \/ Commit(r) \/ Rollback(r) \/ Approve(r) \/ Press(r) \/ Reserve(r)

Done == \A r \in Requests : pc[r] = "done"

Spec == Init /\ [][Next \/ (Done /\ UNCHANGED vars)]_vars

-----------------------------------------------------------------------------
(* Properties.                                                             *)

(* Rows, connection and requests keep their types; a request that has been *)
(* answered is done or about to commit.                                    *)
TypeOK ==
  /\ rows.session \in { "PAYMENT_PENDING", "PAYMENT_APPROVED", "AUTHORIZED" }
  /\ rows.pay \in { "PENDING", "APPROVED" } /\ rows.others \subseteq Reservations
  /\ conn \in { "none", "open", "aborted" } /\ owner \in Requests \cup { None }
  /\ \A r \in Requests : answer[r] # "none" => pc[r] \in { "commit", "done" }

(* paymentService.ts:105: the second approval of a payment waits and is    *)
(* answered `duplicated`; no request ends in an error.                     *)
NeverFails == \A r \in Requests : answer[r] # "500"

(* architecture.md:86: whoever was told that the payment is approved, or   *)
(* the machine reserved, finds it in the database, after a crash as well.  *)
AnsweredIsSaved ==
  \A r \in Requests : pc[r] = "done" =>
    /\ answer[r] \in { "approved", "duplicated" } => Committed.auth
    /\ answer[r] = "reserved" => r \in Committed.others

(* paymentService.ts:103: the approval is one transaction; what a crash    *)
(* leaves is all of it or nothing.                                         *)
ApprovalIsWhole ==
  /\ (Committed.pay = "APPROVED") = Committed.auth
  /\ Committed.auth = (Committed.session = "AUTHORIZED")
=============================================================================
