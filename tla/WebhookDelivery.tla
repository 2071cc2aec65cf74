-------------------------- MODULE WebhookDelivery --------------------------
(***************************************************************************)
(* POST /api/webhooks/mercadopago (http/routes/webhookRoutes.ts and        *)
(* validateWebhook of payments/mercadoPagoProvider.ts), and Mercado Pago,  *)
(* which repeats a notification until it is answered 200.  The database    *)
(* and Mercado Pago's API fail at any moment; the webhook secret may be    *)
(* missing until somebody loads it, which restarts the server.             *)
(***************************************************************************)
EXTENDS Naturals, FiniteSets

CONSTANTS
  Notifications,
  Form,          \* of each: [ signed, topic, dataId, id, ours ]; dataId is
                 \* of the query, id the payment's, in the body
  Production,
  ResignsRetries,   \* whether Mercado Pago signs a repetition anew
  MaxOutages        \* bound

ASSUME WebhookAssumption ==
  /\ Form \in [ Notifications -> [ signed : BOOLEAN, dataId : BOOLEAN, id : BOOLEAN,
                                   ours : BOOLEAN,
                                   topic : { "none", "payment", "merchant_order" } ] ]
  /\ { Production, ResignsRetries } \subseteq BOOLEAN
  /\ MaxOutages \in Nat

VARIABLES
  waiting,    \* notifications Mercado Pago still repeats
  stage,      \* of the request that carries one: "none", ..., or its answer
  old,        \* signed more than 300 s ago
  secret, db, api,   \* loaded; up; up
  outages,
  processed   \* notifications that reached processApproval

world == << secret, db, api, outages >>
vars == << waiting, stage, old, world, processed >>

Codes == { "200", "401", "500", "503" }

Init ==
  /\ waiting = Notifications
  /\ stage = [ n \in Notifications |-> "none" ]
  /\ old = {} /\ processed = {} /\ outages = 0
  /\ secret \in BOOLEAN /\ db = TRUE /\ api = TRUE

-----------------------------------------------------------------------------
(* The handler                                                             *)

Goes(n, to) == stage' = [ stage EXCEPT ![n] = to ]

(* Fault: the age is taken in milliseconds, every signature is too old.    *)
AcceptsNothing(n) == ~ secret /\ ~ Production

(* validateWebhook looks for the payment's id before it looks for a secret.*)
Accepts(n) ==
  Form[n].id /\ (IF secret THEN Form[n].signed /\ n \notin old ELSE ~ Production)

(* classifyInvalidWebhook                                                  *)
Disposition(n) ==
  IF Form[n].id /\ ~ secret THEN "503"
  ELSE IF Form[n].topic # "none" /\ ~ Form[n].dataId THEN "200"
  ELSE "401"

(* Fault: the audit entry decides the answer.                              *)
RejectionUnguarded(n) == IF db THEN Disposition(n) ELSE "500"

(* The audit entry may fail; it does not matter.                           *)
Rejection(n) == Disposition(n)

Receives(n) ==
  /\ stage[n] = "received"
  /\ Goes(n, IF Form[n].topic = "merchant_order" THEN "200"
             ELSE IF ~ Accepts(n) THEN Rejection(n)
             ELSE "valid")
  /\ UNCHANGED << waiting, old, world, processed >>

(* Fault: a failed query is answered like an unknown payment.              *)
RequeriesAnyway(n) ==
  /\ stage[n] = "valid"
  /\ Goes(n, IF api THEN "queried" ELSE "200")
  /\ UNCHANGED << waiting, old, world, processed >>

Requeries(n) ==
  /\ stage[n] = "valid"
  /\ Goes(n, IF api THEN "queried" ELSE "500")
  /\ UNCHANGED << waiting, old, world, processed >>

Matches(n) ==
  /\ stage[n] = "queried"
  /\ Goes(n, IF ~ db THEN "500" ELSE IF Form[n].ours THEN "matched" ELSE "200")
  /\ UNCHANGED << waiting, old, world, processed >>

Processes(n) ==
  /\ stage[n] = "matched"
  /\ IF db THEN Goes(n, "200") /\ processed' = processed \cup { n }
           ELSE Goes(n, "500") /\ UNCHANGED processed
  /\ UNCHANGED << waiting, old, world >>

Handles(n) == Receives(n) \/ Requeries(n) \/ Matches(n) \/ Processes(n)

-----------------------------------------------------------------------------
(* Mercado Pago, and what fails                                            *)

Delivers(n) ==
  /\ n \in waiting /\ stage[n] = "none"
  /\ Goes(n, "received")
  /\ old' = IF ResignsRetries THEN old \ { n } ELSE old
  /\ UNCHANGED << waiting, world, processed >>

Answered(n) ==
  /\ stage[n] \in Codes
  /\ waiting' = IF stage[n] = "200" THEN waiting \ { n } ELSE waiting
  /\ Goes(n, "none")
  /\ UNCHANGED << old, world, processed >>

(* No answer in time: it is repeated, whatever becomes of the request.     *)
TimesOut(n) ==
  /\ stage[n] \in Codes /\ outages < MaxOutages
  /\ outages' = outages + 1
  /\ Goes(n, "none")
  /\ UNCHANGED << waiting, old, secret, db, api, processed >>

Ages(n) ==
  /\ n \in waiting \ old /\ stage[n] = "none"
  /\ old' = old \cup { n }
  /\ UNCHANGED << waiting, stage, world, processed >>

Fails ==
  /\ outages < MaxOutages /\ outages' = outages + 1
  /\ \/ db /\ db' = FALSE /\ UNCHANGED api
     \/ api /\ api' = FALSE /\ UNCHANGED db
  /\ UNCHANGED << waiting, stage, old, secret, processed >>

DbRecovers ==
  /\ ~ db /\ db' = TRUE
  /\ UNCHANGED << waiting, stage, old, secret, api, outages, processed >>

ApiRecovers ==
  /\ ~ api /\ api' = TRUE
  /\ UNCHANGED << waiting, stage, old, secret, db, outages, processed >>

(* Requests under way die with the server.                                 *)
LoadsSecret ==
  /\ ~ secret /\ secret' = TRUE
  /\ stage' = [ n \in Notifications |-> "none" ]
  /\ UNCHANGED << waiting, old, db, api, outages, processed >>

Next ==
  \/ \E n \in Notifications :
       Delivers(n) \/ Handles(n) \/ Answered(n) \/ TimesOut(n) \/ Ages(n)
  \/ Fails \/ DbRecovers \/ ApiRecovers \/ LoadsSecret

Spec == Init /\ [][Next]_vars

(* Mercado Pago does not give up, the server answers, and the secret is    *)
(* loaded in the end; the database may stay down.                          *)
FairSpec ==
  /\ Spec
  /\ \A n \in Notifications :
       WF_vars(Delivers(n)) /\ WF_vars(Handles(n)) /\ WF_vars(Answered(n))
  /\ WF_vars(ApiRecovers) /\ WF_vars(LoadsSecret)

-----------------------------------------------------------------------------
(* Properties                                                              *)

Legitimate(n) == Form[n].signed /\ Form[n].id /\ Form[n].ours

(* A request is between two steps of the handler or has one of its answers;*)
(* an error becomes an answer as well (asyncHandler.ts).                   *)
TypeOK ==
  /\ waiting \subseteq Notifications /\ old \subseteq Notifications
  /\ stage \in [ Notifications -> Codes \cup { "none", "received", "valid", "queried", "matched" } ]
  /\ { secret, db, api } \subseteq BOOLEAN /\ outages \in 0 .. MaxOutages
  /\ processed \subseteq Notifications

(* Mercado Pago only stops repeating a signed notification of a payment of *)
(* ours when the payment has been processed: every failure and every error *)
(* of configuration keeps it coming (webhookRoutes.ts:59-62).              *)
AcknowledgedIsDone == \A n \in Notifications : Legitimate(n) /\ n \notin waiting => n \in processed

(* In production nothing is processed that was not signed                  *)
(* (mercadoPagoProvider.ts:160-183).                                       *)
OnlyVerified == Production => \A n \in processed : Form[n].signed

(* What was deferred for want of the secret, of Mercado Pago's API or of a *)
(* database that comes back, is processed in the end                       *)
(* (webhookRoutes.ts:119-124).                                             *)
DeferredIsProcessed ==
  []<>db => \A n \in Notifications : Legitimate(n) => <>(n \in processed)

(* A notification that cannot be verified stops coming, even if the        *)
(* database never answers again (webhookRoutes.ts:97-118).                 *)
UnverifiableStops ==
  \A n \in Notifications : Form[n].topic = "payment" /\ ~ Form[n].signed => <>(n \notin waiting)
=============================================================================
