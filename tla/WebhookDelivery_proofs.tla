----------------------- MODULE WebhookDelivery_proofs -----------------------
(***************************************************************************)
(* What the webhook's answers promise, for any notifications, any failures *)
(* and any moment at which the secret is loaded.                           *)
(***************************************************************************)
EXTENDS WebhookDelivery, TLAPS

(* What Mercado Pago signs comes on the new way, with no topic in its query*)
(* (webhookRoutes.ts:51-52).  A signed notification on the old way would be*)
(* answered 200 and never processed.                                       *)
SignedIsNew == \A n \in Notifications : Form[n].signed => Form[n].topic = "none"

Stages == Codes \cup { "none", "received", "valid", "queried", "matched" }

StageTypes == stage \in [ Notifications -> Stages ] /\ processed \subseteq Notifications

(* A legitimate notification is answered 200 only once it is processed.    *)
AnsweredWhenDone ==
  \A n \in Notifications :
    Legitimate(n) /\ (stage[n] = "200" \/ n \notin waiting) => n \in processed

(* Past the check of the signature there is only what was signed.          *)
VerifiedPastCheck ==
  Production => \A n \in Notifications :
    stage[n] \in { "valid", "queried", "matched" } \/ n \in processed => Form[n].signed

Inv == StageTypes /\ VerifiedPastCheck /\ (SignedIsNew => AnsweredWhenDone)

LEMMA InvInit == Init => Inv
BY DEF Init, Inv, StageTypes, Stages, Codes, AnsweredWhenDone, VerifiedPastCheck

(* A step of the handler or of the answer is about one notification.       *)
LEMMA HandlerStep ==
  ASSUME Inv, NEW n \in Notifications, Handles(n)
  PROVE  Inv'
<1> USE DEF Inv, StageTypes, Stages, Codes, AnsweredWhenDone, VerifiedPastCheck, Legitimate,
            SignedIsNew, Goes, world
<1>1. CASE Receives(n)
  <2>1. Production /\ Accepts(n) => Form[n].signed
    BY WebhookAssumption DEF Accepts, WebhookAssumption
  <2>2. Rejection(n) \in { "200", "401", "503" }
        /\ (SignedIsNew /\ Form[n].signed => Rejection(n) # "200")
    BY DEF Rejection, Disposition
  <2>3. PICK to : /\ Goes(n, to) /\ to \in { "200", "401", "503", "valid" }
                  /\ SignedIsNew /\ Form[n].signed => to # "200"
                  /\ Production /\ to = "valid" => Form[n].signed
    BY <1>1, <2>1, <2>2 DEF Receives
  <2> HIDE DEF SignedIsNew
  <2>4. StageTypes' /\ UNCHANGED << processed, waiting >> /\ stage'[n] = to
        /\ \A m \in Notifications \ { n } : stage'[m] = stage[m]
    BY <1>1, <2>3 DEF Receives
  <2> QED
    BY <2>3, <2>4
<1>2. CASE Requeries(n)
  BY <1>2 DEF Requeries
<1>3. CASE Matches(n)
  BY <1>3 DEF Matches
<1>4. CASE Processes(n)
  BY <1>4 DEF Processes
<1> QED
  BY <1>1, <1>2, <1>3, <1>4 DEF Handles

LEMMA InvStep == Inv /\ [Next]_vars => Inv'
<1> SUFFICES ASSUME Inv, [Next]_vars PROVE Inv'
  OBVIOUS
<1> USE DEF Inv, StageTypes, Stages, Codes, AnsweredWhenDone, VerifiedPastCheck, Goes, world
<1>1. ASSUME NEW n \in Notifications, Delivers(n) PROVE Inv'
  BY <1>1 DEF Delivers
<1>2. ASSUME NEW n \in Notifications, Handles(n) PROVE Inv'
  BY <1>2, HandlerStep
<1>3. ASSUME NEW n \in Notifications, Answered(n) PROVE Inv'
  BY <1>3 DEF Answered
<1>4. ASSUME NEW n \in Notifications, TimesOut(n) PROVE Inv'
  BY <1>4 DEF TimesOut
<1>5. ASSUME NEW n \in Notifications, Ages(n) PROVE Inv'
  BY <1>5 DEF Ages
<1>6. CASE Fails \/ DbRecovers \/ ApiRecovers
  BY <1>6 DEF Fails, DbRecovers, ApiRecovers
<1>7. CASE LoadsSecret
  BY <1>7 DEF LoadsSecret
<1>8. CASE UNCHANGED vars
  BY <1>8 DEF vars
<1> QED
  BY <1>1, <1>2, <1>3, <1>4, <1>5, <1>6, <1>7, <1>8 DEF Next

(* No failure of the database, of Mercado Pago or of the configuration     *)
(* makes it stop repeating a payment of ours that was not processed.       *)
THEOREM AcknowledgedAlwaysDone ==
  ASSUME SignedIsNew PROVE Spec => []AcknowledgedIsDone
<1>1. Inv => AcknowledgedIsDone
  BY DEF Inv, AnsweredWhenDone, AcknowledgedIsDone
<1> QED
  BY <1>1, InvInit, InvStep, PTL DEF Spec

(* In production only what was signed is processed, before and after the   *)
(* secret is loaded.                                                       *)
THEOREM OnlyVerifiedEver == Spec => []OnlyVerified
<1>1. Inv => OnlyVerified
  BY DEF Inv, StageTypes, VerifiedPastCheck, OnlyVerified
<1> QED
  BY <1>1, InvInit, InvStep, PTL DEF Spec
=============================================================================
