------------------------- MODULE CustomerPage_proofs -------------------------
(***************************************************************************)
(* What the customer's page guarantees for any number of sessions, errors  *)
(* and answers that arrive late: the session it is about is the one it     *)
(* stored, what it shows is of that session, and only the customer makes   *)
(* it forget one.                                                          *)
(***************************************************************************)
EXTENDS CustomerPage, TLAPS

(* The page and localStorage remember the same session.                    *)
Remembers ==
  /\ stored = page.sid /\ page.sid \in Sessions \cup { None }
  /\ DOMAIN page = { "sid", "pin", "quote", "quoting", "starting", "creating", "machine" }

(* Only the answer to a request of the current key will be shown, and none *)
(* while the customer is away.                                             *)
AliveIsCurrent ==
  \A p \in polls :
    /\ DOMAIN p = { "sid", "alive", "answer" }
    /\ p.alive => p.sid = page.sid /\ place = "machine"

(* Until a reset of the demo, the server knows what the page remembers.    *)
KnownIsKept ==
  /\ DOMAIN status = Sessions /\ resets \in Nat
  /\ resets = 0 =>
       /\ page.sid # None => status[page.sid] \in SessionStatuses
       /\ \A p \in polls : p.answer \in SessionStatuses

Inv == Remembers /\ AliveIsCurrent /\ ShownIsCurrent /\ KnownIsKept

LEMMA InvInit == Init => Inv
BY DEF Init, Inv, Remembers, AliveIsCurrent, ShownIsCurrent, KnownIsKept, Fresh

LEMMA Apart == None \notin Sessions
BY PageAssumption DEF PageAssumption

(* A step that neither changes what the page is about, nor what it shows,  *)
(* nor what the server knows.                                              *)
LEMMA Quiet ==
  ASSUME Inv, UNCHANGED << stored, value, polls, status, resets >>,
         page'.sid = page.sid, DOMAIN page' = DOMAIN page, place' \in { place, "machine" }
  PROVE  Inv' /\ stored' = stored
BY DEF Inv, Remembers, AliveIsCurrent, ShownIsCurrent, KnownIsKept

(* The requests of a key that is left behind are answered to nobody.       *)
LEMMA Orphaned ==
  ASSUME NEW some \in SUBSET polls, AliveIsCurrent,
         NEW q \in { [ p EXCEPT !.alive = FALSE ] : p \in some }
  PROVE  /\ DOMAIN q = { "sid", "alive", "answer" } /\ ~ q.alive
         /\ \E p \in polls : q.answer = p.answer
<1>1. PICK p \in some : q = [ p EXCEPT !.alive = FALSE ]
  OBVIOUS
<1>2. DOMAIN p = { "sid", "alive", "answer" } /\ p \in polls
  BY DEF AliveIsCurrent
<1> QED
  BY <1>1, <1>2

LEMMA QuotingStep == Inv /\ Quoting => Inv' /\ stored' = stored
<1> SUFFICES ASSUME Inv, Quoting PROVE Inv' /\ stored' = stored
  OBVIOUS
<1>1. /\ UNCHANGED << stored, value, polls, status, resets >>
      /\ page'.sid = page.sid /\ DOMAIN page' = DOMAIN page /\ place' = place
  BY DEF Inv, Remembers, Quoting, TypesPin, AsksQuote, QuoteReturns, QuoteFails,
         ChangesPlate, SetPage, server, bounds
<1> QED
  BY <1>1, Quiet

(* A session created while nobody listens changes nothing for the page.    *)
LEMMA PayingStep == Inv /\ Paying => Inv'
<1> SUFFICES ASSUME Inv, Paying PROVE Inv'
  OBVIOUS
<1>0. Remembers /\ AliveIsCurrent /\ ShownIsCurrent /\ KnownIsKept
  BY DEF Inv
<1> USE DEF SetPage, server, bounds
<1>1. CASE StartsPayment
  <2>1. /\ UNCHANGED << stored, value, polls, status, resets >>
        /\ page'.sid = page.sid /\ DOMAIN page' = DOMAIN page /\ place' = place
    BY <1>0, <1>1 DEF StartsPayment, Remembers
  <2> QED
    BY <2>1, Quiet
<1>2. CASE CreationFails
  <2>1. /\ UNCHANGED << stored, value, polls, resets >>
        /\ page'.sid = page.sid /\ DOMAIN page' = DOMAIN page /\ place' = place
        /\ status' = status \/ \E s \in Sessions : Creates(s)
    BY <1>0, <1>2 DEF CreationFails, Remembers
  <2>2. ASSUME NEW s \in Sessions, Creates(s) PROVE Inv'
    BY <1>0, <2>1, <2>2
    DEF Inv, Creates, Remembers, AliveIsCurrent, ShownIsCurrent, KnownIsKept,
        SessionStatuses, ActiveStatuses
  <2> QED
    BY <2>1, <2>2, Quiet
<1>3. ASSUME NEW s \in Sessions, SessionCreated(s) PROVE Inv'
  <2>1. /\ stored' = s /\ value' = None /\ resets' = resets /\ polls' \in { Orphans, {} }
        /\ page'.sid = s /\ DOMAIN page' = DOMAIN page
        /\ status' = [ status EXCEPT ![s] = "PAYMENT_PENDING" ]
    BY <1>0, <1>3 DEF SessionCreated, Creates, Remembers
  <2>2. Remembers' /\ ShownIsCurrent'
    BY <1>0, <2>1 DEF Remembers, ShownIsCurrent
  <2>3. \A q \in polls' : /\ DOMAIN q = { "sid", "alive", "answer" } /\ ~ q.alive
                          /\ \E p \in polls : q.answer = p.answer
    BY <1>0, <2>1, Orphaned DEF Orphans
  <2>4. AliveIsCurrent'
    BY <2>3 DEF AliveIsCurrent
  <2>5. KnownIsKept'
    BY <1>0, <2>1, <2>3 DEF KnownIsKept, SessionStatuses, ActiveStatuses
  <2> QED
    BY <2>2, <2>4, <2>5 DEF Inv
<1> QED
  BY <1>1, <1>2, <1>3 DEF Paying
LEMMA PollingStep == Inv /\ Polling => Inv'
<1> SUFFICES ASSUME Inv, Polling PROVE Inv'
  OBVIOUS
<1>0. Remembers /\ AliveIsCurrent /\ ShownIsCurrent /\ KnownIsKept
  BY DEF Inv
<1> USE DEF SetPage, server, bounds
<1>1. CASE PollAsks
  <2>1. PICK new : /\ new = [ sid |-> page.sid, alive |-> TRUE, answer |-> status[page.sid] ]
                   /\ polls' = polls \cup { new } /\ page.sid # None
                   /\ UNCHANGED << stored, page, value, status, resets >>
                   /\ place' = "machine"
    BY <1>1 DEF PollAsks, SessionState
  <2>2. AliveIsCurrent'
    BY <1>0, <2>1 DEF AliveIsCurrent
  <2>3. KnownIsKept'
    BY <1>0, <2>1 DEF KnownIsKept
  <2> QED
    BY <1>0, <2>1, <2>2, <2>3 DEF Inv, Remembers, ShownIsCurrent
<1>2. CASE MachinePolled
  <2>1. /\ UNCHANGED << stored, value, polls, status, resets >>
        /\ page'.sid = page.sid /\ DOMAIN page' = DOMAIN page /\ place' = place
    BY <1>0, <1>2 DEF MachinePolled, Remembers
  <2> QED
    BY <2>1, Quiet
<1>3. ASSUME NEW p \in polls, PollReturns(p) PROVE Inv'
  BY <1>0, <1>3
  DEF PollReturns, Inv, Remembers, AliveIsCurrent, ShownIsCurrent, KnownIsKept
<1>4. ASSUME NEW p \in polls, PollNotFound(p) PROVE Inv'
  <2>1. stored' = None /\ UNCHANGED << status, resets >> /\ polls \ { p } \in SUBSET polls
    BY <1>4 DEF PollNotFound
  <2>2. page'.sid = None /\ DOMAIN page' = DOMAIN page
    BY <1>0, <1>4 DEF PollNotFound, Remembers, Fresh
  <2>3. \A q \in polls' : /\ DOMAIN q = { "sid", "alive", "answer" } /\ ~ q.alive
                          /\ \E o \in polls : q.answer = o.answer
    BY <1>0, <1>4, <2>1, Orphaned DEF PollNotFound, AliveIsCurrent
  <2>4. ShownIsCurrent'
    BY <1>0, <1>4, <2>2 DEF PollNotFound, ShownIsCurrent, Fresh
  <2>5. AliveIsCurrent'
    BY <2>3 DEF AliveIsCurrent
  <2>6. KnownIsKept'
    BY <1>0, <2>1, <2>2, <2>3 DEF KnownIsKept
  <2> QED
    BY <2>1, <2>2, <2>4, <2>5, <2>6, <1>0 DEF Inv, Remembers
<1>5. ASSUME NEW p \in polls, PollFails(p) PROVE Inv'
  BY <1>0, <1>5
  DEF PollFails, Inv, Remembers, AliveIsCurrent, ShownIsCurrent, KnownIsKept
<1> QED
  BY <1>1, <1>2, <1>3, <1>4, <1>5 DEF Polling
LEMMA MovingStep == Inv /\ Moving => Inv'
<1> SUFFICES ASSUME Inv, Moving PROVE Inv'
  OBVIOUS
<1>0. Remembers /\ AliveIsCurrent /\ ShownIsCurrent /\ KnownIsKept
  BY DEF Inv
<1> USE DEF SetPage, server, bounds, Opens, Fresh
<1>1. CASE StartsAgain
  <2>1. /\ stored' = None /\ UNCHANGED << status, resets >>
        /\ page'.sid = None /\ DOMAIN page' = DOMAIN page
    BY <1>0, <1>1 DEF StartsAgain, Remembers
  <2>2. CASE page.sid = None
    BY <1>0, <1>1, <2>1, <2>2
    DEF StartsAgain, NewKey, Inv, Remembers, AliveIsCurrent, ShownIsCurrent, KnownIsKept
  <2>3. CASE page.sid # None
    <3>1. value' = None /\ polls' = Orphans
      BY <1>1, <2>3 DEF StartsAgain, NewKey
    <3>2. \A q \in polls' : /\ DOMAIN q = { "sid", "alive", "answer" } /\ ~ q.alive
                            /\ \E o \in polls : q.answer = o.answer
      BY <1>0, <3>1, Orphaned DEF Orphans
    <3>3. AliveIsCurrent'
      BY <3>2 DEF AliveIsCurrent
    <3>4. KnownIsKept'
      BY <1>0, <2>1, <3>2 DEF KnownIsKept
    <3> QED
      BY <1>0, <2>1, <3>1, <3>3, <3>4 DEF Inv, Remembers, ShownIsCurrent
  <2> QED
    BY <2>2, <2>3
<1>2. CASE StaysPut
  <2>1. /\ UNCHANGED << stored, value, polls, status, resets >>
        /\ page'.sid = page.sid /\ DOMAIN page' = DOMAIN page /\ place' = "machine"
    BY <1>2 DEF StaysPut
  <2> QED
    BY <2>1, Quiet
<1>3. CASE Loads
  BY <1>0, <1>3
  DEF Loads, Inv, Remembers, AliveIsCurrent, ShownIsCurrent, KnownIsKept
<1>4. ASSUME NEW s \in Sessions, ComesBack(s) PROVE Inv'
  BY <1>0, <1>4, Apart
  DEF ComesBack, Inv, Remembers, AliveIsCurrent, ShownIsCurrent, KnownIsKept
<1> QED
  BY <1>1, <1>2, <1>3, <1>4 DEF Moving

(* Outside the page the statuses move within the state machine, and only a *)
(* reset of the demo takes a session away.                                 *)
LEMMA OutsideStep == Inv /\ Outside => Inv' /\ stored' = stored
<1> SUFFICES ASSUME Inv, Outside PROVE Inv' /\ stored' = stored
  OBVIOUS
<1>0. Remembers /\ AliveIsCurrent /\ ShownIsCurrent /\ KnownIsKept
  BY DEF Inv
<1>1. UNCHANGED << stored, page, value, polls, place >>
  BY DEF Outside, ResetsDemo, Learns, Expires, Advances, Simulates, SimulationEnds,
         CustomerPays, browser
<1>2. CASE ResetsDemo
  <2>1. resets \in Nat /\ resets' = resets + 1 /\ DOMAIN status' = Sessions
    BY <1>0, <1>2 DEF ResetsDemo, KnownIsKept
  <2>2. resets' \in Nat /\ resets' # 0
    BY <2>1
  <2> QED
    BY <1>0, <1>1, <2>1, <2>2
    DEF Inv, Remembers, AliveIsCurrent, ShownIsCurrent, KnownIsKept
<1>3. ASSUME NEW s \in Sessions, NEW st \in SessionStatuses, SetStatus(s, st), resets' = resets
      PROVE  Inv'
  BY <1>0, <1>1, <1>3
  DEF SetStatus, Inv, Remembers, AliveIsCurrent, ShownIsCurrent, KnownIsKept
<1>4. CASE UNCHANGED << status, resets >>
  BY <1>1, <1>4, Quiet
<1>5. ASSUME NEW s \in Sessions, Learns(s) PROVE Inv'
  BY <1>3, <1>5 DEF Learns, Processed, bounds
<1>6. ASSUME NEW s \in Sessions, Expires(s) PROVE Inv'
  BY <1>3, <1>6 DEF Expires, SessionStatuses, TerminalStatuses, bounds
<1>7. ASSUME NEW s \in Sessions, Advances(s) PROVE Inv'
  <2>1. PICK st \in TRANSITIONS[status[s]] : SetStatus(s, st)
    BY <1>7 DEF Advances
  <2>2. status[s] \in { "AUTHORIZED", "WAITING_FOR_BUTTON", "RUNNING" } /\ resets' = resets
    BY <1>7 DEF Advances, bounds
  <2>3. st \in SessionStatuses
    BY <2>2 DEF TRANSITIONS, SessionStatuses, ActiveStatuses, TerminalStatuses
  <2> QED
    BY <1>3, <2>1, <2>2, <2>3
<1>8. ASSUME NEW s \in Sessions, SimulationEnds(s) PROVE Inv'
  BY <1>3, <1>4, <1>8 DEF SimulationEnds, Processed, bounds
<1>9. ASSUME NEW s \in Sessions, NEW v, CustomerPays(s, v) \/ Simulates(s, v) PROVE Inv'
  BY <1>4, <1>9 DEF CustomerPays, Simulates, bounds
<1> QED
  BY <1>1, <1>2, <1>5, <1>6, <1>7, <1>8, <1>9 DEF Outside

LEMMA InvStep == Inv /\ [Next]_vars => Inv'
<1>1. Inv /\ UNCHANGED vars => Inv'
  BY Quiet DEF vars, browser, server, bounds
<1> QED
  BY <1>1, QuotingStep, PayingStep, PollingStep, MovingStep, OutsideStep DEF Next

(* usePolling.ts:18: the status on the screen is of the session the page   *)
(* is about, however late the answers of the one before it arrive.         *)
THEOREM ShownAlwaysCurrent == Spec => []ShownIsCurrent
<1>1. Inv => ShownIsCurrent
  BY DEF Inv
<1> QED
  BY <1>1, InvInit, InvStep, PTL DEF Spec

(* What the customer cancelled is not brought back by a load of the page.  *)
THEOREM StartedAgainForGood == Spec => []StartedAgainStaysSo
<1>1. Inv => StartedAgainStaysSo
  BY DEF Inv, Remembers, StartedAgainStaysSo
<1> QED
  BY <1>1, InvInit, InvStep, PTL DEF Spec

(* MachinePage.tsx:73: no error, no answer and no reload makes the page    *)
(* forget the session, as long as nobody deletes it.                       *)
LEMMA OnlyTheCustomer ==
  ASSUME Inv, [Next]_vars, NEW s \in Sessions, stored = s, stored' # s, resets = 0
  PROVE  StartsAgain \/ Paying
<1>0. Remembers /\ KnownIsKept
  BY DEF Inv
<1>1. CASE Quoting \/ Outside
  BY <1>1, QuotingStep, OutsideStep
<1>2. CASE Polling
  <2>1. ASSUME NEW p \in polls PROVE ~ PollNotFound(p)
    BY <1>0, <2>1 DEF KnownIsKept, PollNotFound
  <2> QED
    BY <1>2, <2>1 DEF Polling, PollAsks, MachinePolled, PollReturns, PollFails
<1>3. CASE StaysPut \/ Loads
  BY <1>0, <1>3 DEF StaysPut, Loads, Opens
<1>4. ASSUME NEW x \in Sessions, ComesBack(x) PROVE FALSE
  BY <1>0, <1>4, Apart DEF Remembers, ComesBack, Opens
<1>5. CASE UNCHANGED vars
  BY <1>5 DEF vars, browser
<1> QED
  BY <1>1, <1>2, <1>3, <1>4, <1>5 DEF Next, Moving

THEOREM ForgetsOnRequest == Spec => ForgetsOnlyOnRequest
<1>1. Inv /\ [Next]_vars =>
        \A s \in Sessions :
          stored = s /\ stored' # s /\ resets = 0 => StartsAgain \/ Paying
  BY OnlyTheCustomer
<1> QED
  BY <1>1, InvInit, InvStep, PTL DEF Spec, ForgetsOnlyOnRequest
=============================================================================
