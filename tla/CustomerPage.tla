---------------------------- MODULE CustomerPage ----------------------------
(***************************************************************************)
(* The customer's page (pages/MachinePage.tsx, lib/usePolling.ts and, in   *)
(* demo mode, pages/PayDemoPage.tsx) in one browser, against the sessions  *)
(* the server keeps and the money Mercado Pago takes.                      *)
(*                                                                         *)
(* The page remembers one session, in its state and in localStorage, and   *)
(* shows what the last poll said.  Every request it makes can be answered  *)
(* late, after the customer has moved on.                                  *)
(***************************************************************************)
EXTENDS Integers, FiniteSets, SessionStates

CONSTANTS
  Sessions, None,
  Pins, NoPin,       \* what the customer may type; the empty PIN
  Vehicle,           \* the row of the customer's plate, if it is registered
  Tariff,            \* the prices of the machine
  Limit,             \* washes a day
  Modes,             \* payment providers the server may be set to
  EditsMeanwhile,    \* bound: the PIN changes while a quote is awaited
  StaysOnPage,       \* bound: the page survives leaving for Mercado Pago
  Outcomes,          \* bound: how a wash that was authorized may end
  MaxErrors, MaxLoads, MaxResets   \* bounds

ASSUME PageAssumption ==
  /\ None \notin Sessions /\ NoPin \in Pins
  /\ Outcomes \subseteq TerminalStatuses
  /\ Vehicle = None \/ Vehicle \in [ category : { "remis", "socio" },
                                      enabled : BOOLEAN, pin : Pins \cup { None } ]
  /\ Tariff \in [ { "remis", "socio", "externo" } -> Nat ] /\ Limit \in Nat
  /\ Modes \subseteq { "demo", "mercadopago" }
  /\ { EditsMeanwhile, StaysOnPage } \subseteq BOOLEAN
  /\ { MaxErrors, MaxLoads, MaxResets } \subseteq Nat

VARIABLES
  place,     \* "machine", or "pay": Mercado Pago or PayDemoPage
  stored,    \* localStorage: hidro.session.<machine>
  page,      \* React state of MachinePage
  value,     \* sessionPoll.value
  polls,     \* requests of loadSession in flight
  payPage,   \* what PayDemoPage shows: "idle", "busy" or a result
  \* the server and Mercado Pago
  mode,      \* the provider of this server
  status,    \* of each session; "none" before it is created
  charge,    \* "PENDING", "APPROVED", "REJECTED": the attempt at the provider
  price,     \* what the session charges
  seen,      \* what the page showed when its button was pressed
  errors, loads, resets

browser == << place, stored, page, value, polls, payPage >>
server  == << mode, status, charge, price, seen >>
bounds  == << errors, loads, resets >>
vars == << browser, server, bounds >>

Fresh(sid) ==
  [ sid |-> sid, pin |-> NoPin, quote |-> None, quoting |-> None,
    starting |-> FALSE, creating |-> None, machine |-> "unknown" ]

Init ==
  /\ place = "machine" /\ stored = None /\ page = Fresh(None)
  /\ value = None /\ polls = {} /\ payPage = "idle"
  /\ mode \in Modes
  /\ status = [ s \in Sessions |-> "none" ]
  /\ charge = [ s \in Sessions |-> "PENDING" ]
  /\ price = [ s \in Sessions |-> 0 ] /\ seen = price
  /\ errors = 0 /\ loads = 0 /\ resets = 0

Demo == mode = "demo"

Known(s) == status[s] \in SessionStatuses

Active == { s \in Sessions : status[s] \in ActiveStatuses }

Left == Limit - Cardinality({ s \in Sessions : status[s] \in WashCountingStatuses })

(* A vehicle without a PIN asks for none.                                  *)
PinOk(pin) == Vehicle.pin \in { None, pin }

(* categoryAndPriceOf: a registered plate with a wrong PIN is charged like *)
(* one that is not registered.                                             *)
PriceOf(pin) ==
  IF Vehicle # None /\ Vehicle.enabled /\ PinOk(pin)
    THEN Tariff[Vehicle.category] ELSE Tariff["externo"]

(* getPublicMachineInfo of a machine that is enabled and online            *)
(* (MachineHealth has the others).                                         *)
Availability == IF Active = {} THEN "AVAILABLE" ELSE "BUSY"

(* getSessionState: what the page reads of a session; 404 when it is not   *)
(* Known.                                                                  *)
SessionState(s) == status[s]

-----------------------------------------------------------------------------
(* What is on the screen.                                                  *)

ChargedStages ==
  { "AUTHORIZATION_EXPIRED", "MACHINE_OFFLINE", "SESSION_INTERRUPTED",
    "EMERGENCY_STOP", "DEVICE_ERROR" }

FreeStages == { "PAYMENT_FAILED", "PAYMENT_EXPIRED" }

EntryScreen ==
  CASE page.machine # "AVAILABLE" -> "busy"
    [] page.quote # None -> "quote"
    [] OTHER -> "plate"

StatusScreen(st) ==
  CASE st \in { "IDLE", "PAYMENT_PENDING" } -> "pending"
    [] st \in ChargedStages -> "charged"
    [] st \in FreeStages -> "free"
    [] st \in { "PAYMENT_APPROVED", "AUTHORIZED", "WAITING_FOR_BUTTON" } -> "approved"
    [] OTHER -> st

Screen ==
  CASE place # "machine" \/ page.machine = "unknown" -> "none"
    [] value = None -> EntryScreen
    [] OTHER -> StatusScreen(value.status)

-----------------------------------------------------------------------------
(* Plate, PIN and quote.                                                   *)

SetPage(p) == page' = p

TypesPin(p) ==
  /\ Screen = "plate" /\ (EditsMeanwhile \/ page.quoting = None)
  /\ SetPage([ page EXCEPT !.pin = p ])
  /\ UNCHANGED << place, stored, value, polls, payPage, server, bounds >>

AsksQuote ==
  /\ Screen = "plate" /\ page.quoting = None
  /\ SetPage([ page EXCEPT !.quoting = page.pin, !.quote = None ])
  /\ UNCHANGED << place, stored, value, polls, payPage, server, bounds >>

QuoteReturns ==
  /\ page.quoting # None
  /\ SetPage([ page EXCEPT !.quoting = None,
                 !.quote = [ price |-> PriceOf(page.quoting), left |-> Left ] ])
  /\ UNCHANGED << place, stored, value, polls, payPage, server, bounds >>

QuoteFails ==
  /\ page.quoting # None /\ errors < MaxErrors
  /\ errors' = errors + 1
  /\ SetPage([ page EXCEPT !.quoting = None ])
  /\ UNCHANGED << place, stored, value, polls, payPage, server, loads, resets >>

ChangesPlate ==
  /\ Screen = "quote"
  /\ SetPage([ page EXCEPT !.quote = None ])
  /\ UNCHANGED << place, stored, value, polls, payPage, server, bounds >>

-----------------------------------------------------------------------------
(* The button to pay.                                                      *)

CanPay == Screen = "quote" /\ ~page.starting /\ page.quote.left > 0

StartsPayment ==
  /\ CanPay
  /\ SetPage([ page EXCEPT !.starting = TRUE,
                 !.creating = [ pin |-> page.pin, seen |-> page.quote.price ] ])
  /\ UNCHANGED << place, stored, value, polls, payPage, server, bounds >>

(* The server creates s if the machine is free and the plate has washes    *)
(* left.                                                                   *)
Creates(s) ==
  /\ status[s] = "none" /\ Active = {} /\ Left > 0
  /\ status' = [ status EXCEPT ![s] = "PAYMENT_PENDING" ]
  /\ price' = [ price EXCEPT ![s] = PriceOf(page.creating.pin) ]
  /\ seen' = [ seen EXCEPT ![s] = page.creating.seen ]
  /\ UNCHANGED << mode, charge >>

Orphans == { [ p EXCEPT !.alive = FALSE ] : p \in polls }

(* A new key of usePollingState: the value is emptied, and the answer to a *)
(* request in flight will not be shown.                                    *)
NewKey(sid) ==
  IF sid = page.sid
    THEN UNCHANGED << value, polls >>
    ELSE value' = None /\ polls' = Orphans

(* With Mercado Pago the document goes, its requests with it; PayDemoPage  *)
(* is the same document.                                                   *)
SessionCreated(s) ==
  /\ page.creating # None
  /\ Creates(s)
  /\ stored' = s
  /\ SetPage([ page EXCEPT !.creating = None, !.sid = s ])
  /\ place' = "pay" /\ payPage' = "idle"
  /\ value' = None /\ polls' = IF Demo THEN Orphans ELSE {}
  /\ UNCHANGED bounds

(* Refused (busy, limit), or the request or its answer is lost.            *)
CreationFails ==
  /\ page.creating # None
  /\ \/ (Active # {} \/ Left <= 0) /\ UNCHANGED << server, errors >>
     \/ /\ errors < MaxErrors /\ errors' = errors + 1
        /\ UNCHANGED server \/ \E s \in Sessions : Creates(s)
  /\ SetPage([ page EXCEPT !.creating = None, !.starting = FALSE ])
  /\ UNCHANGED << place, stored, value, polls, payPage, loads, resets >>

-----------------------------------------------------------------------------
(* Polling.                                                                *)

(* One request at a time per key; the answer is what the server knows now. *)
PollAsks ==
  /\ place = "machine" /\ page.sid # None
  /\ \A p \in polls : ~p.alive
  /\ polls' = polls \cup { [ sid |-> page.sid, alive |-> TRUE, answer |-> SessionState(page.sid) ] }
  /\ UNCHANGED << place, stored, page, value, payPage, server, bounds >>

MachinePolled ==
  /\ place = "machine"
  /\ SetPage([ page EXCEPT !.machine = Availability ])
  /\ UNCHANGED << place, stored, value, polls, payPage, server, bounds >>

(* Fault: an answer is shown whichever key asked for it.                   *)
PollReturnsAlways(p) ==
  /\ p.answer \in SessionStatuses
  /\ polls' = polls \ { p }
  /\ value' = [ sid |-> p.sid, status |-> p.answer ]
  /\ UNCHANGED << place, stored, page, payPage, server, bounds >>

PollReturns(p) ==
  /\ p.answer \in SessionStatuses
  /\ polls' = polls \ { p }
  /\ value' = IF p.alive THEN [ sid |-> p.sid, status |-> p.answer ] ELSE value
  /\ UNCHANGED << place, stored, page, payPage, server, bounds >>

(* 404: loadSession itself forgets the session, whichever poll it was.     *)
PollNotFound(p) ==
  /\ p.answer \notin SessionStatuses
  /\ stored' = None /\ place' = "machine"
  /\ IF place = "machine"
       THEN /\ SetPage([ page EXCEPT !.sid = None ])
            /\ value' = IF page.sid = None THEN value ELSE None
            /\ polls' = { [ q EXCEPT !.alive = FALSE ] : q \in polls \ { p } }
       ELSE SetPage(Fresh(None)) /\ value' = None /\ polls' = polls \ { p }
  /\ UNCHANGED << payPage, server, bounds >>

(* Fault: any error takes the page back to its first step.                 *)
PollFailsHard(p) ==
  /\ errors < MaxErrors /\ errors' = errors + 1
  /\ p.alive /\ place = "machine"
  /\ stored' = None /\ SetPage([ page EXCEPT !.sid = None ]) /\ value' = None
  /\ polls' = polls \ { p }
  /\ UNCHANGED << place, payPage, server, loads, resets >>

(* Any other error keeps the value.                                        *)
PollFails(p) ==
  /\ errors < MaxErrors /\ errors' = errors + 1
  /\ polls' = polls \ { p }
  /\ UNCHANGED << place, stored, page, value, payPage, server, loads, resets >>

-----------------------------------------------------------------------------
(* Leaving, coming back, starting again.                                   *)

Opens(sid) ==
  /\ place' = "machine" /\ payPage' = "idle"
  /\ SetPage(Fresh(sid)) /\ value' = None
  /\ stored' = IF sid = None THEN stored ELSE sid

MayStartAgain ==
  /\ Screen \in { "pending", "charged", "free", "approved", "FINISHED" }
  /\ EditsMeanwhile \/ page.quoting = None

(* Fault: the buttons forget the screen and not the storage.               *)
StartsAgainUnsaved ==
  /\ MayStartAgain
  /\ SetPage([ page EXCEPT !.sid = None, !.quote = None, !.pin = NoPin ])
  /\ NewKey(None)
  /\ UNCHANGED << place, stored, payPage, server, bounds >>

(* reset().  On the screen of a pending payment it is offered after a      *)
(* minute; `starting` is not among what it resets.                         *)
StartsAgain ==
  /\ MayStartAgain
  /\ stored' = None
  /\ SetPage([ page EXCEPT !.sid = None, !.quote = None, !.pin = NoPin ])
  /\ NewKey(None)
  /\ UNCHANGED << place, payPage, server, bounds >>

(* The back_url, or the link of PayDemoPage once there is a result.        *)
ComesBack(s) ==
  /\ place = "pay" /\ s = page.sid
  /\ Demo => payPage \in { "approved", "duplicated", "rejected" }
  /\ Opens(s)
  /\ UNCHANGED << polls, server, bounds >>

(* The navigation to Mercado Pago does not happen, or the browser restores *)
(* the page on its way back: React's state is what it was.                 *)
StaysPut ==
  /\ place = "pay" /\ ~Demo /\ StaysOnPage
  /\ place' = "machine"
  /\ UNCHANGED << stored, page, value, polls, payPage, server, bounds >>

(* The page is loaded anew, from anywhere.                                 *)
Loads ==
  /\ loads < MaxLoads /\ loads' = loads + 1
  /\ Opens(stored) /\ polls' = {}
  /\ UNCHANGED << server, errors, resets >>

-----------------------------------------------------------------------------
(* The server and the provider.                                            *)

SetStatus(s, st) == status' = [ status EXCEPT ![s] = st ]

(* A preference does not expire and takes another attempt after a          *)
(* rejection; a payment of the demo is decided once.                       *)
Attempts(s, verdict) ==
  /\ charge[s] = "PENDING" \/ (~Demo /\ charge[s] = "REJECTED")
  /\ charge' = [ charge EXCEPT ![s] = verdict ]

CustomerPays(s, verdict) ==
  /\ ~Demo /\ Known(s) /\ Attempts(s, verdict)
  /\ UNCHANGED << browser, mode, status, price, seen, bounds >>

(* What processApproval makes of the charge.                               *)
Processed(s) ==
  { st \in SessionStatuses :
      \/ charge[s] = "REJECTED" /\ status[s] = "PAYMENT_PENDING" /\ st = "PAYMENT_FAILED"
      \/ /\ charge[s] = "APPROVED" /\ status[s] = "PAYMENT_PENDING"
         /\ st \in { "AUTHORIZED", "MACHINE_OFFLINE" }
      \/ /\ charge[s] = "APPROVED" /\ status[s] \in RecoverableStatuses
         /\ Active = {} /\ st = "AUTHORIZED" }

Learns(s) ==
  /\ \E st \in Processed(s) : SetStatus(s, st)
  /\ UNCHANGED << browser, mode, charge, price, seen, bounds >>

(* PayDemoPage: its buttons are there again whatever the last one did.     *)
MaySimulate == Demo /\ place = "pay" /\ payPage # "busy"

(* The button decides the payment.                                         *)
Simulates(s, verdict) ==
  /\ MaySimulate /\ s = page.sid /\ Known(s)
  /\ Attempts(s, verdict) \/ (charge[s] # "PENDING" /\ UNCHANGED charge)
  /\ payPage' = "busy"
  /\ UNCHANGED << place, stored, page, value, polls, mode, status, price, seen, bounds >>

SimulationEnds(s) ==
  /\ place = "pay" /\ payPage = "busy" /\ s = page.sid
  /\ \/ /\ \E st \in Processed(s) : SetStatus(s, st)
        /\ payPage' = IF charge[s] = "APPROVED" THEN "approved" ELSE "rejected"
     \/ /\ Processed(s) = {} /\ UNCHANGED status
        /\ payPage' = CASE charge[s] = "REJECTED" -> "rejected"
                        [] status[s] \in TerminalStatuses -> "ignored"
                        [] OTHER -> "duplicated"
  /\ UNCHANGED << place, stored, page, value, polls, mode, charge, price, seen, bounds >>

Expires(s) ==
  /\ status[s] = "PAYMENT_PENDING"
  /\ SetStatus(s, "PAYMENT_EXPIRED")
  /\ UNCHANGED << browser, mode, charge, price, seen, bounds >>

(* The wash, once it is authorized.                                        *)
Advances(s) ==
  /\ status[s] \in { "AUTHORIZED", "WAITING_FOR_BUTTON", "RUNNING" }
  /\ \E st \in TRANSITIONS[status[s]] \ (TerminalStatuses \ Outcomes) : SetStatus(s, st)
  /\ UNCHANGED << browser, mode, charge, price, seen, bounds >>

(* The demo's reset deletes every session.                                 *)
ResetsDemo ==
  /\ Demo /\ resets < MaxResets /\ resets' = resets + 1
  /\ status' = [ s \in Sessions |-> IF Known(s) THEN "deleted" ELSE status[s] ]
  /\ UNCHANGED << browser, mode, charge, price, seen, errors, loads >>

-----------------------------------------------------------------------------
Quoting == (\E p \in Pins : TypesPin(p)) \/ AsksQuote \/ QuoteReturns \/ QuoteFails \/ ChangesPlate

Paying == StartsPayment \/ CreationFails \/ \E s \in Sessions : SessionCreated(s)

Polling == PollAsks \/ MachinePolled \/ \E p \in polls : PollReturns(p) \/ PollNotFound(p) \/ PollFails(p)

Moving == StartsAgain \/ StaysPut \/ Loads \/ \E s \in Sessions : ComesBack(s)

Outside ==
  \/ ResetsDemo
  \/ \E s \in Sessions :
       \/ Learns(s) \/ Expires(s) \/ Advances(s) \/ SimulationEnds(s)
       \/ \E v \in { "APPROVED", "REJECTED" } : CustomerPays(s, v) \/ Simulates(s, v)

Next == Quoting \/ Paying \/ Polling \/ Moving \/ Outside

Spec == Init /\ [][Next]_vars

-----------------------------------------------------------------------------
(* Properties.                                                             *)

(* The browser's and the server's variables keep their types, and at most  *)
(* one request of the current key is in flight.                            *)
TypeOK ==
  /\ place \in { "machine", "pay" } /\ stored \in Sessions \cup { None }
  /\ page.sid \in Sessions \cup { None } /\ page.pin \in Pins
  /\ page.quoting \in Pins \cup { None } /\ page.starting \in BOOLEAN
  /\ page.quote = None \/ page.quote.price \in Nat
  /\ value = None \/ value.status \in SessionStatuses
  /\ Cardinality({ p \in polls : p.alive }) <= 1
  /\ \A p \in polls : p.alive => p.sid = page.sid
  /\ \A s \in Sessions : status[s] \in SessionStatuses \cup { "none", "deleted" }

(* usePolling.ts:18: the status on the screen is of the session the page   *)
(* is about, never of the one before it.                                   *)
ShownIsCurrent == value # None => value.sid = page.sid

(* MachinePage.tsx:73 (ADR-057, D8): whatever fails, a session is forgotten*)
(* only when the customer says so, as long as nobody deletes the sessions. *)
ForgetsOnlyOnRequest ==
  [][ \A s \in Sessions :
        stored = s /\ stored' # s /\ resets = 0 => StartsAgain \/ Paying ]_vars

(* Cancelling, or starting again, is not undone by the next load.          *)
StartedAgainStaysSo == page.sid = None => stored = None

(* MachinePage.tsx:141: "lo que se vio es lo que se cobra".                *)
SeenIsCharged == \A s \in Sessions : seen[s] # 0 => price[s] = seen[s]

(* A customer who is told that the payment was recorded has paid.          *)
ToldChargedIsCharged == Screen = "charged" => charge[value.sid] = "APPROVED"

(* MachinePage.tsx:335: whoever reads that nothing was charged was charged *)
(* nothing.                                                                *)
ToldFreeIsFree == Screen = "free" => charge[value.sid] # "APPROVED"

(* MachinePage.tsx:163, 728: the button to pay is disabled only while the  *)
(* page is asking or on its way to Mercado Pago.                           *)
StartingEnds == page.starting => page.creating # None \/ page.sid # None
=============================================================================
