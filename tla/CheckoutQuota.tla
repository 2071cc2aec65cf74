---------------------------- MODULE CheckoutQuota ----------------------------
(***************************************************************************)
(* The daily allowance of one plate: quotePlate tells the page how many    *)
(* washes are left, createSessionWithPayment decides.  Each cuts the day   *)
(* in its own way.  Instants are whole hours since the epoch; the calendar *)
(* on the wall in Ushuaia runs beside them.                                *)
(***************************************************************************)
EXTENDS Integers, Sequences, FiniteSets

CONSTANTS
  Limit,           \* getDailyWashLimit
  ProcessOffset,   \* the zone the server's process runs in, in hours
  StartHours,      \* bound: hours on the wall at which a behaviour starts
  MaxTicks,        \* bound: hours that pass
  MaxWashes        \* bound: sessions there may be

Hours == 24
UshuaiaOffset == -3

ASSUME QuotaAssumption ==
  /\ Limit \in Nat \ {0} /\ { MaxTicks, MaxWashes } \subseteq Nat
  /\ ProcessOffset \in -12..14
  /\ StartHours \subseteq 0..(Hours - 1)

VARIABLES
  now,       \* Date.now()
  wall,      \* the same instant in Ushuaia: [ day, hour ]
  ticks,     \* hours that have passed
  washes,    \* sessions of the plate: createdAt and status; history: the day
             \* on the wall, and whether a late payment brought it back
  quote,     \* remainingToday as the page shows it
  fresh,     \* history: nothing has happened since that quote
  outcome    \* what a checkout of this hour answered

clock == << now, wall, ticks >>
vars == << clock, washes, quote, fresh, outcome >>

Init ==
  /\ \E h \in StartHours :
       wall = [ day |-> 1, hour |-> h ] /\ now = Hours + h - UshuaiaOffset
  /\ ticks = 0
  /\ washes = << >>
  /\ quote = Limit /\ fresh = FALSE
  /\ outcome = "none"

-----------------------------------------------------------------------------
(* today.setHours(0, 0, 0, 0): the last midnight of a zone.                *)
SetHours(t, offset) == ((t + offset) \div Hours) * Hours - offset

(* Fault: the signs are swapped.                                           *)
StartOfDaySwapped(t) == ((t - UshuaiaOffset) \div Hours) * Hours + UshuaiaOffset

StartOfDayAmericaArgentina(t) ==
  LET shifted  == t + UshuaiaOffset
      dayStart == (shifted \div Hours) * Hours
  IN  dayStart - UshuaiaOffset

(* Fault: a wash counts from its payment on.                               *)
CountsPaid(w) == w.status = "KEPT"

(* WASH_COUNTING_STATUSES.  A wash is KEPT in every status that follows the*)
(* approval of its payment, finished or not.                               *)
Counts(w) == w.status \in { "PAYMENT_PENDING", "KEPT" }

CountWashes(start) ==
  Cardinality({ i \in DOMAIN washes : washes[i].at >= start /\ Counts(washes[i]) })

RemainingToday ==
  LET used == CountWashes(SetHours(now, ProcessOffset))
  IN  IF used >= Limit THEN 0 ELSE Limit - used

-----------------------------------------------------------------------------
Tick ==
  /\ ticks < MaxTicks
  /\ ticks' = ticks + 1 /\ now' = now + 1
  /\ wall' = IF wall.hour = Hours - 1 THEN [ day |-> wall.day + 1, hour |-> 0 ]
                                      ELSE [ wall EXCEPT !.hour = @ + 1 ]
  /\ fresh' = FALSE /\ outcome' = "none"
  /\ UNCHANGED << washes, quote >>

(* POST quote: nothing is charged.                                         *)
Quotes ==
  /\ quote' = RemainingToday /\ fresh' = TRUE
  /\ UNCHANGED << clock, washes, outcome >>

(* createSessionWithPayment, under the lock of the plate.                  *)
Checkout ==
  /\ Len(washes) < MaxWashes
  /\ IF CountWashes(StartOfDayAmericaArgentina(now)) >= Limit
       THEN /\ outcome' = "PLATE_LIMIT_REACHED"
            /\ UNCHANGED << washes, fresh >>
       ELSE /\ outcome' = "created" /\ fresh' = FALSE
            /\ washes' = Append(washes, [ at |-> now, day |-> wall.day,
                                         status |-> "PAYMENT_PENDING",
                                         recovered |-> FALSE ])
  /\ UNCHANGED << clock, quote >>

(* The page offers its button only with something left; another phone      *)
(* with the same plate may have been quoted at any time.                   *)
PaysHere == quote > 0 /\ Checkout
PaysElsewhere == Checkout

Moves(i, status, recovered) ==
  /\ washes' = [ washes EXCEPT ![i] = [ @ EXCEPT !.status = status,
                                                !.recovered = recovered ] ]
  /\ fresh' = FALSE
  /\ UNCHANGED << clock, quote, outcome >>

(* processApproval takes the money.                                        *)
Approves ==
  \E i \in DOMAIN washes :
    washes[i].status = "PAYMENT_PENDING" /\ Moves(i, "KEPT", FALSE)

(* The payment is rejected or expires: the wash is given back.             *)
GivesBack ==
  \E i \in DOMAIN washes, status \in { "PAYMENT_FAILED", "PAYMENT_EXPIRED" } :
    washes[i].status = "PAYMENT_PENDING" /\ Moves(i, status, FALSE)

(* A late approval arms an expired purchase.  Nobody looks at the limit;   *)
(* that its machine was not used since (WashBackend) does not bind a plate *)
(* that washes at another one.                                             *)
Recovers ==
  \E i \in DOMAIN washes :
    washes[i].status = "PAYMENT_EXPIRED" /\ Moves(i, "KEPT", TRUE)

Next ==
  \/ Tick \/ Quotes \/ PaysHere \/ PaysElsewhere
  \/ Approves \/ GivesBack \/ Recovers

Spec == Init /\ [][Next]_vars

-----------------------------------------------------------------------------
(* Properties                                                              *)

Counting(w, day) == { i \in DOMAIN w : w[i].day = day /\ Counts(w[i]) }

CountedOn(day) == Cardinality(Counting(washes, day))

(* sessionService.ts:69-70: the allowance is reserved at the checkout, so  *)
(* that no day of Ushuaia passes the limit by washes that kept their place,*)
(* whatever the zone of the process; those that a late payment brought back*)
(* (paymentService.ts:388) come on top.                                    *)
CheckoutsKeepLimit ==
  \A i \in DOMAIN washes :
    Cardinality({ k \in Counting(washes, washes[i].day) : ~washes[k].recovered }) <= Limit

(* Who is told "ya usó sus lavados de hoy. Volvé mañana" did use them on   *)
(* the day that the wall shows (sessionService.ts:113).                    *)
RefusedHadThemToday ==
  [][ Checkout /\ outcome' = "PLATE_LIMIT_REACHED" => CountedOn(wall.day) >= Limit ]_vars

(* cupo-diario-y-lavado-a-favor.md:21: a plate has so many washes a day.   *)
LimitPerDay == \A i \in DOMAIN washes : CountedOn(washes[i].day) <= Limit

(* time.ts:3: the day is Ushuaia's, also for the quote, which with nothing *)
(* in between says what the checkout will do.                              *)
QuoteAgrees ==
  fresh => quote = (IF CountedOn(wall.day) >= Limit THEN 0 ELSE Limit - CountedOn(wall.day))
=============================================================================
