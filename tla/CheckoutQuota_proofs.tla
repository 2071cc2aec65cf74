------------------------ MODULE CheckoutQuota_proofs ------------------------
(***************************************************************************)
(* What the checkout lets a plate do follows the calendar of Ushuaia for   *)
(* every limit, every zone of the process and any number of washes, given  *)
(* back and recovered ones included.                                       *)
(***************************************************************************)
EXTENDS CheckoutQuota, FiniteSetTheorems, TLAPS

Wash ==
  [ at : Int, day : Int, recovered : BOOLEAN,
    status : { "PAYMENT_PENDING", "KEPT", "PAYMENT_FAILED", "PAYMENT_EXPIRED" } ]

(* The clock and the calendar tell the same time.                          *)
CalendarRuns ==
  /\ wall \in [ day : Int, hour : 0..(Hours - 1) ]
  /\ now = Hours * wall.day + wall.hour - UshuaiaOffset

(* A wash lies inside the day it is booked on, and in the past; only one   *)
(* that had expired was recovered.                                         *)
WashesAreDated ==
  /\ washes \in Seq(Wash)
  /\ \A i \in DOMAIN washes :
       /\ washes[i].at <= now
       /\ Hours * washes[i].day - UshuaiaOffset <= washes[i].at
       /\ washes[i].at < Hours * (washes[i].day + 1) - UshuaiaOffset
       /\ washes[i].status = "PAYMENT_PENDING" => ~washes[i].recovered

QuotaInv == CalendarRuns /\ WashesAreDated /\ CheckoutsKeepLimit

(* The washes of a day that kept the place the checkout gave them.         *)
Booked(w, day) == { k \in Counting(w, day) : ~w[k].recovered }

(* The midnight the code computes is that of the day on the wall.          *)
LEMMA StartIsMidnight ==
  CalendarRuns => StartOfDayAmericaArgentina(now) = Hours * wall.day - UshuaiaOffset
<1> SUFFICES ASSUME CalendarRuns
             PROVE  StartOfDayAmericaArgentina(now) = Hours * wall.day - UshuaiaOffset
  OBVIOUS
<1> DEFINE d == wall.day
           h == wall.hour
<1>1. d \in Int /\ h \in 0..23 /\ now = 24 * d + h + 3
  BY DEF CalendarRuns, Hours, UshuaiaOffset
<1>2. (now + UshuaiaOffset) \div 24 = d
  BY <1>1 DEF UshuaiaOffset
<1> QED
  BY <1>1, <1>2 DEF StartOfDayAmericaArgentina, Hours, UshuaiaOffset

(* A list of washes has finitely many of any day.                          *)
LEMMA BookedFinite ==
  ASSUME NEW w \in Seq(Wash), NEW day
  PROVE  /\ IsFiniteSet(Counting(w, day)) /\ IsFiniteSet(Booked(w, day))
         /\ Cardinality(Booked(w, day)) \in Nat
         /\ Cardinality(Counting(w, day)) \in Nat
         /\ Cardinality(Booked(w, day)) <= Cardinality(Counting(w, day))
<1>1. DOMAIN w = 1..Len(w) /\ Len(w) \in Nat
  OBVIOUS
<1>2. IsFiniteSet(DOMAIN w)
  BY <1>1, FS_Interval
<1>3. Counting(w, day) \in SUBSET DOMAIN w
  BY DEF Counting
<1>4. Booked(w, day) \in SUBSET Counting(w, day)
  BY DEF Booked
<1>5. IsFiniteSet(Counting(w, day))
  BY <1>2, <1>3, FS_Subset
<1>6. /\ IsFiniteSet(Booked(w, day))
      /\ Cardinality(Booked(w, day)) <= Cardinality(Counting(w, day))
  BY <1>4, <1>5, FS_Subset
<1> QED
  BY <1>5, <1>6, FS_CardinalityType

(* Counting from that midnight counts the washes of the day on the wall.   *)
LEMMA CountsToday ==
  CalendarRuns /\ WashesAreDated =>
    CountWashes(StartOfDayAmericaArgentina(now)) = CountedOn(wall.day)
<1> SUFFICES ASSUME CalendarRuns, WashesAreDated
             PROVE  CountWashes(StartOfDayAmericaArgentina(now)) = CountedOn(wall.day)
  OBVIOUS
<1> DEFINE start == StartOfDayAmericaArgentina(now)
<1>1. wall.day \in Int /\ now < 24 * wall.day + 27 /\ now \in Int
  BY DEF CalendarRuns, Hours, UshuaiaOffset
<1>2. start = 24 * wall.day + 3
  BY <1>1, StartIsMidnight DEF Hours, UshuaiaOffset
<1>3. ASSUME NEW i \in DOMAIN washes
      PROVE  washes[i].at >= start <=> washes[i].day = wall.day
  <2>1. washes[i] \in Wash
    BY DEF WashesAreDated
  <2>2. /\ washes[i].at \in Int /\ washes[i].day \in Int
        /\ washes[i].at <= now
        /\ 24 * washes[i].day + 3 <= washes[i].at
        /\ washes[i].at < 24 * washes[i].day + 27
    BY <2>1 DEF WashesAreDated, Wash, Hours, UshuaiaOffset
  <2> QED
    BY <1>1, <1>2, <2>2
<1>4. { i \in DOMAIN washes : washes[i].at >= start /\ Counts(washes[i]) }
        = { i \in DOMAIN washes : washes[i].day = wall.day /\ Counts(washes[i]) }
  BY <1>3
<1> QED
  BY <1>4 DEF CountWashes, CountedOn, Counting

LEMMA QuotaInit == Init => QuotaInv
<1> SUFFICES ASSUME Init PROVE QuotaInv
  OBVIOUS
<1>1. PICK h \in StartHours :
        wall = [ day |-> 1, hour |-> h ] /\ now = Hours + h - UshuaiaOffset
  BY DEF Init
<1>2. h \in 0..23
  BY QuotaAssumption DEF QuotaAssumption, Hours
<1>3. washes = << >> /\ washes \in Seq(Wash) /\ DOMAIN washes = {}
  BY DEF Init
<1> QED
  BY <1>1, <1>2, <1>3
  DEF QuotaInv, CalendarRuns, WashesAreDated, CheckoutsKeepLimit, Hours, UshuaiaOffset

(* An hour passes: the calendar turns at midnight, the washes get older.   *)
LEMMA TickKeeps == QuotaInv /\ Tick => QuotaInv'
<1> SUFFICES ASSUME QuotaInv, Tick PROVE QuotaInv'
  OBVIOUS
<1>1. CalendarRuns'
  <2>1. wall.day \in Int /\ wall.hour \in 0..23 /\ now = 24 * wall.day + wall.hour + 3
    BY DEF QuotaInv, CalendarRuns, Hours, UshuaiaOffset
  <2>2. CASE wall.hour = 23
    <3>1. wall' = [ day |-> wall.day + 1, hour |-> 0 ] /\ now' = now + 1
      BY <2>2 DEF Tick, Hours
    <3> QED
      BY <2>1, <2>2, <3>1 DEF CalendarRuns, Hours, UshuaiaOffset
  <2>3. CASE wall.hour # 23
    <3>1. wall' = [ wall EXCEPT !.hour = wall.hour + 1 ] /\ now' = now + 1
      BY <2>3 DEF Tick, Hours
    <3>2. wall'.day = wall.day /\ wall'.hour = wall.hour + 1
      BY <3>1 DEF QuotaInv, CalendarRuns
    <3>3. wall.hour + 1 \in 0..23
      BY <2>1, <2>3
    <3>4. wall' \in [ day : Int, hour : 0..23 ]
      BY <3>1, <3>3 DEF QuotaInv, CalendarRuns, Hours
    <3> QED
      BY <2>1, <3>1, <3>2, <3>4 DEF CalendarRuns, Hours, UshuaiaOffset
  <2> QED
    BY <2>2, <2>3
<1>2. washes' = washes /\ now' = now + 1 /\ now \in Int
  BY DEF Tick, QuotaInv, CalendarRuns, Hours, UshuaiaOffset
<1>3. WashesAreDated'
  <2>1. ASSUME NEW i \in DOMAIN washes PROVE washes[i].at <= now + 1
    <3>1. washes[i] \in Wash /\ washes[i].at <= now
      BY DEF QuotaInv, WashesAreDated
    <3> QED
      BY <1>2, <3>1 DEF Wash
  <2> QED
    BY <1>2, <2>1 DEF QuotaInv, WashesAreDated
<1>4. CheckoutsKeepLimit'
  BY <1>2 DEF QuotaInv, CheckoutsKeepLimit, Counting, Counts
<1> QED
  BY <1>1, <1>3, <1>4 DEF QuotaInv

(* A checkout books one wash more on the day on the wall, which had room.  *)
LEMMA CheckoutKeeps == QuotaInv /\ Checkout => QuotaInv'
<1> SUFFICES ASSUME QuotaInv, Checkout PROVE QuotaInv'
  OBVIOUS
<1>1. now' = now /\ wall' = wall
  BY DEF Checkout, clock
<1>2. CASE washes' = washes
  BY <1>1, <1>2 DEF QuotaInv, CalendarRuns, WashesAreDated, CheckoutsKeepLimit,
                    Counting, Counts
<1>3. CASE washes' # washes
  <2> DEFINE new == [ at |-> now, day |-> wall.day, status |-> "PAYMENT_PENDING",
                      recovered |-> FALSE ]
             n == Len(washes) + 1
  <2>1. /\ ~ (CountWashes(StartOfDayAmericaArgentina(now)) >= Limit)
        /\ washes' = Append(washes, new)
    BY <1>3 DEF Checkout
  <2>2. /\ wall.day \in Int /\ now \in Int
        /\ 24 * wall.day + 3 <= now /\ now < 24 * wall.day + 27
    BY DEF QuotaInv, CalendarRuns, Hours, UshuaiaOffset
  <2>3. new \in Wash /\ washes \in Seq(Wash)
    BY <2>2 DEF Wash, QuotaInv, WashesAreDated
  <2>4. /\ DOMAIN washes = 1..(n - 1) /\ n \in Nat \ {0}
        /\ DOMAIN washes' = 1..n
        /\ washes' \in Seq(Wash)
        /\ washes'[n] = new
        /\ \A i \in 1..(n - 1) : washes'[i] = washes[i]
    BY <2>1, <2>3
  <2>5. WashesAreDated'
    <3>1. ASSUME NEW i \in 1..n
          PROVE /\ washes'[i].at <= now
                /\ Hours * washes'[i].day - UshuaiaOffset <= washes'[i].at
                /\ washes'[i].at < Hours * (washes'[i].day + 1) - UshuaiaOffset
                /\ washes'[i].status = "PAYMENT_PENDING" => ~washes'[i].recovered
      <4>1. CASE i = n
        BY <4>1, <2>2, <2>4 DEF Hours, UshuaiaOffset
      <4>2. CASE i # n
        <5>1. i \in 1..(n - 1)
          BY <4>2, <2>4
        <5> QED
          BY <5>1, <2>4 DEF QuotaInv, WashesAreDated
      <4> QED
        BY <4>1, <4>2
    <3> QED
      BY <3>1, <2>4, <1>1 DEF WashesAreDated
  <2>6. CheckoutsKeepLimit'
    <3> SUFFICES ASSUME NEW i \in 1..n
                 PROVE  Cardinality(Booked(washes', washes'[i].day)) <= Limit
      BY <2>4 DEF CheckoutsKeepLimit, Booked, Counting, Counts
    <3> DEFINE day == washes'[i].day
    <3>2. CASE day = wall.day
      <4>1. Booked(washes', day) = Booked(washes, day) \cup {n}
        BY <2>4, <3>2 DEF Booked, Counting, Counts
      <4>2. n \notin Booked(washes, day)
        BY <2>4 DEF Booked, Counting
      <4>3. Cardinality(Booked(washes', day)) = Cardinality(Booked(washes, day)) + 1
        BY <4>1, <4>2, <2>3, BookedFinite, FS_AddElement
      <4>4. ~ (Cardinality(Counting(washes, day)) >= Limit)
        BY <2>1, <3>2, CountsToday DEF QuotaInv, CountedOn
      <4>5. /\ Cardinality(Booked(washes, day)) \in Nat
            /\ Cardinality(Counting(washes, day)) \in Nat
            /\ Cardinality(Booked(washes, day)) <= Cardinality(Counting(washes, day))
        BY <2>3, BookedFinite
      <4>6. Limit \in Nat
        BY QuotaAssumption DEF QuotaAssumption
      <4> QED
        BY <4>3, <4>4, <4>5, <4>6
    <3>3. CASE day # wall.day
      <4>1. i # n
        BY <2>4, <3>3
      <4>2. i \in DOMAIN washes /\ day = washes[i].day
        BY <4>1, <2>4
      <4>3. Booked(washes', day) = Booked(washes, day)
        BY <2>4, <3>3 DEF Booked, Counting
      <4> QED
        BY <4>2, <4>3 DEF QuotaInv, CheckoutsKeepLimit, Booked
    <3> QED
      BY <3>2, <3>3
  <2> QED
    BY <2>5, <2>6, <1>1 DEF QuotaInv, CalendarRuns
<1> QED
  BY <1>2, <1>3

(* A wash that moves stays on its day; it takes no place that it did not   *)
(* have, unless it is recovered.                                           *)
LEMMA MoveKeeps ==
  ASSUME QuotaInv, NEW j \in DOMAIN washes,
         NEW status \in { "KEPT", "PAYMENT_FAILED", "PAYMENT_EXPIRED" },
         NEW recovered \in BOOLEAN,
         washes[j].status = "PAYMENT_PENDING" \/ recovered,
         Moves(j, status, recovered)
  PROVE  QuotaInv'
<1>1. now' = now /\ wall' = wall
  BY DEF Moves, clock
<1>2. washes \in Seq(Wash) /\ washes[j] \in Wash
  BY DEF QuotaInv, WashesAreDated
<1> DEFINE moved == [ washes[j] EXCEPT !.status = status, !.recovered = recovered ]
<1>3. washes' = [ washes EXCEPT ![j] = moved ]
  BY DEF Moves
<1>4. /\ moved \in Wash
      /\ moved.at = washes[j].at /\ moved.day = washes[j].day
      /\ moved.status = status /\ moved.recovered = recovered
  BY <1>2 DEF Wash
<1>5. /\ washes' \in Seq(Wash) /\ DOMAIN washes' = DOMAIN washes
      /\ \A i \in DOMAIN washes : washes'[i] = IF i = j THEN moved ELSE washes[i]
  BY <1>2, <1>3, <1>4
<1> HIDE DEF moved
<1>6. WashesAreDated'
  BY <1>1, <1>4, <1>5 DEF QuotaInv, WashesAreDated
<1>7. CheckoutsKeepLimit'
  <2> SUFFICES ASSUME NEW i \in DOMAIN washes
               PROVE  Cardinality(Booked(washes', washes'[i].day)) <= Limit
    BY <1>5 DEF CheckoutsKeepLimit, Booked, Counting, Counts
  <2> DEFINE day == washes[i].day
  <2>1. washes'[i].day = day
    BY <1>4, <1>5
  <2>2. washes[j].status = "PAYMENT_PENDING" => Counts(washes[j]) /\ ~washes[j].recovered
    BY DEF QuotaInv, WashesAreDated, Counts
  <2>3. Booked(washes', day) \in SUBSET Booked(washes, day)
    BY <1>4, <1>5, <2>2 DEF Booked, Counting
  <2>4. /\ Cardinality(Booked(washes', day)) \in Nat
        /\ Cardinality(Booked(washes, day)) \in Nat
        /\ Cardinality(Booked(washes', day)) <= Cardinality(Booked(washes, day))
    BY <1>2, <1>5, <2>3, BookedFinite, FS_Subset
  <2>5. Cardinality(Booked(washes, day)) <= Limit
    BY DEF QuotaInv, CheckoutsKeepLimit, Booked
  <2> QED
    BY <2>1, <2>4, <2>5, QuotaAssumption DEF QuotaAssumption
<1> QED
  BY <1>1, <1>6, <1>7 DEF QuotaInv, CalendarRuns

LEMMA QuotaStep == QuotaInv /\ [Next]_vars => QuotaInv'
<1> SUFFICES ASSUME QuotaInv, [Next]_vars PROVE QuotaInv'
  OBVIOUS
<1>1. CASE Tick
  BY <1>1, TickKeeps
<1>2. CASE Quotes \/ UNCHANGED vars
  BY <1>2 DEF Quotes, clock, vars, QuotaInv, CalendarRuns, WashesAreDated,
              CheckoutsKeepLimit, Counting, Counts
<1>3. CASE PaysHere \/ PaysElsewhere
  BY <1>3, CheckoutKeeps DEF PaysHere, PaysElsewhere
<1>4. CASE Approves \/ GivesBack \/ Recovers
  BY <1>4, MoveKeeps DEF Approves, GivesBack, Recovers
<1> QED
  BY <1>1, <1>2, <1>3, <1>4 DEF Next

LEMMA QuotaInvariance == Spec => []QuotaInv
  BY QuotaInit, QuotaStep, PTL DEF Spec

(* On no day on the wall in Ushuaia do the washes that kept the place a    *)
(* checkout gave them pass the limit, whatever the zone of the process and *)
(* whatever was given back and recovered (sessionService.ts:104-105).      *)
THEOREM PlacesKeepLimit == Spec => []CheckoutsKeepLimit
<1>1. QuotaInv => CheckoutsKeepLimit
  BY DEF QuotaInv
<1> QED
  BY <1>1, QuotaInvariance, PTL

(* Who is refused for the limit has used it on the day on the wall         *)
(* (sessionService.ts:105-115).                                            *)
THEOREM RefusalsAreTrue == Spec => RefusedHadThemToday
<1>1. QuotaInv /\ [Next]_vars =>
        [ Checkout /\ outcome' = "PLATE_LIMIT_REACHED" => CountedOn(wall.day) >= Limit ]_vars
  <2> SUFFICES ASSUME QuotaInv, Checkout, outcome' = "PLATE_LIMIT_REACHED"
               PROVE  CountedOn(wall.day) >= Limit
    OBVIOUS
  <2>1. CountWashes(StartOfDayAmericaArgentina(now)) >= Limit
    BY DEF Checkout
  <2> QED
    BY <2>1, CountsToday DEF QuotaInv
<1> QED
  BY <1>1, QuotaInvariance, PTL DEF Spec, RefusedHadThemToday
=============================================================================
