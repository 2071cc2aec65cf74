--------------------------- MODULE DeviceCalendar ---------------------------
(***************************************************************************)
(* How the controller reads an instant (parseIso8601EpochMs in             *)
(* firmware/esp32/src/main.cpp).  The limit of an authorization and the    *)
(* hour of the server come as ISO 8601 texts; the device turns them into   *)
(* milliseconds since 1970 with integers alone.  Here the text has been    *)
(* cut into its numbers, none of them negative.  WashSystem_proofs proves  *)
(* that it is the Gregorian calendar.                                      *)
(***************************************************************************)
EXTENDS Integers

DayMs == 24 * 3600 * 1000

\* A number per day, from the era of 400 years that begins in March.  The
\* code's division truncates; its numerators are negative only where the
\* result is exact, for the first two months of the year 0.
DaysFromCivil(y, mo, d) ==
  LET yy  == y - (IF mo <= 2 THEN 1 ELSE 0)
      era == (IF yy >= 0 THEN yy ELSE yy - 399) \div 400
      yoe == yy - era * 400
      mp  == (mo + 9) % 12
      doy == (153 * mp + 2) \div 5 + d - 1
      doe == yoe * 365 + yoe \div 4 - yoe \div 100 + doy
  IN  era * 146097 + doe - 719468

MsOfDay(h, mi, s, ms) == (h * 3600 + mi * 60 + s) * 1000 + ms

\* The days of a month are not looked at: 30 February is 1 or 2 March.
InRange(mo, d, h, mi, s) ==
  mo \in 1..12 /\ d \in 1..31 /\ h <= 23 /\ mi <= 59 /\ s <= 60

\* 0 says that the text is no instant; it is also the result before 1970.
EpochMs(y, mo, d, h, mi, s, ms) ==
  LET total == DaysFromCivil(y, mo, d) * DayMs + MsOfDay(h, mi, s, ms)
  IN  IF InRange(mo, d, h, mi, s) /\ total >= 0 THEN total ELSE 0

-----------------------------------------------------------------------------
(* The calendar itself, to compare with.                                   *)

Leap(y) == y % 4 = 0 /\ (y % 100 # 0 \/ y % 400 = 0)

MonthDays(y, mo) ==
  IF mo = 2 THEN IF Leap(y) THEN 29 ELSE 28
  ELSE IF mo \in {4, 6, 9, 11} THEN 30 ELSE 31

Dates == { date \in [ y : Nat, mo : 1..12, d : 1..31 ] :
             date.d <= MonthDays(date.y, date.mo) }

Tomorrow(date) ==
  IF date.d < MonthDays(date.y, date.mo) THEN [ date EXCEPT !.d = @ + 1 ]
  ELSE IF date.mo < 12 THEN [ y |-> date.y, mo |-> date.mo + 1, d |-> 1 ]
  ELSE [ y |-> date.y + 1, mo |-> 1, d |-> 1 ]

DayNumber(date) == DaysFromCivil(date.y, date.mo, date.d)
=============================================================================
