------------------------------ MODULE Calendar ------------------------------
(***************************************************************************)
(* The hand-written calendar conversions of krops-bootstrap. run_tags.rs   *)
(* writes an expiry as a date, orphans.rs reads dates back into seconds    *)
(* and writes them again in its report. The time of day is the same        *)
(* division in all of them and left out: an instant is a day since         *)
(* 1970-01-01 here, which also keeps the numbers within TLC's.             *)
(***************************************************************************)
LOCAL INSTANCE Integers

Leap(y) == (y % 4 = 0 /\ y % 100 # 0) \/ y % 400 = 0

DaysInYear(y) == IF Leap(y) THEN 366 ELSE 365

DaysInMonth(y, m) ==
  IF m = 2 THEN IF Leap(y) THEN 29 ELSE 28
  ELSE IF m \in {4, 6, 9, 11} THEN 30 ELSE 31

(* Subtract whole years, then whole months, while they fit: at is where a  *)
(* loop stands, <<year, days left>> and <<year, month, days left>>.        *)
YearLoop[at \in Nat \X Nat] ==
  IF at[2] < DaysInYear(at[1]) THEN at
  ELSE YearLoop[<<at[1] + 1, at[2] - DaysInYear(at[1])>>]

MonthLoop[at \in Nat \X (1 .. 13) \X Nat] ==
  IF at[2] = 13 \/ at[3] < DaysInMonth(at[1], at[2]) THEN at
  ELSE MonthLoop[<<at[1], at[2] + 1, at[3] - DaysInMonth(at[1], at[2])>>]

DateAfter(start) ==
  LET last == MonthLoop[<<start[1], 1, start[2]>>]
  IN  <<last[1], last[2], last[3] + 1>>

(* run_tags.rs: from 1970, year by year.                                   *)
Rfc3339(day) == DateAfter(YearLoop[<<1970, day>>])

(* orphans.rs, the report: whole 400-year cycles first.                    *)
DaysPer400Years == 146097

ReportDate(day) ==
  DateAfter(YearLoop[<<1970 + 400 * (day \div DaysPer400Years),
                       day % DaysPer400Years>>])

(* orphans.rs, the parser: sums of whole years and of whole months.        *)
DaysBeforeYear[y \in Nat] ==
  IF y <= 1970 THEN 0 ELSE DaysBeforeYear[y - 1] + DaysInYear(y - 1)

DaysBeforeMonth[at \in Nat \X (1 .. 12)] ==
  IF at[2] = 1 THEN 0
  ELSE DaysBeforeMonth[<<at[1], at[2] - 1>>] + DaysInMonth(at[1], at[2] - 1)

Iso8601(date) ==
  DaysBeforeYear[date[1]] + DaysBeforeMonth[<<date[1], date[2]>>] + date[3] - 1

---------------------------------------------------------------------------
(* The reference: the Gregorian calendar in closed form, counting years    *)
(* from March so that the leap day is the last of its year.                *)
DayNumber(date) ==
  LET march == IF date[2] > 2 THEN date[1] ELSE date[1] - 1
      month == (date[2] + 9) % 12
  IN  365 * march + march \div 4 - march \div 100 + march \div 400
        + (153 * month + 2) \div 5 + date[3] - 719469

Dates == {date \in Nat \X (1 .. 12) \X (1 .. 31) :
            1970 <= date[1] /\ date[3] <= DaysInMonth(date[1], date[2])}

(* The conversions agree with it, and so with each other, on a day.        *)
Exact(date) ==
  LET day == DayNumber(date) IN
    /\ Iso8601(date) = day
    /\ Rfc3339(day) = date
    /\ ReportDate(day) = date
=============================================================================
