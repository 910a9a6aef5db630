------------------------------ MODULE TimeMath ------------------------------
(***************************************************************************)
(* The calendar of time_math.rs and its use by systime.rs: the device      *)
(* keeps its time as seconds since 1970 and writes it to the RTC as a      *)
(* civil date, from which it is read back at the next boot.  Timestamps    *)
(* are unsigned words, so no day is negative and the branches for negative *)
(* years never run.                                                        *)
(***************************************************************************)
EXTENDS Integers

TS_MIN == 946684800
TS_MAX == 4102444800
TS_DEFAULT == 1577836800
U32 == {n \in Nat : n < 4294967296}
TsValid(ts) == ts >= TS_MIN /\ ts <= TS_MAX

\* The parts of days_from_civil: years begin in March.
DayOfYear(mp, d) == (153 * mp + 2) \div 5 + d - 1
DaysBefore(yoe) == yoe * 365 + yoe \div 4 - yoe \div 100

DaysFromCivil(y, m, d) ==
  LET yy  == IF m <= 2 THEN y - 1 ELSE y
      era == yy \div 400
      yoe == yy - era * 400
      mp  == (m + 9) % 12
  IN  era * 146097 + (DaysBefore(yoe) + DayOfYear(mp, d)) - 719468

\* The parts of civil_from_days.
YearOfEra(doe) == (doe - doe \div 1460 + doe \div 36524 - doe \div 146096) \div 365
MonthFrom(doy) == (5 * doy + 2) \div 153
DayFrom(doy) == doy - (153 * MonthFrom(doy) + 2) \div 5 + 1
Calendar(mp) == IF mp < 10 THEN mp + 3 ELSE mp - 9

DateOf(y, m, d) == [year |-> y, month |-> m, day |-> d]
CivilFromDays(days) ==
  LET z   == days + 719468
      era == z \div 146097
      doe == z - era * 146097
      yoe == YearOfEra(doe)
      doy == doe - DaysBefore(yoe)
      m   == Calendar(MonthFrom(doy))
      y   == yoe + era * 400
  IN  DateOf(IF m <= 2 THEN y + 1 ELSE y, m, DayFrom(doy))

CivilToUnix(c) ==
  (DaysFromCivil(c.year, c.month, c.day) * 86400 + c.hour * 3600 + c.min * 60 + c.sec)
    % 4294967296

UnixToCivil(ts) ==
  LET c   == CivilFromDays(ts \div 86400)
      rem == ts % 86400
  IN  [year |-> c.year, month |-> c.month, day |-> c.day,
       hour |-> rem \div 3600, min |-> (rem % 3600) \div 60, sec |-> rem % 60]

\* systime::init: the epoch taken from the civil time that the RTC shows.
BootEpoch(c) == IF c.year \in 2000 .. 2099 THEN CivilToUnix(c) ELSE TS_DEFAULT

-----------------------------------------------------------------------------
(* The Gregorian calendar, as a reference: the day after a date.           *)
LeapYear(y) == y % 4 = 0 /\ (y % 100 # 0 \/ y % 400 = 0)
DaysIn(y, m) ==
  IF m = 2 THEN (IF LeapYear(y) THEN 29 ELSE 28) ELSE IF m \in {4, 6, 9, 11} THEN 30 ELSE 31
DayAfter(c) ==
  IF c.day < DaysIn(c.year, c.month) THEN DateOf(c.year, c.month, c.day + 1)
  ELSE IF c.month < 12 THEN DateOf(c.year, c.month + 1, 1)
  ELSE DateOf(c.year + 1, 1, 1)
=============================================================================
