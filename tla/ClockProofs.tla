---------------------------- MODULE ClockProofs -----------------------------
(***************************************************************************)
(* The device's time.  First the calendar: the arithmetic of time_math.rs  *)
(* is the Gregorian calendar, and the conversions are inverses of each     *)
(* other, for every timestamp.  Then the clocks of Reboot: the epoch keeps *)
(* pace, a promised restart comes in time unless now_ms wraps meanwhile,   *)
(* none comes early, and an erase takes two commands or a wrap, at every   *)
(* uptime and for every length of the delays.                              *)
(***************************************************************************)
EXTENDS TimeMath, Reboot, TLAPS

\* The day of an era (400 years) gives a year of the era and a day of it.
LEMMA EraYear ==
  ASSUME NEW doe \in Int, 0 <= doe, doe <= 146096
  PROVE  /\ YearOfEra(doe) \in Int /\ 0 <= YearOfEra(doe) /\ YearOfEra(doe) <= 399
         /\ DaysBefore(YearOfEra(doe)) \in Int
         /\ 0 <= doe - DaysBefore(YearOfEra(doe)) /\ doe - DaysBefore(YearOfEra(doe)) <= 365
<1>1. ASSUME NEW y \in Int, NEW a \in Int, NEW b \in Int, NEW c \in Int, NEW e \in Int, NEW f \in Int,
             a = doe \div 1460, b = doe \div 36524, c = doe \div 146096,
             y = (doe - a + b - c) \div 365, e = y \div 4, f = y \div 100
      PROVE  /\ 0 <= y /\ y <= 399
             /\ 0 <= doe - (y * 365 + e - f) /\ doe - (y * 365 + e - f) <= 365
  BY <1>1
<1>2. /\ doe \div 1460 \in Int /\ doe \div 36524 \in Int /\ doe \div 146096 \in Int
      /\ YearOfEra(doe) \in Int
  BY DEF YearOfEra
<1>3. YearOfEra(doe) \div 4 \in Int /\ YearOfEra(doe) \div 100 \in Int
  BY <1>2
<1> QED
  BY <1>1, <1>2, <1>3 DEF YearOfEra, DaysBefore

\* The day of a year, counted from March, gives a month and a day and back.
LEMMA YearDay ==
  ASSUME NEW doy \in Int, 0 <= doy, doy <= 365
  PROVE  /\ MonthFrom(doy) \in 0 .. 11
         /\ DayFrom(doy) \in 1 .. 31
         /\ DayOfYear(MonthFrom(doy), DayFrom(doy)) = doy
         /\ Calendar(MonthFrom(doy)) \in 1 .. 12
         /\ Calendar(MonthFrom(doy)) <= 2 <=> MonthFrom(doy) >= 10
         /\ (Calendar(MonthFrom(doy)) + 9) % 12 = MonthFrom(doy)
BY DEF MonthFrom, DayFrom, DayOfYear, Calendar

\* A day is an era and a day of it.
LEMMA Era ==
  ASSUME NEW z \in Nat
  PROVE  /\ z \div 146097 \in Nat
         /\ 0 <= z - (z \div 146097) * 146097 /\ z - (z \div 146097) * 146097 <= 146096
OBVIOUS

\* days_from_civil takes every day back from the date civil_from_days gives it.
THEOREM DaysRoundTrip ==
  ASSUME NEW days \in Nat
  PROVE  LET c == CivilFromDays(days) IN DaysFromCivil(c.year, c.month, c.day) = days
<1> DEFINE z   == days + 719468
           era == z \div 146097
           doe == z - era * 146097
           yoe == YearOfEra(doe)
           doy == doe - DaysBefore(yoe)
           mp  == MonthFrom(doy)
           m   == Calendar(mp)
           y   == yoe + era * 400
           c   == CivilFromDays(days)
<1>1. z \in Nat /\ era \in Nat /\ doe \in Int /\ 0 <= doe /\ doe <= 146096
  BY Era
<1>2. /\ yoe \in Int /\ 0 <= yoe /\ yoe <= 399 /\ DaysBefore(yoe) \in Int
      /\ doy \in Int /\ 0 <= doy /\ doy <= 365
  <2> HIDE DEF z, era, doe
  <2> QED BY <1>1, EraYear
<1>3. /\ mp \in 0 .. 11 /\ m \in 1 .. 12 /\ DayOfYear(mp, DayFrom(doy)) = doy
      /\ m <= 2 <=> mp >= 10
      /\ (m + 9) % 12 = mp
  <2> HIDE DEF doy
  <2> QED BY <1>2, YearDay
<1>4. c = [year |-> IF m <= 2 THEN y + 1 ELSE y, month |-> m, day |-> DayFrom(doy)]
  BY DEF CivilFromDays, DateOf
<1>5. /\ c.month = m /\ c.day = DayFrom(doy)
      /\ (IF c.month <= 2 THEN c.year - 1 ELSE c.year) = y
  <2> HIDE DEF y, m, doy, c
  <2>1. c.month = m /\ c.day = DayFrom(doy) /\ c.year = IF m <= 2 THEN y + 1 ELSE y
    BY <1>4
  <2>2. y \in Int
    BY <1>1, <1>2 DEF y
  <2> QED BY <2>1, <2>2, <1>3
<1>6. y \div 400 = era /\ y - era * 400 = yoe
  <2> HIDE DEF yoe, era
  <2> QED BY <1>1, <1>2
<1>7. era * 146097 + (DaysBefore(yoe) + doy) - 719468 = days
  <2> HIDE DEF yoe, era
  <2> QED BY <1>1, <1>2
<1>8. DaysFromCivil(c.year, c.month, c.day) =
        era * 146097 + (DaysBefore(yoe) + DayOfYear(mp, DayFrom(doy))) - 719468
  <2> HIDE DEF y, m, doy, c, yoe, era, mp
  <2> QED BY <1>3, <1>5, <1>6 DEF DaysFromCivil
<1> QED
  BY <1>3, <1>7, <1>8

\* The years of the days from 2000-01-01 to 2099-12-31.
LEMMA ValidYear ==
  ASSUME NEW days \in Nat, 10957 <= days, days <= 47481
  PROVE  CivilFromDays(days).year \in 2000 .. 2099
<1> DEFINE z   == days + 719468
           era == z \div 146097
           doe == z - era * 146097
           yoe == YearOfEra(doe)
           doy == doe - DaysBefore(yoe)
           m   == Calendar(MonthFrom(doy))
           y   == yoe + era * 400
<1>1. /\ era \in Int /\ doe \in Int /\ 0 <= doe /\ doe <= 146096
      /\ (era = 4 /\ doe >= 146037) \/ (era = 5 /\ doe <= 36464)
  BY SMT
<1>2. /\ yoe \in Int /\ 0 <= yoe /\ yoe <= 399 /\ DaysBefore(yoe) \in Int
      /\ doy \in Int /\ 0 <= doy /\ doy <= 365
  <2> HIDE DEF era, doe
  <2> QED BY SMT, <1>1, EraYear
<1>3. DaysBefore(yoe) = yoe * 365 + yoe \div 4 - yoe \div 100
  BY SMT DEF DaysBefore
<1>4. CASE era = 4
  <2>1. doy >= 306 /\ yoe = 399
    <3> HIDE DEF era, doe, yoe
    <3> QED BY SMT, <1>1, <1>2, <1>3, <1>4
  <2>2. m <= 2
    <3> HIDE DEF doy
    <3> QED BY SMT, <1>2, <2>1 DEF MonthFrom, Calendar
  <2>3. CivilFromDays(days).year = yoe + 4 * 400 + 1
    <3> HIDE DEF m, yoe
    <3> QED BY SMT, <2>2, <1>4, <1>2 DEF CivilFromDays, DateOf, m, yoe
  <2> QED BY SMT, <2>1, <2>3
<1>5. CASE era = 5
  <2>1. yoe <= 98 \/ (yoe = 99 /\ doy <= 305)
    <3> HIDE DEF era, doe, yoe
    <3> QED BY SMT, <1>1, <1>2, <1>3, <1>5
  <2>2. yoe = 99 => m > 2
    <3> HIDE DEF doy, yoe
    <3> QED BY SMT, <1>2, <2>1 DEF MonthFrom, Calendar
  <2>3. CivilFromDays(days).year = IF m <= 2 THEN yoe + 2001 ELSE yoe + 2000
    <3>1. CivilFromDays(days).year = IF m <= 2 THEN (yoe + era * 400) + 1 ELSE yoe + era * 400
      BY SMT DEF CivilFromDays, DateOf
    <3> HIDE DEF m, yoe, era
    <3> QED BY SMT, <3>1, <1>5, <1>2
  <2>4. yoe <= 99
    <3> HIDE DEF yoe, doy
    <3> QED BY SMT, <2>1, <1>2
  <2>5. m \in 1 .. 12
    <3> HIDE DEF doy
    <3> QED BY SMT, <1>2, YearDay
  <2> HIDE DEF m, yoe
  <2> QED BY SMT, <2>2, <2>3, <2>4, <2>5, <1>2
<1> QED BY SMT, <1>1, <1>4, <1>5

\* unix_to_civil splits a timestamp so that civil_to_unix gives it back, for
\* every 32-bit timestamp.
THEOREM UnixRoundTrip ==
  ASSUME NEW ts \in U32
  PROVE  CivilToUnix(UnixToCivil(ts)) = ts
<1> DEFINE days == ts \div 86400
           rem  == ts % 86400
           c    == UnixToCivil(ts)
           k    == CivilFromDays(days)
<1>0. ts \in Nat /\ ts < 4294967296
  BY SMT DEF U32
<1>1. days \in Nat /\ rem \in Nat /\ ts = days * 86400 + rem /\ ts \in Nat /\ ts < 4294967296
  BY SMT, <1>0
<1>2. DaysFromCivil(k.year, k.month, k.day) = days
  BY SMT, <1>1, DaysRoundTrip
<1>3. c = [year |-> k.year, month |-> k.month, day |-> k.day,
           hour |-> rem \div 3600, min |-> (rem % 3600) \div 60, sec |-> rem % 60]
  BY SMT DEF UnixToCivil
<1> HIDE DEF k, rem, days, c
<1>4. /\ c.year = k.year /\ c.month = k.month /\ c.day = k.day
      /\ c.hour = rem \div 3600 /\ c.min = (rem % 3600) \div 60 /\ c.sec = rem % 60
  BY SMT, <1>3
<1>5. (rem \div 3600) * 3600 + ((rem % 3600) \div 60) * 60 + (rem % 60) = rem
  BY SMT, <1>1
<1>6. CivilToUnix(c) = (days * 86400 + c.hour * 3600 + c.min * 60 + c.sec) % 4294967296
  BY SMT, <1>2, <1>4 DEF CivilToUnix
<1>7. days * 86400 + c.hour * 3600 + c.min * 60 + c.sec = ts
  BY SMT, <1>1, <1>4, <1>5
<1>8. ts % 4294967296 = ts
  BY SMT, <1>1
<1> QED BY SMT, <1>6, <1>7, <1>8 DEF c

\* The time written to the RTC by set_timestamp is the time the next boot
\* starts from, for every timestamp it accepts but the last one (TS_MAX, the
\* first second of 2100, which systime::init no longer takes).
THEOREM SetTimeSurvivesReset ==
  ASSUME NEW ts \in U32, TsValid(ts), ts # TS_MAX
  PROVE  BootEpoch(UnixToCivil(ts)) = ts
<1>0. ts \in Nat /\ ts >= 946684800 /\ ts < 4102444800
  BY SMT DEF U32, TsValid, TS_MIN, TS_MAX
<1>1. ts \div 86400 \in Nat /\ 10957 <= ts \div 86400 /\ ts \div 86400 <= 47481
  BY SMT, <1>0
<1>2. UnixToCivil(ts).year \in 2000 .. 2099
  <2>1. UnixToCivil(ts).year = CivilFromDays(ts \div 86400).year
    BY SMT DEF UnixToCivil
  <2> QED BY SMT, <2>1, <1>1, ValidYear
<1> QED BY SMT, <1>2, UnixRoundTrip DEF BootEpoch

-----------------------------------------------------------------------------
(* The conversion follows the Gregorian calendar day by day.               *)

\* The last day of the year of the era y that begins in March, counted from 0:
\* its February belongs to the year y + 1.
LastDay(y) == IF LeapYear(y + 1) THEN 365 ELSE 364

\* No year of an era has more days than its last one.
LEMMA YearLength ==
  ASSUME NEW doe \in Int, 0 <= doe, doe <= 146096
  PROVE  doe - DaysBefore(YearOfEra(doe)) <= LastDay(YearOfEra(doe))
<1>1. ASSUME NEW y \in Int, NEW a \in Int, NEW b \in Int, NEW c \in Int, NEW e \in Int, NEW f \in Int,
             a = doe \div 1460, b = doe \div 36524, c = doe \div 146096,
             y = (doe - a + b - c) \div 365, e = y \div 4, f = y \div 100,
             NEW l \in Int,
             l = IF (y + 1) % 4 = 0 /\ ((y + 1) % 100 # 0 \/ (y + 1) % 400 = 0) THEN 365 ELSE 364
      PROVE  doe - (y * 365 + e - f) <= l
  BY SMT, <1>1
<1>2. /\ doe \div 1460 \in Int /\ doe \div 36524 \in Int /\ doe \div 146096 \in Int
      /\ YearOfEra(doe) \in Int
  BY SMT DEF YearOfEra
<1>3. YearOfEra(doe) \div 4 \in Int /\ YearOfEra(doe) \div 100 \in Int /\ LastDay(YearOfEra(doe)) \in Int
  BY SMT, <1>2 DEF LastDay
<1> QED
  BY SMT, <1>1, <1>2, <1>3 DEF YearOfEra, DaysBefore, LastDay, LeapYear

\* The years of an era follow each other without a gap.
LEMMA YearsFollow ==
  ASSUME NEW y \in Int, 0 <= y
  PROVE  /\ DaysBefore(y) \in Int /\ LastDay(y) \in {364, 365}
         /\ y < 399 => DaysBefore(y + 1) = DaysBefore(y) + LastDay(y) + 1
         /\ \A x \in Int : 0 <= x /\ x < y => DaysBefore(x + 1) <= DaysBefore(y)
BY SMT DEF DaysBefore, LastDay, LeapYear

\* From one day of an era to the next.
LEMMA YearStep ==
  ASSUME NEW doe \in Int, 0 <= doe, doe <= 146096,
         NEW y \in Int, y = YearOfEra(doe), NEW doy \in Int, doy = doe - DaysBefore(y)
  PROVE  /\ doe = 146096 => y = 399 /\ doy = 365
         /\ doe < 146096 =>
              \/ YearOfEra(doe + 1) = y /\ doy < LastDay(y)
              \/ YearOfEra(doe + 1) = y + 1 /\ doy = LastDay(y) /\ DaysBefore(y + 1) = doe + 1
<1>1. doe = 146096 => y = 399 /\ doy = 365
  BY SMT DEF YearOfEra, DaysBefore
<1>2. ASSUME doe < 146096
      PROVE  \/ YearOfEra(doe + 1) = y /\ doy < LastDay(y)
             \/ YearOfEra(doe + 1) = y + 1 /\ doy = LastDay(y) /\ DaysBefore(y + 1) = doe + 1
  <2> DEFINE w == YearOfEra(doe + 1)
  <2>1. /\ 0 <= y /\ y <= 399 /\ DaysBefore(y) <= doe /\ doe - DaysBefore(y) <= LastDay(y)
        /\ w \in Int /\ 0 <= w /\ w <= 399
        /\ DaysBefore(w) <= doe + 1 /\ doe + 1 - DaysBefore(w) <= LastDay(w)
        /\ DaysBefore(w) \in Int /\ DaysBefore(y) \in Int
    BY SMT, <1>2, EraYear, YearLength
  <2> HIDE DEF w
  <2>2. LastDay(w) \in Int /\ LastDay(y) \in Int /\ LastDay(y + 1) \in Int
    BY SMT, <2>1, YearsFollow
  <2>3. ~ w < y
    <3>1. ASSUME w < y PROVE DaysBefore(w) + LastDay(w) + 1 <= DaysBefore(y)
      BY SMT, <3>1, <2>1, YearsFollow
    <3> QED BY SMT, <3>1, <2>1, <2>2
  <2>4. w > y => DaysBefore(y + 1) <= DaysBefore(w) /\ DaysBefore(y + 1) = DaysBefore(y) + LastDay(y) + 1
    BY SMT, <2>1, YearsFollow
  <2>5. ~ w > y + 1
    <3>1. ASSUME w > y + 1 PROVE DaysBefore(y + 1 + 1) <= DaysBefore(w)
      <4>1. \A x \in Int : 0 <= x /\ x < w => DaysBefore(x + 1) <= DaysBefore(w)
        BY SMT, <2>1, YearsFollow
      <4>2. y + 1 \in Int /\ 0 <= y + 1 /\ y + 1 < w
        BY SMT, <3>1, <2>1
      <4> QED BY SMT, <4>1, <4>2
    <3>2. ASSUME w > y + 1 PROVE DaysBefore(y + 1 + 1) = DaysBefore(y + 1) + LastDay(y + 1) + 1 /\ LastDay(y + 1) >= 364
      BY SMT, <3>2, <2>1, YearsFollow
    <3>3. DaysBefore(y + 1) \in Int
      BY SMT, <2>1, YearsFollow
    <3> QED BY SMT, <3>1, <3>2, <3>3, <2>1, <2>2, <2>4
  <2>6. CASE w = y
    BY SMT, <2>6, <2>1, <2>2 DEF w
  <2>7. CASE w = y + 1
    BY SMT, <2>7, <2>1, <2>2, <2>4 DEF w
  <2> QED BY SMT, <2>1, <2>3, <2>5, <2>6, <2>7
<1> QED BY <1>1, <1>2

\* The lengths of the months from March to January.
MonthLength(mp) == IF mp \in {1, 3, 6, 8} THEN 30 ELSE 31

\* From one day of a year to the next.
LEMMA MonthStep ==
  ASSUME NEW doy \in Int, 0 <= doy, doy <= 364
  PROVE  \/ /\ MonthFrom(doy + 1) = MonthFrom(doy) /\ DayFrom(doy + 1) = DayFrom(doy) + 1
            /\ MonthFrom(doy) < 11 => DayFrom(doy) < MonthLength(MonthFrom(doy))
         \/ /\ MonthFrom(doy + 1) = MonthFrom(doy) + 1 /\ DayFrom(doy + 1) = 1
            /\ DayFrom(doy) = MonthLength(MonthFrom(doy))
BY SMT DEF MonthFrom, DayFrom, MonthLength

\* The end of February.
LEMMA February ==
  ASSUME NEW doy \in Int, 0 <= doy, doy <= 365
  PROVE  /\ MonthFrom(doy) = 11 => DayFrom(doy) = doy - 336
         /\ doy >= 364 => MonthFrom(doy) = 11
BY SMT DEF MonthFrom, DayFrom

\* The date of a day of the year that begins in March of y.
Date(y, doy) ==
  LET m == Calendar(MonthFrom(doy))
  IN  DateOf(IF m <= 2 THEN y + 1 ELSE y, m, DayFrom(doy))

LEMMA DayAfterIs ==
  ASSUME NEW y, NEW m, NEW d, NEW n, n = DaysIn(y, m)
  PROVE  /\ d < n => DayAfter(DateOf(y, m, d)) = DateOf(y, m, d + 1)
         /\ ~(d < n) /\ m < 12 => DayAfter(DateOf(y, m, d)) = DateOf(y, m + 1, 1)
         /\ ~(d < n) /\ ~(m < 12) => DayAfter(DateOf(y, m, d)) = DateOf(y + 1, 1, 1)
<1> DEFINE c == DateOf(y, m, d)
<1>1. c.year = y /\ c.month = m /\ c.day = d
  BY DEF DateOf
<1> HIDE DEF c
<1>2. DayAfter(c) = IF d < n THEN DateOf(y, m, d + 1)
                    ELSE IF m < 12 THEN DateOf(y, m + 1, 1) ELSE DateOf(y + 1, 1, 1)
  BY <1>1 DEF DayAfter
<1> QED BY <1>2 DEF c

\* The next day, within a year and at its end.
LEMMA DateStep ==
  ASSUME NEW y \in Int, NEW doy \in Int, 0 <= doy, doy <= LastDay(y)
  PROVE  /\ doy < LastDay(y) => Date(y, doy + 1) = DayAfter(Date(y, doy))
         /\ doy = LastDay(y) => Date(y + 1, 0) = DayAfter(Date(y, doy))
<1> DEFINE mp == MonthFrom(doy)
           m  == Calendar(mp)
           d  == DayFrom(doy)
           yr == IF m <= 2 THEN y + 1 ELSE y
           n  == DaysIn(yr, m)
<1>1. doy <= 365 /\ LastDay(y) \in {364, 365}
  BY SMT DEF LastDay
<1>2. mp \in 0 .. 11 /\ m \in 1 .. 12 /\ d \in 1 .. 31
  BY <1>1, YearDay
<1>3. Date(y, doy) = DateOf(yr, m, d)
  BY DEF Date
<1>4. mp = 11 => d = doy - 336 /\ m = 2
  <2>1. mp = 11 => d = doy - 336
    BY <1>1, February
  <2> HIDE DEF mp, d
  <2> QED BY SMT, <2>1 DEF Calendar
<1>5. yr \in Int /\ n \in Int /\ (mp = 11 => n = LastDay(y) - 336) /\ (mp # 11 => n = MonthLength(mp))
  <2> HIDE DEF mp
  <2>1. m = IF mp < 10 THEN mp + 3 ELSE mp - 9
    BY DEF Calendar
  <2> HIDE DEF m
  <2> QED BY SMT, <1>2, <2>1 DEF DaysIn, MonthLength, LastDay
<1>6. /\ d < n => DayAfter(DateOf(yr, m, d)) = DateOf(yr, m, d + 1)
      /\ d >= n /\ m < 12 => DayAfter(DateOf(yr, m, d)) = DateOf(yr, m + 1, 1)
      /\ d >= n /\ m = 12 => DayAfter(DateOf(yr, m, d)) = DateOf(yr + 1, 1, 1)
  <2>1. n = DaysIn(yr, m)
    OBVIOUS
  <2> HIDE DEF yr, m, d, n
  <2>2. (d >= n => ~(d < n)) /\ (m = 12 => ~(m < 12))
    BY SMT, <1>2, <1>5
  <2> QED BY Zenon, <2>1, <2>2, DayAfterIs
<1>7. ASSUME doy < LastDay(y) PROVE Date(y, doy + 1) = DayAfter(Date(y, doy))
  <2>1. CASE /\ MonthFrom(doy + 1) = mp /\ DayFrom(doy + 1) = d + 1
             /\ mp < 11 => d < MonthLength(mp)
    <3>1. d < n
      <4> HIDE DEF mp, d, n
      <4> QED BY SMT, <1>1, <1>2, <1>4, <1>5, <1>7, <2>1
    <3>2. Date(y, doy + 1) = DateOf(yr, m, d + 1)
      BY <2>1 DEF Date
    <3> QED BY <3>1, <3>2, <1>3, <1>6
  <2>2. CASE MonthFrom(doy + 1) = mp + 1 /\ DayFrom(doy + 1) = 1 /\ d = MonthLength(mp)
    <3>1. mp < 11 /\ MonthFrom(doy + 1) \in 0 .. 11
      <4>1. doy + 1 \in Int /\ 0 <= doy + 1 /\ doy + 1 <= 365
        BY SMT, <1>1, <1>7
      <4>2. MonthFrom(doy + 1) \in 0 .. 11
        BY <4>1, YearDay
      <4> HIDE DEF mp
      <4> QED BY SMT, <4>2, <1>2, <2>2
    <3>2. d = n
      <4> HIDE DEF mp, n
      <4> QED BY SMT, <3>1, <1>2, <1>5, <2>2
    <3>3. CASE mp = 9
      <4>1. m = 12 /\ Calendar(mp + 1) = 1 /\ yr = y
        BY SMT, <3>3 DEF Calendar
      <4>2. Date(y, doy + 1) = DateOf(y + 1, 1, 1)
        BY SMT, <4>1, <2>2 DEF Date
      <4> HIDE DEF m, yr, d, n
      <4> QED BY SMT, <4>1, <4>2, <3>2, <1>2, <1>3, <1>6
    <3>4. CASE mp # 9
      <4>1. Calendar(mp + 1) = m + 1 /\ m < 12 /\ (m + 1 <= 2 <=> m <= 2)
        <5> HIDE DEF mp
        <5> QED BY SMT, <3>1, <3>4, <1>2 DEF Calendar
      <4>2. Date(y, doy + 1) = DateOf(yr, m + 1, 1)
        <5>1. Date(y, doy + 1) =
                DateOf(IF m + 1 <= 2 THEN y + 1 ELSE y, m + 1, 1)
          BY <4>1, <2>2 DEF Date
        <5> HIDE DEF m
        <5> QED BY <5>1, <4>1
      <4> HIDE DEF m, yr, d, n
      <4> QED BY SMT, <4>1, <4>2, <3>2, <1>2, <1>3, <1>6
    <3> QED BY <3>3, <3>4
  <2>3. doy <= 364
    BY SMT, <1>1, <1>7
  <2> QED BY <2>1, <2>2, <2>3, MonthStep
<1>8. ASSUME doy = LastDay(y) PROVE Date(y + 1, 0) = DayAfter(Date(y, doy))
  <2>1. mp = 11
    BY SMT, <1>1, <1>8, February
  <2>2. d >= n /\ m = 2
    <3> HIDE DEF mp, m, d, n
    <3> QED BY SMT, <2>1, <1>2, <1>4, <1>5, <1>8
  <2>3. yr = y + 1
    <3> HIDE DEF m
    <3> QED BY SMT, <2>2
  <2>4. Date(y + 1, 0) = DateOf(y + 1, 3, 1)
    <3>1. MonthFrom(0) = 0 /\ DayFrom(0) = 1 /\ Calendar(0) = 3
      BY SMT DEF MonthFrom, DayFrom, Calendar
    <3> QED BY SMT, <3>1 DEF Date
  <2> HIDE DEF m, yr, d, n
  <2> QED BY SMT, <2>2, <2>3, <2>4, <1>2, <1>3, <1>6
<1> QED BY <1>7, <1>8

\* Leap years repeat with the era.
LEMMA SameEvery400 ==
  ASSUME NEW y \in Int, NEW era \in Int
  PROVE  LastDay(y + era * 400) = LastDay(y)
BY SMT DEF LastDay, LeapYear

\* civil_from_days is the Gregorian calendar: day 0 is 1970-01-01, and every
\* day is given the date after that of the day before, leap days included.
THEOREM FollowsCalendar ==
  ASSUME NEW days \in Nat
  PROVE  /\ CivilFromDays(0) = DateOf(1970, 1, 1)
         /\ CivilFromDays(days + 1) = DayAfter(CivilFromDays(days))
<1> DEFINE z   == days + 719468
           era == z \div 146097
           doe == z - era * 146097
           yoe == YearOfEra(doe)
           doy == doe - DaysBefore(yoe)
<1>1. ASSUME NEW n \in Nat, NEW e \in Int, NEW x \in Int, NEW y \in Int, NEW k \in Int,
             e = (n + 719468) \div 146097, x = (n + 719468) - e * 146097,
             y = YearOfEra(x), k = x - DaysBefore(y)
      PROVE  CivilFromDays(n) = Date(y + e * 400, k)
  BY SMT, <1>1 DEF CivilFromDays, Date
<1>2. CivilFromDays(0) = DateOf(1970, 1, 1)
  <2>1. /\ 4 = (0 + 719468) \div 146097 /\ 135080 = (0 + 719468) - 4 * 146097
        /\ 369 = YearOfEra(135080) /\ 306 = 135080 - DaysBefore(369)
    BY SMT DEF YearOfEra, DaysBefore
  <2>2. CivilFromDays(0) = Date(369 + 4 * 400, 306)
    BY SMT, <2>1, <1>1
  <2>3. MonthFrom(306) = 10 /\ DayFrom(306) = 1 /\ Calendar(10) = 1
    BY SMT DEF MonthFrom, DayFrom, Calendar
  <2> QED BY SMT, <2>2, <2>3 DEF Date
<1>3. z \in Nat /\ era \in Nat /\ doe \in Int /\ 0 <= doe /\ doe <= 146096
  BY SMT, Era
<1>4. /\ yoe \in Int /\ 0 <= yoe /\ yoe <= 399 /\ doy \in Int /\ 0 <= doy /\ doy <= 365
      /\ doy <= LastDay(yoe)
  <2> HIDE DEF z, era, doe
  <2> QED BY SMT, <1>3, EraYear, YearLength
<1>5. CivilFromDays(days) = Date(yoe + era * 400, doy)
  <2> HIDE DEF yoe, doy
  <2>1. era = (days + 719468) \div 146097 /\ doe = (days + 719468) - era * 146097
    OBVIOUS
  <2> HIDE DEF era, doe
  <2> QED BY <1>1, <1>3, <1>4, <2>1 DEF yoe, doy
<1> DEFINE y == yoe + era * 400
<1>6. /\ doy < LastDay(yoe) => Date(y, doy + 1) = DayAfter(Date(y, doy))
      /\ doy = LastDay(yoe) => Date(y + 1, 0) = DayAfter(Date(y, doy))
  <2> HIDE DEF yoe, doy, era
  <2>1. y \in Int /\ LastDay(y) = LastDay(yoe)
    BY SMT, <1>3, <1>4, SameEvery400
  <2> HIDE DEF y
  <2> QED BY SMT, <2>1, <1>4, DateStep
<1>7. CASE doe = 146096
  <2>1. yoe = 399 /\ doy = 365
    <3> HIDE DEF doe
    <3> QED BY <1>3, <1>4, <1>7, YearStep
  <2>2. LastDay(399) = 365
    BY SMT DEF LastDay, LeapYear
  <2>3. era + 1 = (days + 1 + 719468) \div 146097 /\ 0 = (days + 1 + 719468) - (era + 1) * 146097
    <3>1. z = era * 146097 + 146096
      <4> HIDE DEF era
      <4> QED BY SMT, <1>3, <1>7
    <3> HIDE DEF era
    <3> QED BY SMT, <1>3, <3>1
  <2>4. 0 = YearOfEra(0) /\ 0 = 0 - DaysBefore(0)
    BY SMT DEF YearOfEra, DaysBefore
  <2>5. CivilFromDays(days + 1) = Date(0 + (era + 1) * 400, 0)
    <3> HIDE DEF era
    <3>1. days + 1 \in Nat /\ era + 1 \in Int
      BY SMT, <1>3
    <3> QED BY <1>1, <2>3, <2>4, <3>1
  <2>6. 0 + (era + 1) * 400 = y + 1
    <3> HIDE DEF era, yoe
    <3> QED BY SMT, <1>3, <2>1
  <2> HIDE DEF y, yoe, doy, era
  <2> QED BY <1>2, <1>5, <1>6, <2>1, <2>2, <2>5, <2>6 DEF y
<1>8. CASE doe < 146096
  <2> DEFINE w == YearOfEra(doe + 1)
  <2>1. \/ w = yoe /\ doy < LastDay(yoe)
        \/ w = yoe + 1 /\ doy = LastDay(yoe) /\ DaysBefore(yoe + 1) = doe + 1
    <3> HIDE DEF doe
    <3> QED BY <1>3, <1>4, <1>8, YearStep
  <2>2. era = (days + 1 + 719468) \div 146097 /\ doe + 1 = (days + 1 + 719468) - era * 146097
    <3>1. z = era * 146097 + doe
      <4> HIDE DEF era
      <4> QED BY SMT, <1>3
    <3> HIDE DEF era, doe
    <3> QED BY SMT, <1>3, <1>8, <3>1
  <2>3. /\ w \in Int /\ DaysBefore(w) \in Int
    <3> HIDE DEF doe
    <3>1. doe + 1 \in Int /\ 0 <= doe + 1 /\ doe + 1 <= 146096
      BY SMT, <1>3, <1>8
    <3> QED BY <3>1, EraYear
  <2>4. CivilFromDays(days + 1) = Date(w + era * 400, doe + 1 - DaysBefore(w))
    <3> HIDE DEF era, doe
    <3>1. days + 1 \in Nat /\ doe + 1 \in Int /\ (doe + 1) - DaysBefore(w) \in Int
      <4> HIDE DEF w
      <4> QED BY SMT, <1>3, <2>3
    <3> QED BY <1>1, <1>3, <2>2, <2>3, <3>1
  <2>5. DaysBefore(yoe) \in Int
    <3> HIDE DEF doe
    <3> QED BY <1>3, EraYear
  <2>6. CASE w = yoe /\ doy < LastDay(yoe)
    <3>1. doe + 1 - DaysBefore(w) = doy + 1
      <4> HIDE DEF w, yoe, doe
      <4> QED BY SMT, <1>3, <2>5, <2>6
    <3> HIDE DEF w, yoe, doy, doe, era
    <3> QED BY <1>2, <3>1, <2>4, <2>6, <1>5, <1>6
  <2>7. CASE w = yoe + 1 /\ doy = LastDay(yoe) /\ DaysBefore(yoe + 1) = doe + 1
    <3>1. doe + 1 - DaysBefore(w) = 0
      <4> HIDE DEF w, yoe, doe
      <4> QED BY SMT, <1>3, <2>7
    <3>2. w + era * 400 = y + 1
      <4> HIDE DEF w, yoe, era
      <4> QED BY SMT, <1>3, <1>4, <2>7
    <3> HIDE DEF w, yoe, doy, doe, era
    <3> QED BY <1>2, <3>1, <3>2, <2>4, <2>7, <1>5, <1>6
  <2> HIDE DEF w, yoe, doy, doe, era
  <2> QED BY <2>1, <2>6, <2>7
<1>9. doe < 146096 \/ doe = 146096
  <2> HIDE DEF doe
  <2> QED BY SMT, <1>3
<1> HIDE DEF doe
<1> QED BY <1>2, <1>7, <1>8, <1>9
-----------------------------------------------------------------------------
\* What now_ms reads at time t.
Reads(t) == t % Wrap

RebootTypes ==
  /\ now \in Nat /\ beat \in Nat /\ deadline \in Nat /\ factory \in Nat
  /\ rebootAt \in Int /\ asked \in Int /\ first \in Int /\ last \in Int
  /\ udp \in [pc : {"idle", "reply", "silent"}, until : Int]
  /\ web \in [pc : {"idle", "delay"}, until : Int]
  /\ can \in [pc : {"idle", "drain", "flush"}, until : Int]

\* No timer has waited longer than Late, and none is further away than it was
\* set.
Timely ==
  /\ beat <= now + Beat /\ now <= beat + Late
  /\ udp.pc = "silent" => 0 <= udp.until /\ now <= udp.until + Late
  /\ web.pc = "delay" => 0 <= web.until /\ now <= web.until + Late
  /\ can.pc # "idle" => 0 <= can.until /\ now <= can.until + Late

\* The longest way to a deadline.
Delay == Bigger(Grace + Poll + Cold, WebDelay + Late + Cold)

\* What is under way was requested, ends within its bound of the latest request
\* and no earlier than Cold after the first one; the beat that grants a delayed
\* request comes less than a period after it is due.
UnderWay ==
  /\ first = NoTime <=> last = NoTime
  /\ last # NoTime => 0 <= first /\ first <= last /\ last <= now
  /\ rebootAt # NoTime =>
       last # NoTime /\ 0 <= rebootAt /\ rebootAt <= last + Grace /\ beat < rebootAt + Beat
  /\ udp.pc = "silent" =>
       last # NoTime /\ udp.until <= last + Cold /\ first + Cold <= udp.until
  /\ web.pc = "delay" => last # NoTime /\ web.until <= last + WebDelay
  /\ can.pc = "drain" =>
       last # NoTime /\ can.until <= last + CanDrain /\ first + CanDrain <= can.until
  /\ can.pc = "flush" =>
       /\ last # NoTime /\ can.until <= last + CanDrain + Late + CanFlush
       /\ first + CanDrain + CanFlush <= can.until

\* The command that a confirmation refers to is the latest one, until the
\* erase.
Confirmation ==
  /\ NoTime <= asked /\ asked <= now
  /\ ~erased => factory = Reads(Opened)

RInv == RebootTypes /\ Timely /\ UnderWay /\ Confirmation

\* A restart is under way that needs no deadline yet.
Others == rebootAt # NoTime \/ udp.pc = "silent" \/ web.pc = "delay" \/ can.pc # "idle"

\* DEADLINE_MS was stored at time s.  When that was not before the latest
\* request and now_ms does not wrap too soon, the beat that resets comes less
\* than a period after the deadline.  When it was before, something else is
\* under way: the deadline may be one that a wrap has made unreachable.
SetAt(s) ==
  /\ deadline = Reads(s) + Cold
  /\ last # NoTime /\ first <= s /\ s <= now /\ s + Cold <= last + Delay
  /\ last <= s /\ NoWrap(last, last + RebootBound) => beat < s + Cold + Beat
  /\ last <= s \/ Others

DInv ==
  /\ deadline # 0 => \E s \in Nat : SetAt(s)
  /\ deadline = 0 /\ last # NoTime => Others

\* What is assumed of the delays, one fact at a time.
LEMMA Constants ==
  /\ Wrap \in Nat /\ Word \in Nat /\ Beat \in Nat /\ SecBeats \in Nat /\ Cold \in Nat
  /\ Wrap > 0 /\ Word > 0 /\ Grace > 0 /\ Beat > 0 /\ SecBeats > 0 /\ Cold > 0
  /\ Grace \in Nat /\ WebDelay \in Nat /\ CanDrain \in Nat /\ CanFlush \in Nat
  /\ Window \in Nat /\ Late \in Nat /\ MaxTime \in Nat
  /\ 2 * (Wrap + Cold) <= Word /\ Cold <= CanDrain + CanFlush /\ Window < Wrap
BY TimingAssumption

\* The bounds of RebootBound, ordered.
LEMMA DelayIs ==
  /\ Delay \in Nat /\ Grace + Poll + Cold <= Delay /\ WebDelay + Late + Cold <= Delay
  /\ Poll \in Nat /\ Poll = Beat - 1 + Late /\ RebootBound \in Nat
  /\ Delay + Poll <= RebootBound
  /\ CanDrain + Late + CanFlush + Late <= RebootBound
  /\ Cold + Late <= RebootBound
BY Constants DEF Delay, Poll, Bigger, RebootBound

\* The remainder of a number below the modulus, and of one just below zero.
LEMMA ModSmall ==
  ASSUME NEW a \in Nat, NEW w \in Nat, a < w
  PROVE  a % w = a
BY SMT

LEMMA ModNeg ==
  ASSUME NEW a \in Int, NEW w \in Nat, -w <= a, a < 0
  PROVE  a % w = a + w
BY SMT

\* A time is so many wraps of now_ms and what now_ms reads.
LEMMA Period ==
  ASSUME NEW a \in Nat
  PROVE  /\ a \div Wrap \in Nat /\ Reads(a) \in Nat /\ Reads(a) < Wrap
         /\ a = Wrap * (a \div Wrap) + Reads(a)
BY Constants, SMT DEF Reads

\* now_ms never gains on the time; without a wrap it keeps pace.
LEMMA Apart ==
  ASSUME NEW a \in Nat, NEW b \in Nat, a <= b
  PROVE  /\ a \div Wrap <= b \div Wrap
         /\ Reads(b) - Reads(a) <= b - a
         /\ NoWrap(a, b) => Reads(b) - Reads(a) = b - a
<1> DEFINE p == a \div Wrap
           q == b \div Wrap
<1>1. /\ p \in Nat /\ q \in Nat /\ Reads(a) \in Nat /\ Reads(b) \in Nat
      /\ a = Wrap * p + Reads(a) /\ Reads(a) < Wrap
      /\ b = Wrap * q + Reads(b) /\ Reads(b) < Wrap
  BY Period
<1>2. NoWrap(a, b) <=> p = q
  BY DEF NoWrap
<1> HIDE DEF p, q
<1>3. p <= q
  <2> SUFFICES ASSUME q + 1 <= p PROVE FALSE
    BY <1>1
  <2>1. Wrap * q + Wrap <= Wrap * p
    BY <1>1, Constants
  <2> QED BY <1>1, <2>1, Constants
<1>4. Wrap * p <= Wrap * q /\ Wrap * p \in Nat /\ Wrap * q \in Nat
  BY <1>1, <1>3, Constants
<1>5. Reads(b) - Reads(a) <= b - a
  BY <1>1, <1>4
<1>6. p = q => Reads(b) - Reads(a) = b - a
  BY <1>1, <1>4
<1> QED BY <1>2, <1>3, <1>5, <1>6 DEF p, q

\* No wrap in a stretch of time, none in a part of it.
LEMMA Within ==
  ASSUME NEW a \in Nat, NEW b \in Nat, NEW c \in Nat, NEW d \in Nat,
         a <= b, b <= c, c <= d, NoWrap(a, d)
  PROVE  NoWrap(b, c)
<1>1. a \div Wrap <= b \div Wrap /\ b \div Wrap <= c \div Wrap /\ c \div Wrap <= d \div Wrap
  BY Apart
<1>2. a \div Wrap \in Nat /\ b \div Wrap \in Nat /\ c \div Wrap \in Nat /\ d \div Wrap \in Nat
  BY Period
<1> QED BY <1>1, <1>2 DEF NoWrap

\* The sum of reboot::cold does not reach the end of the u32.
LEMMA ScheduleIs ==
  ASSUME now \in Nat
  PROVE  Schedule <=> deadline' = Reads(now) + Cold
<1>0. Reads(now) \in Nat /\ Reads(now) < Wrap
  BY Period
<1>1. Reads(now) + Cold \in Nat /\ Reads(now) + Cold < Word
  BY <1>0, Constants
<1> QED BY <1>1, ModSmall, Constants DEF Schedule, NowMs, Reads

\* The signed comparison of reboot::due compares what now_ms reads.
LEMMA DueIs ==
  ASSUME now \in Nat, NEW d \in Nat, d < Wrap + Cold
  PROVE  Due(d) <=> d # 0 /\ Reads(now) >= d
<1> DEFINE n == Reads(now)
<1>1. n \in Nat /\ n < Wrap /\ NowMs = n
  BY Period DEF NowMs, Reads
<1> HIDE DEF n
<1>2. Word \div 2 \in Nat /\ 2 * (Word \div 2) <= Word /\ Word < 2 * (Word \div 2) + 2
  BY Constants
<1>3. CASE n >= d
  <2>1. n - d \in Nat /\ n - d < Word /\ n - d < Word \div 2
    BY <1>1, <1>2, <1>3, Constants
  <2>2. (n - d) % Word = n - d
    BY <2>1, ModSmall, Constants
  <2> QED BY <1>1, <1>3, <2>1, <2>2 DEF Due, WrappingSub, n
<1>4. CASE n < d
  <2>1. n - d \in Int /\ -Word <= n - d /\ n - d < 0
    BY <1>1, <1>4, Constants
  <2>2. (n - d) % Word = n - d + Word
    BY <2>1, ModNeg, Constants
  <2>3. ~(n - d + Word < Word \div 2)
    BY <1>1, <1>2, Constants
  <2> QED BY <1>1, <1>4, <2>2, <2>3 DEF Due, WrappingSub, n
<1> QED BY <1>1, <1>3, <1>4

\* The window of factory_reset is measured in what now_ms reads.
LEMMA ConfirmsIs ==
  ASSUME now \in Nat, factory \in Nat, factory < Wrap
  PROVE  Confirms => factory <= Reads(now) /\ Reads(now) - factory <= Window
<1> DEFINE n == Reads(now)
<1>1. n \in Nat /\ n < Wrap /\ NowMs = n
  BY Period DEF NowMs, Reads
<1> HIDE DEF n
<1>2. CASE factory <= n
  <2>1. n - factory \in Nat /\ n - factory < Word
    BY <1>1, <1>2, Constants
  <2>2. (n - factory) % Word = n - factory
    BY <2>1, ModSmall, Constants
  <2> QED BY <1>1, <1>2, <2>2 DEF Confirms, WrappingSub, n
<1>3. CASE n < factory
  <2>1. n - factory \in Int /\ -Word <= n - factory /\ n - factory < 0
    BY <1>1, <1>3, Constants
  <2>2. (n - factory) % Word = n - factory + Word
    BY <2>1, ModNeg, Constants
  <2>3. ~(n - factory + Word <= Window)
    BY <1>1, Constants
  <2> QED BY <1>1, <2>2, <2>3 DEF Confirms, WrappingSub
<1> QED BY <1>1, <1>2, <1>3

\* RInv is inductive, at any uptime.
LEMMA RInvInit == Init => RInv /\ DInv
<1>1. Reads(0) = 0
  BY ModSmall, Constants DEF Reads
<1> QED
  BY <1>1, Constants DEF Init, RInv, DInv, RebootTypes, Timely, UnderWay, Confirmation, Opened, NoTime, Idle, Waits

LEMMA Restarted == Reboots => RInv' /\ DInv'
<1>1. Reads(0) = 0
  BY ModSmall, Constants DEF Reads
<1> QED
  BY <1>1, Constants DEF Reboots, RInv, DInv, RebootTypes, Timely, UnderWay, Confirmation, Opened, NoTime, Idle, Waits

LEMMA RInvStep == RInv /\ [Next]_vars => RInv'
<1> SUFFICES ASSUME RInv, [Next]_vars PROVE RInv'
  OBVIOUS
<1> USE Constants, DelayIs
<1>0. now \in Nat /\ Reads(now) \in Nat
  BY Period DEF RInv, RebootTypes
<1>1. Schedule <=> deadline' = Reads(now) + Cold
  BY <1>0, ScheduleIs
<1>2. CASE Tick
  BY <1>2 DEF Tick, InTime, Unrequested, RInv, RebootTypes, Timely, UnderWay, Confirmation, Opened, NoTime, beatVars, udpVars
<1>3. CASE Heartbeat
  BY <1>3, <1>0, <1>1, Restarted DEF Heartbeat, NextBeat, Unrequested, RInv, RebootTypes, Timely, UnderWay, Confirmation, Opened, NoTime, udpVars
<1>4. CASE SetRebootStatus
  BY <1>4 DEF SetRebootStatus, Requested, RInv, RebootTypes, Timely, UnderWay, Confirmation, Opened, NoTime, beatVars, udpVars
<1>5. CASE RebootCold
  BY <1>5, <1>0, <1>1 DEF RebootCold, Requested, RInv, RebootTypes, Timely, UnderWay, Confirmation, Opened, NoTime, beatVars, udpVars
<1>6. CASE ApiReboot
  BY <1>6 DEF ApiReboot, Requested, Idle, Waits, RInv, RebootTypes, Timely, UnderWay, Confirmation, Opened, NoTime, beatVars, udpVars
<1>7. CASE ApiRebootCold
  BY <1>7, <1>0, <1>1 DEF ApiRebootCold, Unrequested, Idle, Waits, RInv, RebootTypes, Timely, UnderWay, Confirmation, Opened, NoTime, beatVars, udpVars
<1>8. CASE CanReboot
  BY <1>8 DEF CanReboot, Requested, Idle, Waits, RInv, RebootTypes, Timely, UnderWay, Confirmation, Opened, NoTime, beatVars, udpVars
<1>9. CASE CanSync
  BY <1>9 DEF CanSync, Unrequested, Idle, Waits, RInv, RebootTypes, Timely, UnderWay, Confirmation, Opened, NoTime, beatVars, udpVars
<1>10. CASE CanReset
  BY <1>10, Restarted, SMTT(40), ZenonT(20) DEF CanReset
<1>11. CASE UdpReboot
  BY <1>11 DEF UdpReboot, Replying, Unrequested, Idle, Waits, RInv, RebootTypes, Timely, UnderWay, Confirmation, Opened, NoTime, beatVars
<1>12. CASE UdpFactoryReset
  BY <1>12, <1>0 DEF UdpFactoryReset, NowMs, Reads, Replying, Unrequested, Idle, Waits, RInv, RebootTypes, Timely, UnderWay, Confirmation, Opened, NoTime, beatVars
<1>13. CASE UdpOther
  BY <1>13 DEF UdpOther, Replying, Unrequested, Idle, Waits, RInv, RebootTypes, Timely, UnderWay, Confirmation, Opened, NoTime, beatVars
<1>14. CASE UdpSent
  BY <1>14 DEF UdpSent, Requested, Unrequested, Idle, Waits, RInv, RebootTypes, Timely, UnderWay, Confirmation, Opened, NoTime, beatVars
<1>15. CASE UdpReset
  BY <1>15, Restarted DEF UdpReset
<1>16. CASE UNCHANGED vars
  BY <1>16 DEF vars, RInv, RebootTypes, Timely, UnderWay, Confirmation, Opened
<1> QED
  BY <1>2, <1>3, <1>4, <1>5, <1>6, <1>7, <1>8, <1>9, <1>10, <1>11, <1>12, <1>13, <1>14, <1>15, <1>16 DEF Next

\* A step that leaves the deadline alone: what is under way goes on, and at most
\* a new request adds to it.
LEMMA DeadlineKept ==
  ASSUME RInv, DInv, RInv', deadline' = deadline, now <= now', last # NoTime => first' = first,
         \/ last' = last /\ (Others => Others')
         \/ last' = now /\ Others',
         beat' = beat
  PROVE  DInv'
<1>1. ASSUME deadline # 0 PROVE \E s \in Nat : SetAt(s)'
  <2>1. PICK s \in Nat : SetAt(s)
    BY <1>1 DEF DInv
  <2>2. deadline' = Reads(s) + Cold /\ last' # NoTime /\ first' <= s /\ s <= now' /\ s + Cold <= last' + Delay
    <3>1. deadline' = Reads(s) + Cold /\ first' = first /\ first <= s /\ s <= now /\ s + Cold <= last + Delay
      BY <2>1 DEF SetAt
    <3>2. last \in Nat /\ last <= now /\ now \in Nat /\ now' \in Nat
      BY <2>1, <3>1 DEF SetAt, RInv, RebootTypes, UnderWay
    <3>3. last' \in Nat /\ last <= last'
      BY <3>2
    <3>4. s <= now'
      BY <3>1, <3>2
    <3>5. Cold \in Nat /\ Delay \in Nat
      BY Constants, DelayIs
    <3>6. s + Cold <= last' + Delay
      <4>1. \A a, b \in Nat : a <= b /\ s + Cold <= a + Delay => s + Cold <= b + Delay
        BY <3>5
      <4> QED BY <3>1, <3>2, <3>3, <4>1, Zenon
    <3>7. last' # NoTime
      BY <3>3 DEF NoTime
    <3> QED BY <3>1, <3>4, <3>6, <3>7
  <2>3. last' <= s \/ Others'
    BY <2>1 DEF SetAt, RInv, RebootTypes
  <2>4. ASSUME last' <= s, NoWrap(last', last' + RebootBound) PROVE beat' < s + Cold + Beat
    BY <2>1, <2>4, Constants, DelayIs DEF SetAt, RInv, RebootTypes, Timely
  <2> QED BY <2>2, <2>3, <2>4 DEF SetAt, NoWrap
<1>2. ASSUME deadline = 0, last' # NoTime PROVE Others'
  BY <1>2 DEF DInv, RInv, RebootTypes
<1> QED BY <1>1, <1>2 DEF DInv

\* A step that asks for the cold reboot.
LEMMA DeadlineSet ==
  ASSUME RInv, RInv', Schedule, now' = now, last' # NoTime, now + Cold <= last' + Delay
  PROVE  DInv'
<1>1. now \in Nat /\ deadline' = Reads(now) + Cold
  BY ScheduleIs DEF RInv, RebootTypes
<1>2. first' <= now /\ last' <= now /\ beat' < now + Cold + Beat
  BY Constants DEF RInv, RebootTypes, Timely, UnderWay
<1>3. SetAt(now)'
  <2>1. deadline' = Reads(now') + Cold
    BY <1>1
  <2> QED BY <1>1, <1>2, <2>1 DEF SetAt, RInv, RebootTypes
<1>4. deadline' # 0
  BY <1>1, Period, Constants
<1> QED BY <1>1, <1>3, <1>4 DEF DInv

\* A beat that neither grants a request nor resets: the deadline lies ahead, or
\* has been lost at a wrap.
LEMMA NotDueYet ==
  ASSUME RInv, DInv, RInv', now >= beat, ~Due(deadline), beat' = beat + Beat,
         UNCHANGED <<now, deadline, first, last, rebootAt, udp, web, can>>
  PROVE  DInv'
<1>1. ASSUME deadline # 0 PROVE \E s \in Nat : SetAt(s)'
  <2>1. PICK s \in Nat : SetAt(s)
    BY <1>1 DEF DInv
  <2>2. /\ deadline = Reads(s) + Cold /\ Reads(s) \in Nat /\ Reads(s) < Wrap
        /\ s <= now /\ now \in Nat /\ Reads(now) \in Nat
    BY <2>1, Period DEF SetAt, RInv, RebootTypes
  <2>3. Reads(now) - Reads(s) < Cold
    <3>1. deadline \in Nat /\ deadline < Wrap + Cold
      BY <2>2, Constants
    <3>2. ~(Reads(now) >= deadline)
      BY <1>1, <2>2, <3>1, DueIs
    <3> QED BY <2>2, <3>2, Constants
  <2>4. ASSUME last <= s, NoWrap(last, last + RebootBound) PROVE beat + Beat < s + Cold + Beat
    <3>1. last \in Nat /\ beat < s + Cold + Beat /\ s + Cold <= last + Delay /\ now <= beat + Late
      BY <2>1, <2>4 DEF SetAt, RInv, RebootTypes, UnderWay, Timely
    <3>2. now <= last + RebootBound /\ last + RebootBound \in Nat
      BY <2>2, <3>1, Constants, DelayIs DEF RInv, RebootTypes
    <3>3. NoWrap(s, now)
      BY <2>2, <2>4, <3>1, <3>2, Within
    <3>4. now - s < Cold
      BY <2>2, <2>3, <3>3, Apart
    <3> QED BY <2>2, <3>4, Constants DEF RInv, RebootTypes
  <2>5. Others => Others'
    BY DEF Others
  <2> QED BY <2>1, <2>4, <2>5 DEF SetAt, NoWrap
<1>2. ASSUME deadline = 0, last # NoTime PROVE Others'
  BY <1>2 DEF DInv, Others
<1> QED BY <1>1, <1>2 DEF DInv

\* DInv is inductive, at any uptime.
LEMMA DInvStep == RInv /\ DInv /\ [Next]_vars => DInv'
<1> SUFFICES ASSUME RInv, DInv, [Next]_vars PROVE DInv'
  OBVIOUS
<1>0. RInv' /\ now \in Nat
  BY RInvStep DEF RInv, RebootTypes
<1>1. CASE Reboots
  BY <1>1, Restarted
<1>2. CASE Heartbeat /\ ~Reboots
  <2>1. CASE rebootAt # NoTime /\ now >= rebootAt
    <3>1. Schedule /\ now' = now /\ last' = last
      BY <1>2, <2>1 DEF Heartbeat, Unrequested
    <3>2. last # NoTime /\ now + Cold <= last + Delay
      BY <2>1, Constants, DelayIs DEF RInv, RebootTypes, Timely, UnderWay
    <3> QED BY <1>0, <3>1, <3>2, DeadlineSet
  <2>2. CASE ~(rebootAt # NoTime /\ now >= rebootAt)
    <3>1. /\ now >= beat /\ ~Due(deadline) /\ beat' = beat + Beat
          /\ UNCHANGED <<now, deadline, first, last, rebootAt, udp, web, can>>
      BY <1>2, <2>2 DEF Heartbeat, Unrequested, NextBeat, udpVars
    <3> QED BY <1>0, <3>1, NotDueYet
  <2> QED BY <2>1, <2>2
<1>3. CASE RebootCold
  <2>1. Schedule /\ now' = now /\ last' = now /\ last' # NoTime
    BY <1>0, <1>3 DEF RebootCold, Requested, NoTime
  <2>2. now + Cold <= last' + Delay
    BY <1>0, <2>1, Constants, DelayIs
  <2> QED BY <1>0, <2>1, <2>2, DeadlineSet
<1>4. CASE ApiRebootCold
  <2>1. Schedule /\ now' = now /\ last' = last /\ web.pc = "delay"
    BY <1>4 DEF ApiRebootCold, Unrequested
  <2>2. last # NoTime /\ now + Cold <= last + Delay
    BY <2>1, Constants, DelayIs DEF RInv, RebootTypes, Timely, UnderWay
  <2> QED BY <1>0, <2>1, <2>2, DeadlineSet
<1>5. CASE \/ Tick \/ SetRebootStatus \/ ApiReboot \/ CanReboot \/ CanSync
           \/ UdpReboot \/ UdpFactoryReset \/ UdpOther \/ UdpSent \/ UNCHANGED vars
  <2>1. /\ deadline' = deadline /\ beat' = beat /\ now <= now' /\ (last # NoTime => first' = first)
        /\ \/ last' = last /\ (Others => Others')
           \/ last' = now /\ Others'
    <3>1. CASE Tick \/ UNCHANGED vars
      <4>1. /\ UNCHANGED <<deadline, beat, first, last, rebootAt, udp, web, can>>
            /\ now' = now \/ now' = now + 1
        BY <3>1 DEF Tick, Unrequested, beatVars, udpVars, vars
      <4>2. now <= now'
        BY <1>0, <4>1
      <4>3. Others => Others'
        BY <4>1 DEF Others
      <4> QED BY <4>1, <4>2, <4>3
    <3>2. CASE SetRebootStatus
      BY <1>0, <3>2, Constants DEF SetRebootStatus, Requested, Unrequested,
         beatVars, udpVars, Others, Waits, NoTime, Idle, RInv, UnderWay
    <3>3. CASE ApiReboot
      BY <1>0, <3>3, Constants DEF ApiReboot, Requested, Unrequested,
         beatVars, udpVars, Others, Waits, NoTime, Idle, RInv, UnderWay
    <3>4. CASE CanReboot
      BY <1>0, <3>4, Constants DEF CanReboot, Requested, Unrequested,
         beatVars, udpVars, Others, Waits, NoTime, Idle, RInv, UnderWay
    <3>5. CASE CanSync
      BY <1>0, <3>5, Constants DEF CanSync, Requested, Unrequested,
         beatVars, udpVars, Others, Waits, NoTime, Idle, RInv, UnderWay
    <3>6. CASE UdpReboot
      BY <1>0, <3>6 DEF UdpReboot, Replying, Requested, Unrequested,
         beatVars, Others, Waits, Idle, RInv, UnderWay
    <3>7. CASE UdpFactoryReset
      BY <1>0, <3>7 DEF UdpFactoryReset, Replying, Requested, Unrequested,
         beatVars, Others, Waits, Idle, RInv, UnderWay
    <3>8. CASE UdpOther
      BY <1>0, <3>8 DEF UdpOther, Replying, Requested, Unrequested,
         beatVars, Others, Waits, Idle, RInv, UnderWay
    <3>9. CASE UdpSent
      BY <1>0, <3>9 DEF UdpSent, Replying, Requested, Unrequested,
         beatVars, Others, Waits, Idle, RInv, UnderWay
    <3> QED BY <1>5, <3>1, <3>2, <3>3, <3>4, <3>5, <3>6, <3>7, <3>8, <3>9
  <2> QED BY <1>0, <2>1, DeadlineKept
<1> QED
  BY <1>1, <1>2, <1>3, <1>4, <1>5 DEF Next, CanReset, UdpReset

\* A promised restart has happened before RebootBound has passed since the
\* latest promise, whatever other channels asked for in between: the one
\* deadline and the one REBOOT_AT that they share are overwritten, never lost
\* (appstate.rs reboot_due, reboot.rs due, net.rs udp_task).  It holds at every
\* uptime, for every promise that has no wrap of now_ms in that time.
THEOREM RestartsInTime == Spec => []RebootInTime
<1>1. RInv /\ DInv => RebootInTime
  <2> SUFFICES ASSUME RInv, DInv, last # NoTime, NoWrap(last, last + RebootBound)
               PROVE  now - last <= RebootBound
    BY DEF RebootInTime
  <2>1. CASE Others
    BY <2>1, Constants, DelayIs DEF Others, RInv, RebootTypes, Timely, UnderWay, NoTime
  <2>2. CASE ~Others
    <3>1. PICK s \in Nat : SetAt(s)
      BY <2>2 DEF DInv
    <3> QED BY <2>2, <3>1, Constants, DelayIs DEF SetAt, RInv, RebootTypes, Timely
  <2> QED BY <2>1, <2>2
<1> QED
  BY <1>1, RInvInit, RInvStep, DInvStep, PTL DEF Spec

\* The device restarts only on request, and no earlier than Cold after the
\* first one, so that its reply can leave (reboot.rs, net.rs, fw_can.rs): at
\* every uptime, since now_ms never gains on the time.
THEOREM NeverEarly == Spec => NoEarlyReset
<1>1. RInv /\ DInv /\ [Next]_vars => [now' < now => first # NoTime /\ now - first >= Cold]_vars
  <2> SUFFICES ASSUME RInv, DInv, Next, now' < now
               PROVE  first # NoTime /\ now - first >= Cold
    BY DEF vars
  <2>1. now \in Nat
    BY DEF RInv, RebootTypes
  <2>2. CASE Heartbeat
    <3>1. Due(deadline) /\ deadline # 0
      BY <2>1, <2>2 DEF Heartbeat, Due
    <3>2. PICK s \in Nat : SetAt(s)
      BY <3>1 DEF DInv
    <3>3. deadline = Reads(s) + Cold /\ Reads(s) \in Nat /\ Reads(s) < Wrap /\ s <= now /\ Reads(now) \in Nat
      BY <2>1, <3>2, Period DEF SetAt
    <3>4. Reads(now) >= deadline
      <4>1. deadline \in Nat /\ deadline < Wrap + Cold
        BY <3>3, Constants
      <4> QED BY <2>1, <3>1, <4>1, DueIs
    <3>5. now - s >= Cold
      <4>1. Reads(now) - Reads(s) <= now - s
        BY <2>1, <3>3, Apart
      <4> QED BY <2>1, <3>3, <3>4, <4>1, Constants
    <3> QED BY <2>1, <3>2, <3>5, Constants DEF SetAt, RInv, RebootTypes, UnderWay
  <2>3. CASE CanReset
    BY <2>1, <2>3, Constants DEF CanReset, RInv, RebootTypes, UnderWay
  <2>4. CASE UdpReset
    BY <2>1, <2>4, Constants DEF UdpReset, RInv, RebootTypes, UnderWay
  <2>5. CASE ~(Heartbeat \/ CanReset \/ UdpReset)
    BY <2>1, <2>5 DEF Next, Tick, SetRebootStatus, RebootCold, ApiReboot, ApiRebootCold,
       CanReboot, CanSync, UdpReboot, UdpFactoryReset, UdpOther, UdpSent
  <2> QED BY <2>2, <2>3, <2>4, <2>5
<1> QED
  BY <1>1, RInvInit, RInvStep, DInvStep, PTL DEF Spec, NoEarlyReset

\* FACTORY_RESET erases only within the window behind an earlier FACTORY_RESET
\* or power-up, or the same window some wraps of now_ms later (udp_cfg.rs
\* factory_reset): at every uptime.
THEOREM ErasesInTwoSteps == Spec => FactoryTwoStep
<1>1. RInv /\ [Next]_vars =>
        [erased' /\ ~erased =>
           \E k \in 0 .. now \div Wrap : now - Opened \in k * Wrap .. k * Wrap + Window]_vars
  <2> SUFFICES ASSUME RInv, Next, erased', ~erased
               PROVE  \E k \in 0 .. now \div Wrap : now - Opened \in k * Wrap .. k * Wrap + Window
    BY DEF vars
  <2>1. UdpFactoryReset /\ Confirms
    <3>1. ~Reboots
      BY DEF Reboots
    <3> QED
      BY Zenon, <3>1 DEF Next, Tick, Heartbeat, SetRebootStatus, RebootCold, ApiReboot, ApiRebootCold,
         CanReboot, CanSync, CanReset, UdpReboot, UdpFactoryReset, UdpOther, UdpSent, UdpReset, udpVars
  <2>2. now \in Nat /\ Opened \in Nat /\ Opened <= now /\ factory = Reads(Opened)
    BY DEF RInv, RebootTypes, Confirmation, Opened, NoTime
  <2> DEFINE o == Opened
             p == o \div Wrap
             q == now \div Wrap
  <2>3. /\ p \in Nat /\ q \in Nat /\ p <= q
        /\ o = Wrap * p + Reads(o) /\ Reads(o) \in Nat /\ Reads(o) < Wrap
        /\ now = Wrap * q + Reads(now) /\ Reads(now) \in Nat
    BY <2>2, Period, Apart
  <2>4. Reads(o) <= Reads(now) /\ Reads(now) - Reads(o) <= Window
    BY <2>1, <2>2, <2>3, ConfirmsIs
  <2> HIDE DEF o, p, q
  <2>5. Wrap * q - Wrap * p = (q - p) * Wrap /\ Wrap * q \in Nat /\ Wrap * p \in Nat
    BY <2>3, Constants
  <2>6. q - p \in 0 .. q
    BY <2>3
  <2>7. now - o \in (q - p) * Wrap .. (q - p) * Wrap + Window
    BY <2>2, <2>3, <2>4, <2>5, Constants DEF o
  <2> QED BY <2>6, <2>7 DEF o, q
<1> QED
  BY <1>1, RInvInit, RInvStep, PTL DEF Spec, FactoryTwoStep
-----------------------------------------------------------------------------
\* The ticker has fired once for every beat counted in the epoch and in ticks.
BeatsCounted ==
  /\ now \in Nat /\ beat \in Nat /\ epoch \in Nat /\ ticks \in Nat /\ ticks < SecBeats
  /\ beat = (epoch * SecBeats + ticks + 1) * Beat
  /\ beat <= now + Beat /\ now <= beat + Late

\* The count of beats starts again after a second.
LEMMA CountedIs ==
  ASSUME ticks \in Nat, ticks < SecBeats
  PROVE  Counted = IF ticks + 1 = SecBeats THEN 0 ELSE ticks + 1
<1>1. CASE ticks + 1 = SecBeats
  <2>1. SecBeats % SecBeats = 0
    BY Constants
  <2> QED BY <1>1, <2>1 DEF Counted
<1>2. CASE ticks + 1 # SecBeats
  BY <1>2, ModSmall, Constants DEF Counted
<1> QED BY <1>1, <1>2

\* BeatsCounted is inductive, at any uptime.
LEMMA BeatsInit == Init => BeatsCounted
BY Constants DEF Init, BeatsCounted

LEMMA BeatsStep == BeatsCounted /\ [Next]_vars => BeatsCounted'
<1> SUFFICES ASSUME BeatsCounted, [Next]_vars PROVE BeatsCounted'
  OBVIOUS
<1>1. CASE Reboots
  BY <1>1, Constants DEF Reboots, BeatsCounted
<1>2. CASE Heartbeat /\ ~Reboots
  <2>1. /\ now >= beat /\ beat' = beat + Beat /\ ticks' = Counted /\ now' = now
        /\ epoch' = IF ticks' = 0 THEN epoch + 1 ELSE epoch
    BY <1>2 DEF Heartbeat, NextBeat
  <2>2. /\ ticks' \in Nat /\ ticks' < SecBeats /\ epoch' \in Nat
        /\ epoch' * SecBeats + ticks' = epoch * SecBeats + ticks + 1
    <3>1. (epoch + 1) * SecBeats = epoch * SecBeats + SecBeats
      BY Constants DEF BeatsCounted
    <3> QED BY <2>1, <3>1, CountedIs, Constants DEF BeatsCounted
  <2>3. beat' = (epoch' * SecBeats + ticks' + 1) * Beat
    <3>1. ASSUME NEW n \in Nat PROVE n * Beat + Beat = (n + 1) * Beat
      BY Constants
    <3>2. epoch * SecBeats + ticks + 1 \in Nat
      BY Constants DEF BeatsCounted
    <3> QED BY <2>1, <2>2, <3>1, <3>2 DEF BeatsCounted
  <2> QED BY <2>1, <2>2, <2>3, Constants DEF BeatsCounted
<1>3. CASE Tick
  BY <1>3, Constants DEF Tick, InTime, NoTime, BeatsCounted, beatVars
<1>4. CASE UNCHANGED <<now, beat, ticks, epoch>>
  BY <1>4 DEF BeatsCounted
<1> QED
  BY <1>1, <1>2, <1>3, <1>4 DEF Next, SetRebootStatus, RebootCold, ApiReboot, ApiRebootCold,
     CanReboot, CanSync, CanReset, UdpReboot, UdpFactoryReset, UdpOther, UdpSent, UdpReset, beatVars, vars

\* The epoch is never ahead of the time since boot, and behind it by less than
\* a second and the lateness of one beat: late beats do not add up (main.rs
\* heartbeat, systime.rs tick_1hz).
THEOREM EpochInPace == Spec => []EpochKeepsPace
<1>1. BeatsCounted => EpochKeepsPace
  <2> SUFFICES ASSUME BeatsCounted PROVE EpochKeepsPace
    OBVIOUS
  <2>1. PICK e \in Nat : e = epoch * SecBeats
    BY Constants DEF BeatsCounted
  <2>2. beat = e * Beat + ticks * Beat + Beat
    BY <2>1, Constants DEF BeatsCounted
  <2>3. 0 <= ticks * Beat /\ (ticks + 1) * Beat <= SecBeats * Beat /\ (ticks + 1) * Beat = ticks * Beat + Beat
    BY Constants DEF BeatsCounted
  <2>4. (epoch + 1) * SecBeats * Beat = e * Beat + SecBeats * Beat
    BY <2>1, Constants DEF BeatsCounted
  <2>5. e * Beat \in Nat /\ ticks * Beat \in Nat /\ SecBeats * Beat \in Nat
    BY <2>1, Constants DEF BeatsCounted
  <2> QED
    BY <2>1, <2>2, <2>3, <2>4, <2>5, Constants DEF BeatsCounted, EpochKeepsPace
<1> QED
  BY <1>1, BeatsInit, BeatsStep, PTL DEF Spec
=============================================================================
