----------------------------- MODULE CalendarProofs -----------------------------
(***************************************************************************)
(* civil_from_days follows the Gregorian calendar from 1970 on, for ever.  *)
(***************************************************************************)
EXTENDS Calendar, TLAPS

\* The last day of the March-based year yoe of an era: a leap year ends with
\* 29 February.
LeapOfEra(yoe) == (yoe + 1) % 4 = 0 /\ ((yoe + 1) % 100 # 0 \/ yoe = 399)
LastDay(yoe)   == IF LeapOfEra(yoe) THEN 365 ELSE 364

\* A day of an era has a year and a day in it.
LEMMA YearAndDay ==
    ASSUME NEW doe \in Nat, doe < DaysOfEra
    PROVE  /\ YearOfEra(doe) \in Nat /\ YearOfEra(doe) <= 399
           /\ DayOfYear(doe, YearOfEra(doe)) \in Nat
           /\ DayOfYear(doe, YearOfEra(doe)) <= LastDay(YearOfEra(doe))
  <1>1. YearOfEra(doe) \in Nat /\ YearOfEra(doe) <= 399
    BY SMT DEF YearOfEra, DaysOfEra
  <1>2. DayOfYear(doe, YearOfEra(doe)) \in Nat /\ DayOfYear(doe, YearOfEra(doe)) <= 365
    BY SMTT(30) DEF YearOfEra, DayOfYear, DaysOfEra
  <1>3. DayOfYear(doe, YearOfEra(doe)) = 365 => LeapOfEra(YearOfEra(doe))
    BY SMTT(30) DEF YearOfEra, DayOfYear, DaysOfEra, LeapOfEra
  <1> QED  BY <1>1, <1>2, <1>3 DEF LastDay

\* The next day is the next of the year, or the first of the next year.
LEMMA NextOfEra ==
    ASSUME NEW doe \in Nat, doe + 1 < DaysOfEra,
           NEW y, y = YearOfEra(doe), NEW z, z = YearOfEra(doe + 1)
    PROVE  \/ z = y /\ DayOfYear(doe + 1, z) = DayOfYear(doe, y) + 1
           \/ z = y + 1 /\ DayOfYear(doe + 1, z) = 0 /\ DayOfYear(doe, y) = LastDay(y)
  <1>1. z = y \/ z = y + 1
    BY SMTT(30) DEF YearOfEra, DaysOfEra
  <1>2. ASSUME z = y  PROVE DayOfYear(doe + 1, z) = DayOfYear(doe, y) + 1
    BY <1>2, YearAndDay, SMTT(30) DEF DayOfYear, DaysOfEra
  <1>3. ASSUME z = y + 1  PROVE DayOfYear(doe + 1, z) = 0
    BY <1>3, SMTT(30) DEF YearOfEra, DayOfYear, DaysOfEra
  <1>4. ASSUME z = y + 1  PROVE DayOfYear(doe, y) = LastDay(y)
    BY <1>4, SMTT(30) DEF YearOfEra, DayOfYear, DaysOfEra, LastDay, LeapOfEra
  <1> QED  BY <1>1, <1>2, <1>3, <1>4

\* The last day of an era.
LEMMA LastOfEra ==
    /\ YearOfEra(DaysOfEra - 1) = 399 /\ DayOfYear(DaysOfEra - 1, 399) = 365
    /\ YearOfEra(0) = 0 /\ DayOfYear(0, 0) = 0
BY SMT DEF YearOfEra, DayOfYear, DaysOfEra

\* The months of a year that begins in March.
Days(mp, last) == IF mp = 11 THEN last - 336 ELSE IF mp \in {1, 3, 6, 8} THEN 30 ELSE 31

LEMMA NextOfYear ==
    ASSUME NEW last \in {364, 365}, NEW doy \in Nat, doy <= last,
           NEW mp, mp = MonthOf(doy)
    PROVE  /\ mp \in 0 .. 11
           /\ DayOfMonth(doy, mp) \in Nat /\ DayOfMonth(doy, mp) >= 1
           /\ DayOfMonth(doy, mp) <= Days(mp, last)
           /\ doy < last =>
                IF DayOfMonth(doy, mp) < Days(mp, last)
                THEN MonthOf(doy + 1) = mp /\ DayOfMonth(doy + 1, mp) = DayOfMonth(doy, mp) + 1
                ELSE mp < 11 /\ MonthOf(doy + 1) = mp + 1 /\ DayOfMonth(doy + 1, mp + 1) = 1
           /\ doy = last => mp = 11 /\ DayOfMonth(doy, mp) = Days(mp, last)
  <1>1. mp \in Nat /\ mp <= 11
    BY SMT DEF MonthOf
  <1> QED  BY <1>1, SMTT(60) DEF MonthOf, DayOfMonth, Days

LEMMA LeapEveryEra ==
    ASSUME NEW era \in Nat, NEW yoe \in Nat, yoe <= 399
    PROVE  LeapOfEra(yoe) <=> IsLeap(yoe + era * 400 + 1)
  <1> DEFINE x == yoe + 1
  <1>1. yoe + era * 400 + 1 = x + 400 * era /\ x \in Nat /\ x <= 400
    BY SMT
  <1>2. (x + 400 * era) % 4 = x % 4
    BY <1>1, SMT
  <1>3. (x + 400 * era) % 100 = x % 100
    BY <1>1, SMT
  <1>4. (x + 400 * era) % 400 = x % 400
    BY <1>1, SMT
  <1>5. yoe = 399 <=> x % 400 = 0
    BY <1>1, SMT
  <1> QED  BY <1>1, <1>2, <1>3, <1>4, <1>5 DEF LeapOfEra, IsLeap

\* What Civil makes of the day doy of the year yoe of an era.
DateOf(era, yoe, doy) ==
    LET mp == MonthOf(doy)
        y  == yoe + era * 400
        m  == IF mp < 10 THEN mp + 3 ELSE mp - 9
    IN  [year |-> IF m <= 2 THEN y + 1 ELSE y, month |-> m, day |-> DayOfMonth(doy, mp)]

LEMMA CivilIsDateOf ==
    ASSUME NEW era, NEW doe
    PROVE  Civil(era, doe) = DateOf(era, YearOfEra(doe), DayOfYear(doe, YearOfEra(doe)))
BY DEF Civil, DateOf

\* The parts of a date.
LEMMA PartsOfDate ==
    ASSUME NEW y, NEW m, NEW d
    PROVE  /\ Date(y, m, d).year = y /\ Date(y, m, d).month = m /\ Date(y, m, d).day = d
           /\ NextDay(Date(y, m, d)) = IF d < LengthOf(y, m) THEN Date(y, m, d + 1)
                                      ELSE IF m < 12 THEN Date(y, m + 1, 1)
                                      ELSE Date(y + 1, 1, 1)
BY DEF Date, NextDay

\* The next day within a March-based year.
LEMMA NextWithinYear ==
    ASSUME NEW era \in Nat, NEW yoe \in Nat, yoe <= 399,
           NEW doy \in Nat, doy < LastDay(yoe)
    PROVE  DateOf(era, yoe, doy + 1) = NextDay(DateOf(era, yoe, doy))
  <1> DEFINE last == LastDay(yoe)
  <1>1. last \in {364, 365} /\ doy <= last /\ doy + 1 <= last
    BY SMT DEF LastDay
  <1>2. PICK mp \in 0 .. 11 : mp = MonthOf(doy)
    BY <1>1, NextOfYear
  <1>3. PICK dom \in Nat : dom = DayOfMonth(doy, mp)
    BY <1>1, <1>2, NextOfYear
  <1>4. /\ dom <= Days(mp, last)
        /\ IF dom < Days(mp, last)
           THEN MonthOf(doy + 1) = mp /\ DayOfMonth(doy + 1, mp) = dom + 1
           ELSE mp < 11 /\ MonthOf(doy + 1) = mp + 1 /\ DayOfMonth(doy + 1, mp + 1) = 1
    BY <1>1, <1>2, <1>3, NextOfYear
  <1>5. PICK y \in Nat : y = yoe + era * 400
    BY SMT
  <1>6. last = IF IsLeap(y + 1) THEN 365 ELSE 364
    BY <1>5, LeapEveryEra DEF LastDay
  <1> DEFINE m(k) == IF k < 10 THEN k + 3 ELSE k - 9
             n(k) == IF m(k) <= 2 THEN y + 1 ELSE y
  <1>7. DateOf(era, yoe, doy) = Date(n(mp), m(mp), dom)
    BY <1>2, <1>3, <1>5 DEF DateOf, Date
  <1>8. Days(mp, last) = LengthOf(n(mp), m(mp))
    BY <1>2, <1>5, <1>6, SMT DEF Days, LengthOf
  <1>9. CASE dom < Days(mp, last)
    <2>1. DateOf(era, yoe, doy + 1) = Date(n(mp), m(mp), dom + 1)
      BY <1>4, <1>5, <1>9 DEF DateOf, Date
    <2> QED  BY <1>7, <1>8, <1>9, <2>1, PartsOfDate
  <1>10. CASE ~(dom < Days(mp, last))
    <2>1. mp < 11 /\ DateOf(era, yoe, doy + 1) = Date(n(mp + 1), m(mp + 1), 1)
      BY <1>4, <1>5, <1>10 DEF DateOf, Date
    <2>2. IF m(mp) < 12 THEN n(mp + 1) = n(mp) /\ m(mp + 1) = m(mp) + 1
                        ELSE n(mp + 1) = n(mp) + 1 /\ m(mp + 1) = 1
      BY <1>2, <2>1, SMT
    <2> HIDE DEF m, n
    <2> QED  BY <1>7, <1>8, <1>10, <2>1, <2>2, PartsOfDate
  <1> QED  BY <1>9, <1>10

\* 1 March follows the last day of February.
LEMMA NextYear ==
    ASSUME NEW era \in Nat, NEW yoe \in Nat, yoe <= 399
    PROVE  /\ NextDay(DateOf(era, yoe, LastDay(yoe))) = Date(yoe + era * 400 + 1, 3, 1)
           /\ DateOf(era, yoe, 0) = Date(yoe + era * 400, 3, 1)
  <1> DEFINE last == LastDay(yoe)
  <1>1. last \in {364, 365} /\ last \in Nat
    BY SMT DEF LastDay
  <1>2. MonthOf(last) = 11 /\ DayOfMonth(last, 11) = last - 336
    BY <1>1, SMT DEF MonthOf, DayOfMonth
  <1>3. PICK y \in Nat : y = yoe + era * 400
    BY SMT
  <1>4. DateOf(era, yoe, last) = Date(y + 1, 2, last - 336)
    BY <1>2, <1>3, SMT DEF DateOf, Date
  <1>5. last - 336 = LengthOf(y + 1, 2)
    BY <1>3, LeapEveryEra, SMT DEF LastDay, LengthOf
  <1>6. NextDay(Date(y + 1, 2, last - 336)) = Date(y + 1, 3, 1)
    <2> HIDE DEF last
    <2>1. ~(last - 336 < LengthOf(y + 1, 2)) /\ 2 < 12 /\ 2 + 1 = 3
      BY <1>1, <1>5, SMT
    <2> QED  BY <2>1, PartsOfDate
  <1>7. MonthOf(0) = 0 /\ DayOfMonth(0, 0) = 1
    BY SMT DEF MonthOf, DayOfMonth
  <1>8. DateOf(era, yoe, 0) = Date(y, 3, 1)
    BY <1>3, <1>7, SMT DEF DateOf, Date
  <1> QED  BY <1>3, <1>4, <1>6, <1>8

\* 1 January 1970 is day 0.
THEOREM CalendarBegins == CivilFromDays(0) = Date(1970, 1, 1)
BY SMT DEF CivilFromDays, Civil, DaysOfEra, Shift, YearOfEra, DayOfYear, MonthOf,
           DayOfMonth, Date

\* How CivilFromDays splits day n and the day after it.
Splits(n, era, doe) ==
    /\ doe < DaysOfEra
    /\ (n + Shift) \div DaysOfEra = era /\ (n + Shift) % DaysOfEra = doe
    /\ doe + 1 < DaysOfEra =>
         (n + 1 + Shift) \div DaysOfEra = era /\ (n + 1 + Shift) % DaysOfEra = doe + 1
    /\ ~(doe + 1 < DaysOfEra) =>
         /\ doe = DaysOfEra - 1
         /\ (n + 1 + Shift) \div DaysOfEra = era + 1
         /\ (n + 1 + Shift) % DaysOfEra = 0

LEMMA SplitDays ==
    ASSUME NEW n \in Nat  PROVE \E era, doe \in Nat : Splits(n, era, doe)
BY SMT DEF Splits, DaysOfEra, Shift

\* Every day is the day after the one before, in the Gregorian calendar.
THEOREM CalendarFollows ==
    \A n \in Nat : CivilFromDays(n + 1) = NextDay(CivilFromDays(n))
  <1> SUFFICES ASSUME NEW n \in Nat
               PROVE  CivilFromDays(n + 1) = NextDay(CivilFromDays(n))
    OBVIOUS
  <1>1. PICK era, doe \in Nat : Splits(n, era, doe)
    BY SplitDays
  <1> DEFINE y   == YearOfEra(doe)
             doy == DayOfYear(doe, y)
  <1>2. CivilFromDays(n) = DateOf(era, y, doy)
    BY <1>1, CivilIsDateOf DEF CivilFromDays, Splits
  <1>3. y \in Nat /\ y <= 399 /\ doy \in Nat /\ doy <= LastDay(y)
    BY <1>1, YearAndDay DEF Splits
  <1>4. CASE doe + 1 < DaysOfEra
    <2> DEFINE z == YearOfEra(doe + 1)
               doz == DayOfYear(doe + 1, z)
    <2>1. CivilFromDays(n + 1) = DateOf(era, z, doz)
      BY <1>1, <1>4, CivilIsDateOf DEF CivilFromDays, Splits
    <2>2. z \in Nat /\ z <= 399 /\ doz \in Nat /\ doz <= LastDay(z)
      BY <1>1, <1>4, YearAndDay
    <2>3. CASE z = y /\ doz = doy + 1
      <3>1. doy < LastDay(y)
        <4> HIDE DEF y, z, doy, doz
        <4> QED  BY <1>3, <2>2, <2>3, SMT DEF LastDay
      <3> QED  BY <1>1, <1>2, <1>3, <2>1, <2>3, <3>1, NextWithinYear
    <2>4. CASE z = y + 1 /\ doz = 0 /\ doy = LastDay(y)
      <3>1. DateOf(era, z, doz) = Date(z + era * 400, 3, 1)
        BY <1>1, <2>2, <2>4, NextYear
      <3>2. NextDay(DateOf(era, y, doy)) = Date(y + era * 400 + 1, 3, 1)
        BY <1>1, <1>3, <2>4, NextYear
      <3>3. z + era * 400 = y + era * 400 + 1
        <4> HIDE DEF y, z, doy, doz
        <4> QED  BY <1>1, <1>3, <2>4, SMT
      <3> QED  BY <1>2, <2>1, <3>1, <3>2, <3>3
    <2> QED  BY <1>1, <1>4, <2>3, <2>4, NextOfEra
  <1>5. CASE ~(doe + 1 < DaysOfEra)
    <2>1. CivilFromDays(n + 1) = DateOf(era + 1, 0, 0)
      BY <1>1, <1>5, CivilIsDateOf, LastOfEra DEF CivilFromDays, Splits
    <2>2. y = 399 /\ doy = 365
      BY <1>1, <1>5, LastOfEra DEF Splits
    <2>3. LastDay(399) = 365
      BY SMT DEF LastDay, LeapOfEra
    <2>4. DateOf(era + 1, 0, 0) = Date(0 + (era + 1) * 400, 3, 1)
      BY <1>1, NextYear
    <2>5. NextDay(DateOf(era, y, doy)) = Date(399 + era * 400 + 1, 3, 1)
      BY <1>1, <2>2, <2>3, NextYear
    <2>6. 0 + (era + 1) * 400 = 399 + era * 400 + 1
      BY <1>1, SMT
    <2> QED  BY <1>2, <2>1, <2>4, <2>5, <2>6
  <1> QED  BY <1>4, <1>5

\* The time of day printed beside the date is what is left of the seconds.
THEOREM TimeOfDay ==
    \A secs \in Nat \ {0} :
        LET t == FormatUnixUtc(secs)
        IN  /\ t.date = CivilFromDays(secs \div 86400)
            /\ t.hour \in 0 .. 23 /\ t.minute \in 0 .. 59 /\ t.second \in 0 .. 59
            /\ secs = 86400 * (secs \div 86400) + 3600 * t.hour + 60 * t.minute + t.second
  <1> SUFFICES ASSUME NEW secs \in Nat, secs > 0
               PROVE  LET t == FormatUnixUtc(secs)
                      IN  /\ t.date = CivilFromDays(secs \div 86400)
                          /\ t.hour \in 0 .. 23 /\ t.minute \in 0 .. 59
                          /\ t.second \in 0 .. 59
                          /\ secs = 86400 * (secs \div 86400) + 3600 * t.hour
                                       + 60 * t.minute + t.second
    BY SMT
  <1>1. PICK rem \in Nat : /\ rem = secs % 86400 /\ rem < 86400
                           /\ secs = 86400 * (secs \div 86400) + rem
    BY SMT
  <1>2. FormatUnixUtc(secs) =
          [date |-> CivilFromDays(secs \div 86400), hour |-> rem \div 3600,
           minute |-> (rem % 3600) \div 60, second |-> rem % 60]
    BY <1>1, SMT DEF FormatUnixUtc
  <1>3. /\ rem \div 3600 \in Nat /\ rem \div 3600 <= 23
        /\ (rem % 3600) \div 60 \in Nat /\ (rem % 3600) \div 60 <= 59
        /\ rem % 60 \in Nat /\ rem % 60 <= 59
        /\ rem = 3600 * (rem \div 3600) + 60 * ((rem % 3600) \div 60) + (rem % 60)
    BY <1>1, SMT
  <1> QED  BY <1>1, <1>2, <1>3, SMT
================================================================================
