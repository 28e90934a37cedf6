-------------------------------- MODULE Calendar --------------------------------
(***************************************************************************)
(* The dates dbsnap prints: format_unix_utc and civil_from_days.  Years    *)
(* are counted from March, so that a leap day is the last day of its year, *)
(* and in eras of 400 years, which all have the same number of days.       *)
(***************************************************************************)
EXTENDS Integers

\* civil_from_days, for the days format_unix_utc asks for: none before 1970.
DaysOfEra == 146097
\* Days from 1 March of the year 0 to 1 January 1970.
Shift == 719468

YearOfEra(doe) == (doe - doe \div 1460 + doe \div 36524 - doe \div 146096) \div 365

DayOfYear(doe, yoe) == doe - (365 * yoe + yoe \div 4 - yoe \div 100)

\* Months from March on: 31, 30, 31, 30, 31 days, twice, and then the rest.
MonthOf(doy) == (5 * doy + 2) \div 153

DayOfMonth(doy, mp) == doy - (153 * mp + 2) \div 5 + 1

Civil(era, doe) ==
    LET yoe == YearOfEra(doe)
        doy == DayOfYear(doe, yoe)
        mp  == MonthOf(doy)
        y   == yoe + era * 400
        m   == IF mp < 10 THEN mp + 3 ELSE mp - 9
    IN  [year |-> IF m <= 2 THEN y + 1 ELSE y, month |-> m, day |-> DayOfMonth(doy, mp)]

CivilFromDays(days) ==
    LET z == days + Shift IN Civil(z \div DaysOfEra, z % DaysOfEra)

\* The time of day, and nothing at all for a clock that is not past 1970.
Unknown == [date |-> "unknown"]

FormatUnixUtc(secs) ==
    IF secs <= 0 THEN Unknown
    ELSE LET rem == secs % 86400
         IN  [date   |-> CivilFromDays(secs \div 86400),
              hour   |-> rem \div 3600, minute |-> (rem % 3600) \div 60,
              second |-> rem % 60]
-------------------------------------------------------------------------------
(* The Gregorian calendar, one day after the other. *)
IsLeap(y) == y % 4 = 0 /\ (y % 100 # 0 \/ y % 400 = 0)

LengthOf(y, m) ==
    IF m = 2 THEN (IF IsLeap(y) THEN 29 ELSE 28)
    ELSE IF m \in {4, 6, 9, 11} THEN 30 ELSE 31

Date(y, m, d) == [year |-> y, month |-> m, day |-> d]

NextDay(t) ==
    IF t.day < LengthOf(t.year, t.month) THEN Date(t.year, t.month, t.day + 1)
    ELSE IF t.month < 12 THEN Date(t.year, t.month + 1, 1)
    ELSE Date(t.year + 1, 1, 1)
===============================================================================
