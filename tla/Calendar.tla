----------------------------- MODULE Calendar -----------------------------
(***************************************************************************)
(* CDate (src/CoreLib/cdate.cpp): the conversions between the Gregorian    *)
(* and the Jalali calendar, beside a clock that goes through the days as   *)
(* localtime() counts them and the Jalali days as the civil calendar       *)
(* counts them.                                                            *)
(*                                                                         *)
(* A date is <<year, month, day>>, the empty text of a refused one <<>>.   *)
(* The time of day, the layout of the texts and the Persian digits are     *)
(* left out: nothing in the repository reads more than the year.           *)
(***************************************************************************)
EXTENDS Integers, Sequences, FiniteSetsExt

CONSTANTS Start,     \* the first day: its date, day of the year (from 0)
                     \* and of the week (from 0), and its civil Jalali date
          LastYear   \* the clock stops before the year after it

ASSUME YearsAssumption == LastYear \in Int /\ LastYear < 2100

VARIABLES tm,     \* the day in the broken-down time of localtime()
          civil   \* today's date in the civil Jalali calendar

vars == <<tm, civil>>

---------------------------------------------------------------------------
(* The arithmetic of DateConv. *)

\* C++'s remainder has the sign of the dividend.
Modulus(year) == IF year >= 0 THEN year % 4 ELSE -((-year) % 4)

IsLeapYearG(gYear) == Modulus(gYear) = 0

IsLeapYearJ(jYear) == \/ jYear > 0 /\ Modulus(jYear) = 3
                      \/ jYear < 0 /\ Modulus(jYear) = -1

MonthsG(gYear) == <<31, IF IsLeapYearG(gYear) THEN 29 ELSE 28,
                    31, 30, 31, 30, 31, 31, 30, 31, 30, 31>>

MonthsJ(jYear) == <<31, 31, 31, 31, 31, 31, 30, 30, 30, 30, 30,
                    IF IsLeapYearJ(jYear) THEN 30 ELSE 29>>

\* Three numbers, and the answers of the conversions.
Date == Int \X Int \X Int

IsRangeValidG(date) ==
    /\ date[1] < 10000 /\ date[1] > -10000
    /\ date[2] \in 1..12
    /\ date[3] \in 1..MonthsG(date[1])[date[2]]

IsRangeValidJ(date) ==
    /\ date[1] < 10000 /\ date[1] > -100
    /\ date[2] \in 1..12
    /\ date[3] \in 1..MonthsJ(date[1])[date[2]]

\* The days of the first n months.
DaysOf(months, n) ==
    LET sum[i \in 0..11] == IF i = 0 THEN 0 ELSE sum[i - 1] + months[i]
    IN  sum[n]

DayOfYearG(date) == DaysOf(MonthsG(date[1]), date[2] - 1) + date[3]
DayOfYearJ(date) == DaysOf(MonthsJ(date[1]), date[2] - 1) + date[3]

\* Does day n fall into the i-th interval of match? The interval numbered wraps
\* goes on at the beginning of the year.
Covers(n, match, wraps, i) ==
    \/ n >= match[i] /\ n < match[i + 1]
    \/ i = wraps /\ (n >= match[i] \/ n < match[i + 1])

\* The month, the first interval that day n falls into.
MonthOf(n, match, wraps) == Min({i \in 1..12 : Covers(n, match, wraps, i)})

\* The day in its month, where those of the month before the turn of the year
\* are carried.
DayIn(month, n, match, carried) ==
    IF n >= match[month] THEN n - match[month] + 1 ELSE n + carried

\* Mutant of March: the leap day of the Gregorian year to come is forgotten.
MarchThisYear(jYear) == IF IsLeapYearJ(jYear) THEN 347 ELSE 346

\* The number of the first of March.
March(jYear) == IF IsLeapYearJ(jYear) \/ IsLeapYearJ(jYear + 1) THEN 347 ELSE 346

MatchG(jYear) ==
    IF IsLeapYearJ(jYear)
    THEN <<288, 319, March(jYear), 13, 43, 74, 104, 135, 166, 196, 227, 257, 999>>
    ELSE <<287, 318, March(jYear), 12, 42, 73, 103, 134, 165, 195, 226, 256, 999>>

MatchAfter(leap) ==
    IF leap THEN <<80, 111, 142, 173, 204, 235, 266, 296, 326, 356, 20, 50, 999>>
            ELSE <<80, 111, 142, 173, 204, 235, 266, 296, 326, 356, 21, 51, 999>>

\* Mutant of MatchJ: the leap year is the current one.
MatchJThisYear(gYear) == MatchAfter(IsLeapYearG(gYear))

\* Mutant of MatchJ: no leap years.
MatchJNoLeap(gYear) == MatchAfter(FALSE)

MatchJ(gYear) == MatchAfter(IsLeapYearG(gYear - 1))

\* Their argument is a year and a day of the year.
CalcToG[day \in Int \X Int] ==
    LET jYear == day[1]
        dayOfYear == day[2]
        match == MatchG(jYear)
        month == MonthOf(dayOfYear, match, 3)
    IN  <<IF dayOfYear < match[1] THEN jYear + 621 ELSE jYear + 622,
          month,
          DayIn(month, dayOfYear, match, IF IsLeapYearJ(jYear) THEN 19 ELSE 20)>>

CalcToJ[day \in Int \X Int] ==
    LET gYear == day[1]
        dayOfYear == day[2]
        match == MatchJ(gYear)
        month == MonthOf(dayOfYear, match, 10)
    IN  <<IF dayOfYear > 79 THEN gYear - 621 ELSE gYear - 622,
          month,
          DayIn(month, dayOfYear, match, IF IsLeapYearG(gYear - 1) THEN 11 ELSE 10)>>

ToGregorian[date \in Date] ==
    IF IsRangeValidJ(date) THEN CalcToG[<<date[1], DayOfYearJ(date)>>] ELSE <<>>

ToJalali[date \in Date] ==
    IF IsRangeValidG(date) THEN CalcToJ[<<date[1], DayOfYearG(date)>>] ELSE <<>>

---------------------------------------------------------------------------
(* Now. *)

\* The constructor of Now, of which the conversions use the day: fields that
\* count from one.
Now == [DayOfMonth |-> tm.mday, Month |-> tm.mon + 1, Year |-> tm.year + 1900,
        DayOfWeek |-> tm.wday + 1, DayOfYear |-> tm.yday + 1]

ToGregorianNow(now) == <<now.Year, now.Month, now.DayOfMonth>>
ToJalaliNow(now) == CalcToJ[<<now.Year, now.DayOfYear>>]

\* The name of the day of the week; now.DayOfWeek is 1 on a Sunday.
GetPersianDayOfWeek(now) ==
    <<"yekshanbe", "doshanbe", "seshanbe", "chaharshanbe", "panjshanbe",
      "jome", "shanbe">>[now.DayOfWeek]

---------------------------------------------------------------------------
(* The world's clock: the days as localtime() and the civil calendar of    *)
(* Iran count them. In the latter a year is leap by its place in a cycle   *)
(* of 33 years.                                                            *)
(* Each day is entered once. When daylight saving time ends at midnight,   *)
(* localtime() shows the last hour of the day before again: the properties *)
(* are about the days, whichever of them the clock shows.                  *)

CivilLeapG(year) == year % 4 = 0 /\ (year % 100 # 0 \/ year % 400 = 0)
CivilLeapJ(year) == year % 33 \in {1, 5, 9, 13, 17, 22, 26, 30}

CivilMonthsG(year) == <<31, IF CivilLeapG(year) THEN 29 ELSE 28,
                        31, 30, 31, 30, 31, 31, 30, 31, 30, 31>>
CivilMonthsJ(year) == <<31, 31, 31, 31, 31, 31, 30, 30, 30, 30, 30,
                        IF CivilLeapJ(year) THEN 30 ELSE 29>>

DayAfter(date, months) ==
    IF date[3] < months[date[2]] THEN <<date[1], date[2], date[3] + 1>>
    ELSE IF date[2] < 12         THEN <<date[1], date[2] + 1, 1>>
    ELSE                              <<date[1] + 1, 1, 1>>

Today == ToGregorianNow(Now)

\* The number of a day in CDate's Jalali calendar.
DayNumber(date) == 365 * date[1] + date[1] \div 4 + DayOfYearJ(date)

\* The clock starts after 1900 with the right numbers of its day.
ASSUME StartAssumption ==
    /\ Start.date \in Date /\ IsRangeValidG(Start.date)
    /\ Start.date[1] \in 1901..LastYear
    /\ Start.yday \in Nat /\ Start.yday + 1 = DayOfYearG(Start.date)
    /\ Start.wday \in 0..6
    /\ (Start.wday + 1) % 7 = DayNumber(ToJalali[Start.date]) % 7
    /\ Start.civil \in Date /\ Start.civil[2] \in 1..12
    /\ Start.civil[3] \in 1..CivilMonthsJ(Start.civil[1])[Start.civil[2]]

Init ==
    /\ tm = [wday |-> Start.wday, yday |-> Start.yday, mday |-> Start.date[3],
             mon |-> Start.date[2] - 1, year |-> Start.date[1] - 1900]
    /\ civil = Start.civil

Midnight ==
    LET next == DayAfter(Today, CivilMonthsG(Today[1]))
    IN  /\ next[1] <= LastYear
        /\ tm' = [wday |-> (tm.wday + 1) % 7,
                  yday |-> IF next[1] = Today[1] THEN tm.yday + 1 ELSE 0,
                  mday |-> next[3], mon |-> next[2] - 1, year |-> next[1] - 1900]
        /\ civil' = DayAfter(civil, CivilMonthsJ(civil[1]))

Next == Midnight

Spec == Init /\ [][Next]_vars

---------------------------------------------------------------------------
(* Properties. *)

\* Today is a date that IsRangeValidG accepts, its day of the year as localtime()
\* counts it is the one of DayOfYearG, and what ToJalali(now) makes of it is a
\* date that IsRangeValidJ accepts.
TypeOK ==
    /\ tm \in [wday : 0..6, yday : 0..365, mday : 1..31, mon : 0..11, year : Int]
    /\ Today[1] \in Start.date[1]..LastYear /\ IsRangeValidG(Today)
    /\ Now.DayOfYear = DayOfYearG(Today)
    /\ IsRangeValidJ(ToJalaliNow(Now))
    /\ civil \in Date /\ civil[2] \in 1..12
    /\ civil[3] \in 1..CivilMonthsJ(civil[1])[civil[2]]

\* ToJalali and ToGregorian are inverse to each other: today's date comes back
\* from the Jalali calendar, and a Jalali date that is accepted comes back from
\* the Gregorian one unless its year has a fifth digit there, across every leap
\* day and turn of a year.
RoundTrip ==
    /\ ToGregorian[ToJalali[Today]] = Today
    /\ IsRangeValidJ(civil) /\ ToGregorian[civil][1] < 10000 =>
            ToJalali[ToGregorian[civil]] = civil

\* The years in which CDate's leap rule, one year in four, has the civil leap
\* years: from the year after 1371 to the one before 1408.
ExactYears == 1372..1407

\* The date of ToJalali(now) is the civil one, in ExactYears, and never more than
\* one day behind it in the years after.
AgreesWithCivil ==
    LET j == ToJalaliNow(Now)
    IN  /\ j = civil \/ DayAfter(j, CivilMonthsJ(j[1])) = civil
        /\ civil[1] \in ExactYears => j = civil

\* The conversion neither skips nor repeats a day, whatever leap days the two
\* calendars have in between: the name of the day that is shown is the one
\* that the number of the converted day asks for.
WeekdayFits ==
    GetPersianDayOfWeek(Now) =
        <<"shanbe", "yekshanbe", "doshanbe", "seshanbe", "chaharshanbe",
          "panjshanbe", "jome">>[(DayNumber(ToJalaliNow(Now)) % 7) + 1]
=============================================================================
