------------------------------- MODULE Market -------------------------------
(***************************************************************************)
(* The regular sessions of the NYSE as the program computes them           *)
(* (market.rs), from the clock and the closures the admin loads.  Times    *)
(* are Unix seconds and days are counted since 1970-01-01.  A bitmap is    *)
(* the set of the indices whose bit is set.                                *)
(***************************************************************************)
EXTENDS Integers, Sequences, Functions

CONSTANTS CALENDAR_DAYS,            \* the days a calendar covers at most
          CALENDAR_MAX_AGE_DAYS,    \* how old a closure it is given may be
          StartDays,                \* the days a behaviour may start on
          MaxDays                   \* how many days it lasts

VARIABLES
    clock,
    calendar,   \* the program's
    given       \* history: what the admin gave it, and when

vars == <<clock, calendar, given>>

HOUR == 60 * 60
DAY == 24 * HOUR
OPEN == 9 * HOUR + 30 * 60
CLOSE == 16 * HOUR
EARLY_CLOSE == 13 * HOUR

\* 0 is Sunday; day 0 was a Thursday.
Weekday(days) == (days + 4) % 7

\* Days are shifted to start on a first of March, in cycles of 400 years.
MonthDay(days) ==
    LET doe == (days + 719468) % 146097
        yoe == (doe - doe \div 1460 + doe \div 36524 - doe \div 146096) \div 365
        doy == doe - (365 * yoe + yoe \div 4 - yoe \div 100)
        mp == (5 * doy + 2) \div 153
    IN  [day |-> doy - (153 * mp + 2) \div 5 + 1,
         month |-> IF mp < 10 THEN mp + 3 ELSE mp - 9]

\* Faulty: a first of the month that is a Sunday is taken for the week before.
UsDaylightTimeLate(days) ==
    LET date == MonthDay(days)
        firstSunday == 8 - ((Weekday(days) - (date.day - 1)) % 7)
    IN  \/ date.month \in 4..10
        \/ date.month = 3 /\ date.day >= firstSunday + 7
        \/ date.month = 11 /\ date.day < firstSunday

UsDaylightTime(days) ==
    LET date == MonthDay(days)
        firstWeekday == (Weekday(days) - (date.day - 1)) % 7
        firstSunday == 1 + ((7 - firstWeekday) % 7)
    IN  \/ date.month \in 4..10
        \/ date.month = 3 /\ date.day >= firstSunday + 7
        \/ date.month = 11 /\ date.day < firstSunday

(***************************************************************************)
(* Loading a calendar, and what it says of an instant.                     *)
(***************************************************************************)
Ascending(days) == \A i \in 1..(Len(days) - 1) : days[i] < days[i + 1]

PlausibleClosure(day, validThrough, today) ==
    day \in (today - CALENDAR_MAX_AGE_DAYS)..validThrough /\ Weekday(day) \in 1..5

Loadable(holidays, earlyCloses, validThrough, today) ==
    /\ validThrough \in today..(today + CALENDAR_DAYS - 1)
    /\ Ascending(holidays) /\ Ascending(earlyCloses)
    /\ \A day \in Range(holidays) \cup Range(earlyCloses) :
         PlausibleClosure(day, validThrough, today)
    /\ Range(holidays) \cap Range(earlyCloses) = {}

\* Closures before today have no bit.
Bits(days, today) == {day - today : day \in {d \in Range(days) : d >= today}}

Loaded(holidays, earlyCloses, validThrough, today) ==
    [first_day |-> today, valid_through |-> validThrough,
     holidays |-> Bits(holidays, today), early_closes |-> Bits(earlyCloses, today)]

UsMarketOpen(now, c) ==
    LET days == now \div DAY
        index == days - c.first_day
        offset == IF UsDaylightTime(days) THEN 4 * HOUR ELSE 5 * HOUR
        close == IF index \in c.early_closes THEN EARLY_CLOSE ELSE CLOSE
    IN  /\ days \in c.first_day..c.valid_through
        /\ Weekday(days) \notin {0, 6}
        /\ index \notin c.holidays
        /\ now % DAY \in (OPEN + offset)..(close + offset - 1)

-----------------------------------------------------------------------------
(***************************************************************************)
(* The same from the civil calendar, New York's clock at each instant and  *)
(* the days of the lists.                                                  *)
(***************************************************************************)
LeapYear(y) == y % 4 = 0 /\ (y % 100 # 0 \/ y % 400 = 0)

MonthLength(y, m) ==
    IF m = 2 THEN IF LeapYear(y) THEN 29 ELSE 28
    ELSE IF m \in {4, 6, 9, 11} THEN 30 ELSE 31

DaysBefore == <<0, 31, 59, 90, 120, 151, 181, 212, 243, 273, 304, 334>>

DayNumber(y, m, d) ==
    LET before == y - 1
        leapDays == before \div 4 - before \div 100 + before \div 400 - 477
    IN  365 * (y - 1970) + leapDays + DaysBefore[m]
            + (IF m > 2 /\ LeapYear(y) THEN 1 ELSE 0) + d - 1

\* Every seventh day from a Sunday on, 1 January 2023.
IsSunday(days) == (days - DayNumber(2023, 1, 1)) % 7 = 0
IsSaturday(days) == IsSunday(days + 1)

Sundays(y, m) == {d \in 1..MonthLength(y, m) : IsSunday(DayNumber(y, m, d))}
FirstSunday(y, m) == CHOOSE d \in Sundays(y, m) : \A e \in Sundays(y, m) : d <= e
SecondSunday(y, m) == FirstSunday(y, m) + 7

YearOf(t) == CHOOSE y \in 1970..2099 :
    t \in (DayNumber(y, 1, 1) * DAY)..((DayNumber(y + 1, 1, 1) * DAY) - 1)

\* New York's time at an instant, in seconds since 1970-01-01 there: daylight
\* time starts and ends at 2:00 of the clock that ends.
NewYork(t) ==
    LET y == YearOf(t)
        starts == DayNumber(y, 3, SecondSunday(y, 3)) * DAY + (2 + 5) * HOUR
        ends == DayNumber(y, 11, FirstSunday(y, 11)) * DAY + (2 + 4) * HOUR
    IN  t - (IF t \in starts..(ends - 1) THEN 4 ELSE 5) * HOUR

InSession(t, lists) ==
    LET local == NewYork(t)
        day == local \div DAY
        close == IF day \in Range(lists.earlyCloses) THEN EARLY_CLOSE ELSE CLOSE
    IN  /\ day \in lists.first..lists.last
        /\ ~IsSunday(day) /\ ~IsSaturday(day)
        /\ day \notin Range(lists.holidays)
        /\ local % DAY \in OPEN..(close - 1)

-----------------------------------------------------------------------------
(***************************************************************************)
(* The clock jumps between the seconds at which a session can open or      *)
(* close in either of New York's times; the admin loads calendars.         *)
(***************************************************************************)
Seconds ==
    {0, DAY - 1} \cup
    {s + o * HOUR - e : s \in {OPEN, EARLY_CLOSE, CLOSE}, o \in {4, 5}, e \in {0, 1}}

Today == clock \div DAY

NothingGiven == [holidays |-> <<>>, earlyCloses |-> <<>>, first |-> 0, last |-> 0]

\* No calendar is loaded: the default one covers only the epoch's first day.
Init ==
    /\ clock \in {day * DAY : day \in StartDays}
    /\ calendar = [first_day |-> 0, valid_through |-> 0, holidays |-> {}, early_closes |-> {}]
    /\ given = NothingGiven

SetMarketCalendar(holidays, earlyCloses, validThrough) ==
    /\ Loadable(holidays, earlyCloses, validThrough, Today)
    /\ calendar' = Loaded(holidays, earlyCloses, validThrough, Today)
    /\ given' = [holidays |-> holidays, earlyCloses |-> earlyCloses,
                 first |-> Today, last |-> validThrough]
    /\ UNCHANGED clock

\* The behaviour started no more than MaxDays ago.
Running == \E day \in StartDays : clock - day * DAY \in 0..(MaxDays * DAY - 1)

Tick ==
    /\ \E s \in Seconds :
         /\ clock' = IF s = 0 THEN (Today + 1) * DAY ELSE Today * DAY + s
         /\ clock' > clock
         /\ ~\E r \in Seconds \ {0} : Today * DAY + r \in (clock + 1)..(clock' - 1)
    /\ UNCHANGED <<calendar, given>>

\* The lists an admin tries, in order or not, of days from before those that are
\* accepted to after them.
Lists ==
    LET around == (Today - CALENDAR_MAX_AGE_DAYS - 1)..(Today + CALENDAR_DAYS)
    IN  {<<>>} \cup {<<d>> : d \in around}
            \cup {<<d, d + 1>> : d \in around} \cup {<<Today + 1, Today>>}

Next ==
    \/ Running /\ Tick
    \/ \E holidays, earlyCloses \in Lists :
         \E last \in {Today - 1, Today, Today + CALENDAR_DAYS - 1, Today + CALENDAR_DAYS} :
            SetMarketCalendar(holidays, earlyCloses, last)

Spec == Init /\ [][Next]_vars

-----------------------------------------------------------------------------
(* The program is in a session exactly when the NYSE is, by the civil      *)
(* calendar, New York's clock and the lists the admin loaded, from the day *)
(* they were loaded to the last they are good for: although it knows the   *)
(* month only from a day count, takes one offset for a whole UTC day, and  *)
(* keeps the closures as bits counted from the day it was told them        *)
(* (us_market_open, MarketCalendar::new).                                  *)
SessionsAreNyse == UsMarketOpen(clock, calendar) <=> InSession(clock, given)
=============================================================================
