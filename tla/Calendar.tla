------------------------------- MODULE Calendar -------------------------------
(***************************************************************************)
(* src/base/datetime.c: cron_next_timeout, which tells a period timer of   *)
(* the event loop when to expire next, and datetime_past and                *)
(* datetime_future, which walk over the months of the real calendar.        *)
(*                                                                          *)
(* cron_next_timeout is modelled on a calendar of a few seconds, minutes,   *)
(* hours and days, which are constants; localtime and mktime of that        *)
(* calendar know no daylight saving time.                                   *)
(***************************************************************************)
EXTENDS Integers, Sequences, FiniteSets, FiniteSetsExt, SequencesExt

CONSTANTS MINUTE, HOUR, DAY, WEEK, \* SECONDS_PER_MINUTE ... SECONDS_PER_WEEK
          Months,                  \* the days of each month of a year
          MaxLate,                 \* how late a timer may be called
          Starts, Spans, MaxMoves  \* dates to start from, days to move by, bound on the moves

VARIABLES period,                  \* a period timer, with armed: the time cron_next_timeout was called
          date,                    \* a date
          number, moves            \* history: the number of its day; the moves made

calendarVars == <<period, date, number, moves>>
-----------------------------------------------------------------------------
(* localtime and mktime                                                      *)

DaysBefore(mon) == FoldSeq(+, 0, SubSeq(Months, 1, mon))
YearDays == DaysBefore(Len(Months))
YEAR == YearDays * DAY

\* A field may be out of range, and carries over to the next one.
mktime(tm) ==
  (tm.year * YearDays + DaysBefore(tm.mon) + tm.mday - 1) * DAY + tm.hour * HOUR + tm.min * MINUTE + tm.sec

localtime(t) ==
  LET yday == (t % YEAR) \div DAY
      mon == Max({m \in 0..(Len(Months) - 1) : DaysBefore(m) <= yday})
  IN  [year |-> t \div YEAR, mon |-> mon, mday |-> yday - DaysBefore(mon) + 1,
       wday |-> (t % WEEK) \div DAY,
       hour |-> (t % DAY) \div HOUR, min |-> (t % HOUR) \div MINUTE, sec |-> t % MINUTE]

-----------------------------------------------------------------------------
(* cron_next_timeout                                                         *)

Periods ==
  [minute : -1..(HOUR \div MINUTE - 1), hour : -1..(DAY \div HOUR - 1), week : -1..(WEEK \div DAY - 1),
   day : {-1} \cup 1..Min(Range(Months)), month : {-1} \cup DOMAIN Months]

period_type(p) ==
  IF p.week >= 0 THEN "weekly"
  ELSE IF p.day > 0 THEN (IF p.month > 0 THEN "yearly" ELSE "monthly")
  ELSE IF p.hour >= 0 THEN "daily"
  ELSE IF p.minute >= 0 THEN "hourly" ELSE "minutely"


\* mktime brings the fields of tm into range.
cron_next_timeout(p, tt) ==
  LET type == period_type(p)
      now == localtime(tt)
      tm == [now EXCEPT !.sec = 0,
               !.min = IF p.minute >= 0 THEN p.minute ELSE @,
               !.hour = IF p.hour >= 0 THEN p.hour ELSE @,
               !.mday = IF type \in {"monthly", "yearly"} THEN p.day ELSE @,
               !.mon = IF type = "yearly" THEN p.month - 1 ELSE @]
      tt_round == mktime(tm) + (IF p.week >= 0 THEN (p.week - now.wday) * DAY ELSE 0)
      again == localtime(mktime(tm))
  IN  IF tt_round > tt THEN tt_round
      ELSE CASE type = "minutely" -> tt_round + MINUTE
             [] type = "hourly" -> tt_round + HOUR
             [] type = "daily" -> tt_round + DAY
             [] type = "weekly" -> tt_round + WEEK
             [] type = "monthly" -> mktime([again EXCEPT !.mon = @ + 1])
             [] type = "yearly" -> mktime([again EXCEPT !.year = @ + 1])

\* evtimer_add_period, and __evloop_process_timers when the timer expires.
Armed(p, tt) == [p |-> p, armed |-> tt, next_timeout |-> cron_next_timeout(p, tt)]

Expires ==
  /\ period.next_timeout <= 2 * YEAR
  /\ \E late \in 0..MaxLate : period' = Armed(period.p, period.next_timeout + late)
-----------------------------------------------------------------------------
(* datetime_past and datetime_future                                         *)

s_days == <<31, 28, 31, 30, 31, 30, 31, 31, 30, 31, 30, 31>>

\* Mutant: every fourth year is a leap year.
IS_LEAP_YEARFourth(y) == y % 4 = 0

IS_LEAP_YEAR(y) == (y % 4 = 0 /\ y % 100 # 0) \/ y % 400 = 0

days_of_month(month, year) == s_days[month] + (IF month = 2 /\ IS_LEAP_YEAR(year) THEN 1 ELSE 0)

\* The month before, or after, the month of d.
Before(d) == IF d.month = 1 THEN [year |-> d.year - 1, month |-> 12] ELSE [year |-> d.year, month |-> d.month - 1]
After(d) == IF d.month = 12 THEN [year |-> d.year + 1, month |-> 1] ELSE [year |-> d.year, month |-> d.month + 1]
At(m, day) == [year |-> m.year, month |-> m.month, day |-> day]

RECURSIVE datetime_past(_, _)
datetime_past(d, sub) ==
  LET m == Before(d) IN
  IF sub = 0 THEN d
  ELSE IF d.day > sub THEN [d EXCEPT !.day = @ - sub]
  ELSE datetime_past(At(m, days_of_month(m.month, m.year)), sub - d.day)

RECURSIVE datetime_future(_, _)
datetime_future(d, sub) ==
  LET mdays == days_of_month(d.month, d.year) IN
  IF sub = 0 THEN d
  ELSE IF d.day + sub <= mdays THEN [d EXCEPT !.day = @ + sub]
  ELSE datetime_future(At(After(d), 1), sub - (mdays - d.day + 1))

\* The day a date is, counted from 1 March of the year 0.
DayNumber(d) ==
  LET y == IF d.month <= 2 THEN d.year - 1 ELSE d.year
      m == (d.month + 9) % 12
  IN  365 * y + y \div 4 - y \div 100 + y \div 400 + (153 * m + 2) \div 5 + d.day

Past(days) == date' = datetime_past(date, days) /\ number' = number - days
Future(days) == date' = datetime_future(date, days) /\ number' = number + days

Moves == moves < MaxMoves /\ moves' = moves + 1 /\ \E days \in Spans : Past(days) \/ Future(days)
-----------------------------------------------------------------------------
PeriodInit == \E p \in Periods, tt \in 0..(DAY - 1) : period = Armed(p, tt)
DateInit == date \in Starts /\ number = DayNumber(date) /\ moves = 0

CalendarInit == PeriodInit /\ DateInit

CalendarNext ==
  \/ Expires /\ UNCHANGED <<date, number, moves>>
  \/ Moves /\ UNCHANGED period

CalendarSpec == CalendarInit /\ [][CalendarNext]_calendarVars
-----------------------------------------------------------------------------
\* The times of a period: it fixes the fields it names, and takes those below them
\* that it leaves open from the time it is asked.
Agrees(p, tt, t) ==
  LET type == period_type(p)
      now == localtime(tt)
      tm == localtime(t)
  IN  /\ tm.sec = 0
      /\ type # "minutely" => tm.min = IF p.minute >= 0 THEN p.minute ELSE now.min
      /\ type \notin {"minutely", "hourly"} => tm.hour = IF p.hour >= 0 THEN p.hour ELSE now.hour
      /\ type = "weekly" => tm.wday = p.week
      /\ type \in {"monthly", "yearly"} => tm.mday = p.day
      /\ type = "yearly" => tm.mon = p.month - 1


\* datetime_past and datetime_future move by as many days as they are told, and end
\* on a day that exists.
DatesExact ==
  /\ DayNumber(date) = number
  /\ date.month \in 1..12 /\ date.day \in 1..days_of_month(date.month, date.year)
=============================================================================
