------------------------------ MODULE RetryAfter ------------------------------
(***************************************************************************)
(* The Retry-After parser against a calendar.  The behaviour walks the     *)
(* calendar one day at a time, counting days and weekdays; at each day the *)
(* parser's closed formula is compared with the count, and headers written *)
(* for that day and the next are parsed.                                   *)
(*                                                                         *)
(* A header is the fields the parser cuts out of its text: a date with the *)
(* day name and a time, a number of seconds, or text of neither form; a    *)
(* number whose milliseconds do not fit an i64 is ignored as such text is, *)
(* and counts as it.                                                       *)
(* Instants are a day and a second of it (milliseconds past an epoch do    *)
(* not fit TLC's integers); i64 is never exceeded by four-digit years.     *)
(***************************************************************************)
EXTENDS Integers, Sequences

CONSTANTS
  FirstYear, LastYear,   \* the years walked
  TimesOfDay             \* times of day <<hour, minute, second>>

\* 60 is a leap second.
ASSUME RetryAfterConstants ==
  /\ FirstYear \in Nat /\ LastYear \in Nat /\ 1970 \in FirstYear..LastYear
  /\ TimesOfDay \subseteq (0..23) \X (0..59) \X (0..60)

VARIABLES
  date,      \* year, month, day
  days,      \* days since 1970-01-01, counted
  weekday,   \* 0 is Monday, counted
  forward,   \* the direction of the walk
  parsed,    \* were the day's headers parsed?
  delays,    \* what they were parsed to
  taken      \* the dates of the month that were taken

dateVars == <<date, days, weekday, forward, parsed, delays, taken>>

-----------------------------------------------------------------------------
\* The parser.
\* Mutant: century years are leap years.
julian_leap_year(year) == year % 4 = 0

is_leap_year(year) == year % 4 = 0 /\ (year % 100 # 0 \/ year % 400 = 0)

days_in_month(year, month) ==
  CASE month \in {1, 3, 5, 7, 8, 10, 12} -> 31
    [] month \in {4, 6, 9, 11} -> 30
    [] month = 2 -> IF is_leap_year(year) THEN 29 ELSE 28

\* Mutant: the computational year starts in January.
january_based(year, month, day) ==
  LET era == year \div 400
      year_of_era == year - era * 400
      day_of_year == (153 * (month - 1) + 2) \div 5 + day - 1
  IN era * 146097 + year_of_era * 365 + year_of_era \div 4 - year_of_era \div 100
     + day_of_year - 719468

epoch_days(year, month, day) ==
  LET y == year - (IF month <= 2 THEN 1 ELSE 0)
      era == y \div 400
      year_of_era == y - era * 400
      month_from_march == IF month > 2 THEN month - 3 ELSE month + 9
      day_of_year == (153 * month_from_march + 2) \div 5 + day - 1
      day_of_era == year_of_era * 365 + year_of_era \div 4 - year_of_era \div 100 + day_of_year
  IN era * 146097 + day_of_era - 719468

epoch_weekday(d) == (d + 3) % 7

\* The instant a date header names, or none.
header_instant(h) ==
  IF \/ h.hour > 23 \/ h.minute > 59 \/ h.second > 60
     \/ h.day = 0 \/ h.day > days_in_month(h.year, h.month)
     \/ epoch_weekday(epoch_days(h.year, h.month, h.day)) # h.weekday
  THEN <<>>
  ELSE <<[day |-> epoch_days(h.year, h.month, h.day),
          second |-> h.hour * 3600 + h.minute * 60 + h.second]>>

clamp(millis) == IF millis < 1000 THEN 1000 ELSE IF millis > 3600000 THEN 3600000 ELSE millis

\* Milliseconds between two instants; more than two days is over the clamp.
delta(instant, now) ==
  LET apart == instant.day - now.day
  IN IF apart \in -2..2 THEN (apart * 86400 + instant.second - now.second) * 1000
     ELSE IF apart > 0 THEN 172800000 ELSE -1

\* Mutant: a date that has passed is clamped to the least delay.
past_clamped(h, now) ==
  IF header_instant(h) = <<>> THEN <<>> ELSE <<delta(header_instant(h)[1], now)>>

future_date_millis(h, now) ==
  IF header_instant(h) = <<>> \/ delta(header_instant(h)[1], now) <= 0 THEN <<>>
  ELSE <<delta(header_instant(h)[1], now)>>

\* A number above a million is over the clamp: it is cut before TLC's integers end.
delta_millis(seconds) == <<IF seconds > 1000000 THEN 1000000000 ELSE seconds * 1000>>

parse_retry_after(h, now) ==
  LET millis == CASE h.form = "delta" -> delta_millis(h.seconds)
                  [] h.form = "date" -> future_date_millis(h, now)
                  [] h.form = "other" -> <<>>
  IN IF millis = <<>> THEN <<>> ELSE <<clamp(millis[1])>>

-----------------------------------------------------------------------------
\* The calendar (external): what a date is.
MonthLength(year, month) ==
  IF month = 2
  THEN (IF (year % 400 = 0) \/ (year % 4 = 0 /\ year % 100 # 0) THEN 29 ELSE 28)
  ELSE <<31, 28, 31, 30, 31, 30, 31, 31, 30, 31, 30, 31>>[month]

Tomorrow(d) ==
  IF d.day < MonthLength(d.year, d.month) THEN [d EXCEPT !.day = @ + 1]
  ELSE IF d.month < 12 THEN [d EXCEPT !.month = @ + 1, !.day = 1]
  ELSE [year |-> d.year + 1, month |-> 1, day |-> 1]

Yesterday(d) ==
  IF d.day > 1 THEN [d EXCEPT !.day = @ - 1]
  ELSE IF d.month > 1 THEN [d EXCEPT !.month = @ - 1, !.day = MonthLength(d.year, d.month - 1)]
  ELSE [year |-> d.year - 1, month |-> 12, day |-> 31]

DateInit ==
  /\ date = [year |-> 1970, month |-> 1, day |-> 1]
  /\ days = 0 /\ weekday = 3
  /\ forward \in BOOLEAN
  /\ parsed = FALSE /\ delays = {} /\ taken = {}

Unparsed == parsed' = FALSE /\ delays' = {} /\ taken' = {}

NextDay ==
  /\ forward /\ Tomorrow(date).year <= LastYear
  /\ date' = Tomorrow(date) /\ days' = days + 1 /\ weekday' = (weekday + 1) % 7
  /\ UNCHANGED forward /\ Unparsed

PreviousDay ==
  /\ ~forward /\ Yesterday(date).year >= FirstYear
  /\ date' = Yesterday(date) /\ days' = days - 1 /\ weekday' = (weekday + 6) % 7
  /\ UNCHANGED forward /\ Unparsed

Header(d, wd, t) ==
  [form |-> "date", weekday |-> wd, year |-> d.year, month |-> d.month, day |-> d.day,
   hour |-> t[1], minute |-> t[2], second |-> t[3]]

\* At time t1 of the day a header names the time t2 of that day or of the next.
Occasions == TimesOfDay \X TimesOfDay \X {0, 1}
SecondOf(t) == t[1] * 3600 + t[2] * 60 + t[3]
NowAt(o) == [day |-> days, second |-> SecondOf(o[1])]
HeaderAt(o) == Header(IF o[3] = 0 THEN date ELSE Tomorrow(date), (weekday + o[3]) % 7, o[2])
Later(o) == o[3] * 86400 + SecondOf(o[2]) - SecondOf(o[1])

\* The first of a month, days of it that may not exist, under every day name.
Monthly == IF date.day = 1 THEN (0..6) \X {0, 1, 28, 29, 30, 31} ELSE {}

\* The day's headers are parsed, as dates and, where time is left, as seconds.
ParseHeaders ==
  /\ ~parsed /\ parsed' = TRUE
  /\ delays' =
       {[occasion |-> o, by_date |-> parse_retry_after(HeaderAt(o), NowAt(o)),
         by_seconds |-> IF Later(o) <= 0 THEN <<>>
                        ELSE parse_retry_after([form |-> "delta", seconds |-> Later(o)], NowAt(o))] :
          o \in Occasions}
  /\ taken' =
       {x \in Monthly : header_instant(Header([date EXCEPT !.day = x[2]], x[1], <<0, 0, 0>>)) # <<>>}
  /\ UNCHANGED <<date, days, weekday, forward>>

DateNext == NextDay \/ PreviousDay \/ ParseHeaders

DateSpec == DateInit /\ [][DateNext]_dateVars

-----------------------------------------------------------------------------
\* epoch_millis: the closed formula counts the days the calendar counts.
FormulaCountsDays == epoch_days(date.year, date.month, date.day) = days

\* future_date_millis: a date header is taken exactly when its date exists and
\* its day name is that date's; a 29 February of a common year, a day 31 of a
\* short month and a wrong day name are ignored.
OnlyRealDates ==
  parsed =>
    taken = {x \in Monthly : /\ x[2] \in 1..MonthLength(date.year, date.month)
                             /\ x[1] = (weekday + x[2] - date.day + 35) % 7}

\* parse_retry_after: an hour, a minute or a second past is no delay, now is no
\* delay, and a later instant, tomorrow's included, is the exact time to it
\* within the least and the greatest delay, the same as for that many seconds.
DelayIsExact ==
  \A x \in delays :
    /\ x.by_date = IF Later(x.occasion) <= 0 THEN <<>> ELSE <<clamp(Later(x.occasion) * 1000)>>
    /\ x.by_seconds = x.by_date

\* Retry-After: the closed formula counts the days the calendar counts
\* (epoch_millis); a date header is taken exactly when its date exists and its
\* day name is that date's (future_date_millis); the past and now are no delay,
\* and a later instant is the exact time to it within the least and the greatest
\* delay, the same as for that many seconds (parse_retry_after).
DatesExact == FormulaCountsDays /\ OnlyRealDates /\ DelayIsExact

-----------------------------------------------------------------------------
\* The inductive invariant: the date exists, and the day name counted is the one
\* of the number of days.
DateInv ==
  /\ date = [year |-> date.year, month |-> date.month, day |-> date.day]
  /\ date.year \in FirstYear..LastYear /\ date.month \in 1..12
  /\ date.day \in 1..MonthLength(date.year, date.month)
  /\ weekday = epoch_weekday(days)
  /\ DatesExact
=============================================================================
