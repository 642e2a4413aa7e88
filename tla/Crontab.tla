------------------------------- MODULE Crontab -------------------------------
(***************************************************************************)
(* When a scheduled function is due (tomodachi/helpers/crontab.py): what a *)
(* crontab notation means, how its next moment is searched for, and the    *)
(* moments at which a loop that always asks for the next one invokes its   *)
(* function.  The calendar is a parameter: the program's has 60 minutes,   *)
(* 24 hours, 7 weekdays, 12 months and the years 1970 to 2099.             *)
(*                                                                         *)
(* A moment is a minute of the calendar.  The seconds of the time a search *)
(* starts from matter only in being zero or not.  Text is left out: a      *)
(* field of a notation is a set of parts (its elements between commas),    *)
(* and names of months and weekdays are their numbers.                     *)
(***************************************************************************)
EXTENDS Integers, FiniteSets

CONSTANTS MinutesPerHour, HoursPerDay, DaysPerWeek, MonthsPerYear,
          FirstYear, LastYear,
          LongestMonth, ShortestMonth, \* days (31, 28)
          MonthDays,                   \* the days of each month of each year
          FirstWeekday,                \* the weekday of the first day, 0 is sunday
          Crontabs                     \* the notations: functions from Fields to sets of parts

Fields == {"minute", "hour", "day", "month", "isoweekday", "year"}
Low  == [minute |-> 0, hour |-> 0, day |-> 1, month |-> 1, isoweekday |-> 0, year |-> FirstYear]
High == [minute |-> MinutesPerHour - 1, hour |-> HoursPerDay - 1, day |-> LongestMonth,
         month |-> MonthsPerYear, isoweekday |-> DaysPerWeek, year |-> LastYear]

\* The parts of a field: "*" or "?" (which differ in UseDays and UseWeekdays),
\* one value, or a range; each with an "L" in front of it or not, and with a
\* step ("/n") or none (0).  A range of weekdays may be given by names.
PartsOf(f) ==
  [kind : {"*", "?", "one", "range"}, from : Nat, to : Nat, named : BOOLEAN,
   last : BOOLEAN, step : Nat]

ASSUME CrontabAssumption ==
  /\ {MinutesPerHour, HoursPerDay, DaysPerWeek, MonthsPerYear} \subseteq Nat \ {0}
  /\ FirstYear \in Nat /\ LastYear \in Nat /\ FirstYear <= LastYear
  /\ ShortestMonth \in Nat /\ LongestMonth \in Nat /\ DaysPerWeek <= ShortestMonth
  /\ MonthDays \in [FirstYear..LastYear -> [1..MonthsPerYear -> ShortestMonth..LongestMonth]]
  /\ FirstWeekday \in 0..(DaysPerWeek - 1)
  /\ \A c \in Crontabs : /\ DOMAIN c = Fields
                         /\ \A f \in Fields : c[f] # {} /\ \A p \in c[f] : p \in PartsOf(f)

VARIABLES
  crontab,  \* the notation of the function
  clock,    \* the moment the next call was computed in
  whole,    \* whether that was in second 0
  call      \* the next call: a set of at most one moment, empty when there is none

cronVars == <<crontab, clock, whole, call>>

-----------------------------------------------------------------------------
(* The calendar.                                                             *)

Days == {d \in [year : FirstYear..LastYear, month : 1..MonthsPerYear, day : 1..LongestMonth] :
           d.day <= MonthDays[d.year][d.month]}

DayOrder(d) == (d.year * (MonthsPerYear + 1) + d.month) * (LongestMonth + 1) + d.day
Order(t) == (DayOrder(t) * HoursPerDay + t.hour) * MinutesPerHour + t.minute

\* The first of a set of moments, as a set: empty when there is none.
Earliest(S) == {t \in S : \A u \in S : Order(t) <= Order(u)}

Weekdays ==
  [d \in Days |-> (FirstWeekday + Cardinality({e \in Days : DayOrder(e) < DayOrder(d)})) % DaysPerWeek]
Weekday(t) == Weekdays[[year |-> t.year, month |-> t.month, day |-> t.day]]

Length(t) == MonthDays[t.year][t.month]
Moment(y, m, d, h, i) == [year |-> y, month |-> m, day |-> d, hour |-> h, minute |-> i]
Midnight(d) == Moment(d.year, d.month, d.day, 0, 0)
Midnights == {Midnight(d) : d \in Days}
Moments == {Moment(d.year, d.month, d.day, h, i) :
              d \in Days, h \in 0..(HoursPerDay - 1), i \in 0..(MinutesPerHour - 1)}

-----------------------------------------------------------------------------
(* What a notation means.                                                    *)

\* A range of names that ends on sunday ends on day 7.
End(f, p) == IF f = "isoweekday" /\ p.named /\ p.to < p.from /\ p.to = 0 THEN DaysPerWeek ELSE p.to

\* The values of a range lie between its ends, whichever is the larger.  A
\* step counts from the first value, over everything else the part allows:
\* for a single value that is the whole field.
InRange(f, p, x) ==
  p.kind = "range" => \/ p.from <= x /\ x <= End(f, p)
                      \/ End(f, p) <= x /\ x <= p.from

OnStep(p, x) ==
  \/ p.step = 0 /\ (p.kind = "one" => x = p.from)
  \/ p.step # 0 /\ x % p.step = (IF p.kind \in {"one", "range"} THEN p.from % p.step ELSE 0)

Possible(f, p) == {x \in Low[f]..High[f] : InRange(f, p, x) /\ OnStep(p, x)}

\* What raises: names of weekdays in the wrong order, an L with a step, and
\* a part that no value meets.
Refused(f, p) ==
  \/ f = "isoweekday" /\ p.kind = "range" /\ p.named /\ End(f, p) < p.from
  \/ p.last /\ p.step # 0
  \/ Possible(f, p) = {}

\* Day 7 of the week is day 0.
Parse(c, f) ==
  LET possible == UNION {Possible(f, p) : p \in c[f]}
  IN IF f = "isoweekday" THEN {x % DaysPerWeek : x \in possible} ELSE possible

Values == [c \in Crontabs |-> [f \in Fields |-> Parse(c, f)]]

Uses(c, f) == \E p \in c[f] : p.kind # "*" \/ p.last \/ p.step # 0 \/ Cardinality(c[f]) > 1
Last(c, f) == \E p \in c[f] : p.last

\* "days out of scope": no month of the notation is long enough for the
\* first of its days.
OutOfScope(c) ==
  /\ \A d \in Values[c]["day"] : d >= ShortestMonth
  /\ \A y \in Values[c]["year"], m \in Values[c]["month"] :
        \A d \in Values[c]["day"] : MonthDays[y][m] < d

Accepted(c) ==
  /\ \A f \in Fields : \A p \in c[f] : ~Refused(f, p)
  /\ ~OutOfScope(c)

-----------------------------------------------------------------------------
(* The search (calculate_date).                                              *)

\* Each field moves on to the first of its values that is not behind the
\* moment, and the fields below it keep theirs.
Later(c, f, v) == {x \in Values[c][f] : x >= v}
Least(S) == CHOOSE x \in S : \A y \in S : x <= y
First(c, f, v) == Least(Later(c, f, v))

Reaches(c, s, fields) == \A f \in fields : Later(c, f, s[f]) # {}

\* The fields are replaced one after the other, and every date on the way
\* has to exist.
Exists(y, m, d) == d <= MonthDays[y][m]

ByDay(c, s) ==
  LET f(n) == First(c, n, s[n])
  IN IF /\ Reaches(c, s, Fields \ {"isoweekday"})
        /\ Exists(s.year, s.month, f("day"))
        /\ Exists(s.year, f("month"), f("day"))
        /\ Exists(f("year"), f("month"), f("day"))
     THEN {Moment(f("year"), f("month"), f("day"), f("hour"), f("minute"))}
     ELSE {}

\* The day is left alone and then moved to the first of the weekdays that the
\* rest of the month has.
ByWeekday(c, s) ==
  LET f(n) == First(c, n, s[n])
      days == {d \in s.day..LongestMonth :
                 /\ Exists(f("year"), f("month"), d)
                 /\ Weekday(Moment(f("year"), f("month"), d, 0, 0)) \in Values[c]["isoweekday"]}
  IN IF /\ Reaches(c, s, Fields \ {"day", "isoweekday"})
        /\ Exists(s.year, f("month"), s.day)
        /\ Exists(f("year"), f("month"), s.day)
        /\ days # {}
     THEN {Moment(f("year"), f("month"), Least(days), f("hour"), f("minute"))}
     ELSE {}

OnLastDay(t) == t.day = Length(t)
OnLastWeekday(t) == t.day + DaysPerWeek > Length(t)

\* Mutant of Candidates: the last weekday is not asked for in a notation with days.
CandidatesFirstWeekday(c, s) ==
  {t \in ByDay(c, s) : /\ ~(Uses(c, "isoweekday") /\ ~Uses(c, "day"))
                       /\ Last(c, "day") => OnLastDay(t)}
  \cup {t \in ByWeekday(c, s) : Uses(c, "isoweekday")}

\* One round of the loop.  A notation with days and weekdays is due on both.
Candidates(c, s) ==
  {t \in ByDay(c, s) : /\ ~(Uses(c, "isoweekday") /\ ~Uses(c, "day"))
                       /\ Last(c, "day") => OnLastDay(t)}
  \cup
  {t \in ByWeekday(c, s) : /\ Uses(c, "isoweekday")
                           /\ Last(c, "isoweekday") => OnLastWeekday(t)}

OfMidnights == [c \in Crontabs |-> [t \in Midnights |-> Candidates(c, t)]]

\* The rounds: from the moment itself, then from the beginning of each of
\* the days after it.  A round that finds no year left ends the search, and
\* no later round would find one.
Calculate(c, s) ==
  LET rounds == OfMidnights[c]
      later  == {t \in Midnights : Order(t) > Order(s) /\ rounds[t] # {}}
      own    == Candidates(c, s)
  IN IF own # {} THEN Earliest(own) ELSE UNION {Earliest(rounds[t]) : t \in Earliest(later)}

\* The search keeps the lower fields when a higher one moves on, so it is
\* made from the beginning of the next minute, hour, day, month and year too.
MinuteStart(t) == {Moment(t.year, t.month, t.day, t.hour, i) :
                     i \in {t.minute + 1} \cap 0..(MinutesPerHour - 1)}

\* Mutant of HourStart: the search from the next hour keeps the minute.
HourStartKeepsMinute(t) == {Moment(t.year, t.month, t.day, h, t.minute) :
                              h \in {t.hour + 1} \cap 0..(HoursPerDay - 1)}

HourStart(t) == {Moment(t.year, t.month, t.day, h, 0) :
                   h \in {t.hour + 1} \cap 0..(HoursPerDay - 1)}
DayStart(t) == IF t.day < Length(t) - 1 THEN {Moment(t.year, t.month, t.day + 1, 0, 0)} ELSE {}
MonthStart(t) == IF t.month < MonthsPerYear - 1 THEN {Moment(t.year, t.month + 1, 1, 0, 0)} ELSE {}
YearStart(t) == {Moment(t.year + 1, 1, 1, 0, 0)}

Starts(t, second0) ==
  (IF second0 THEN {t} ELSE {}) \cup MinuteStart(t) \cup HourStart(t) \cup DayStart(t)
                                \cup MonthStart(t) \cup YearStart(t)

GetNextDatetime(c, t, second0) ==
  Earliest(UNION {Calculate(c, s) : s \in Starts(t, second0)})

-----------------------------------------------------------------------------
(* A function that is scheduled with a notation.                             *)

\* The service starts at any time.
CronInit ==
  /\ crontab \in {c \in Crontabs : Accepted(c)}
  /\ clock \in Moments
  /\ whole \in BOOLEAN
  /\ call = GetNextDatetime(crontab, clock, whole)

\* The loop has slept until the call is due, invokes the function, and
\* computes the next call from one second later.
CronInvoke ==
  /\ \E t \in call : clock' = t /\ call' = GetNextDatetime(crontab, t, FALSE)
  /\ whole' = FALSE
  /\ UNCHANGED crontab

CronNext == CronInvoke

CronSpec == CronInit /\ [][CronNext]_cronVars

-----------------------------------------------------------------------------
(* Properties.                                                               *)

\* What a notation says, moment by moment: the definition the search has to
\* agree with.
DueOnDay(c, t) ==
  /\ t.day \in Values[c]["day"]
  /\ Last(c, "day") => OnLastDay(t)

DueOnWeekday(c, t) ==
  /\ Weekday(t) \in Values[c]["isoweekday"]
  /\ Last(c, "isoweekday") => OnLastWeekday(t)

DueInMonth(c, t) ==
  /\ t.month \in Values[c]["month"] /\ t.year \in Values[c]["year"]
  /\ t.hour \in Values[c]["hour"] /\ t.minute \in Values[c]["minute"]

IsDue(c, t) ==
  /\ DueInMonth(c, t)
  /\ \/ DueOnDay(c, t) /\ (Uses(c, "isoweekday") => Uses(c, "day"))
     \/ DueOnWeekday(c, t) /\ Uses(c, "isoweekday")

DueMoments == [c \in Crontabs |-> {t \in Moments : IsDue(c, t)}]

Skipped == {t \in DueMoments[crontab] : /\ IF whole THEN Order(t) >= Order(clock)
                                                   ELSE Order(t) > Order(clock)
                                        /\ \A n \in call : Order(t) < Order(n)}

\* A function is only invoked when its notation says so, and never for a
\* moment that is past (calculate_date returns a date that meets every field,
\* with the last day, the last weekday and the union of days and weekdays).
InvokedWhenDue ==
  \A t \in call : /\ IsDue(crontab, t)
                  /\ IF whole THEN Order(t) >= Order(clock) ELSE Order(t) > Order(clock)

\* What a search may miss, asked at the time clock.  It does not start from the
\* last day of a month when asked on the day before, nor from the last month of
\* a year when asked in the month before.
NotStartedFrom(t) ==
  \/ clock.day = Length(clock) - 1 /\ t.month = clock.month /\ t.year = clock.year /\ OnLastDay(t)
  \/ clock.month = MonthsPerYear - 1 /\ t.month = MonthsPerYear /\ t.year = clock.year

\* A day that only the year of the notation has is looked for in the years
\* before it, which do not have it.
LeapDayAhead(t) ==
  \E y \in (clock.year + 1)..(t.year - 1) :
     /\ ~Exists(y, t.month, t.day)
     /\ Values[crontab]["year"] \cap y..(t.year - 1) = {}

\* A round that finds one of the days ends the search before a round has come
\* to the last weekday, and the other way round.
DaysAndLastWeekdays == Uses(crontab, "day") /\ Last(crontab, "isoweekday")

\* The search misses no other moment: whatever the notation asks for, the next call
\* is the first moment that is due.
NoneSkipped ==
  \A t \in Skipped : NotStartedFrom(t) \/ LeapDayAhead(t) \/ DaysAndLastWeekdays

\* Not so: what README.md says of @tomodachi.minutely, "A scheduled function
\* which will be invoked once every minute".  The call after the last minute of
\* the last day but one of a month is a day late, and after that of the last
\* two days of november it is a month late.
EveryMinute ==
  (\A f \in Fields : ~Uses(crontab, f)) => Skipped = {}
=============================================================================
