------------------------------ MODULE MCCrontab ------------------------------
(* A calendar with two minutes in an hour, three hours in a day, three days   *)
(* in a week, four months of three to six days in a year, and three years,    *)
(* the last a leap year.                                                      *)
EXTENDS Crontab

MCMonthDays == [y \in 1..3 |-> [m \in 1..4 |-> CASE m = 2 /\ y < 3 -> 3 [] m = 3 -> 6 [] OTHER -> 4]]

Part == [kind |-> "*", from |-> 0, to |-> 0, named |-> FALSE, last |-> FALSE, step |-> 0]
Star == {Part}
One(v) == [Part EXCEPT !.kind = "one", !.from = v]
Between(v, w) == [Part EXCEPT !.kind = "range", !.from = v, !.to = w]
LastOf(p) == [p EXCEPT !.last = TRUE]
Names(v, w) == [Between(v, w) EXCEPT !.named = TRUE]
Stepped(p, n) == [p EXCEPT !.step = n]

Notation(i, h, d, m, w, y) ==
  [minute |-> i, hour |-> h, day |-> d, month |-> m, isoweekday |-> w, year |-> y]

\* every minute, hour, day, week, month and year; lists, ranges, steps, the
\* last day and weekday, the leap day, days with weekdays; and notations that are
\* refused
MCCrontabs ==
  {Notation(Star, Star, Star, Star, Star, Star),
   Notation({One(0)}, Star, Star, Star, Star, Star),
   Notation({One(1)}, {One(1), One(2)}, Star, Star, Star, Star),
   Notation({One(0)}, {One(0)}, Star, Star, {One(0)}, Star),
   Notation({One(0)}, {One(0)}, {One(1)}, Star, Star, Star),
   Notation({One(0)}, {One(0)}, {One(1)}, {One(1)}, Star, Star),
   Notation(Star, {Stepped(Part, 2)}, {Stepped(One(1), 2)}, Star, Star, Star),
   Notation({One(1)}, Star, {One(4)}, {One(2), One(3)}, Star, Star),
   Notation(Star, {Between(2, 1)}, Star, {Between(1, 3)}, {Names(2, 0)}, Star),
   Notation(Star, Star, {One(2), One(4)}, Star, {One(3)}, Star),
   Notation({One(0)}, Star, {LastOf(Part)}, Star, Star, Star),
   Notation({One(1)}, {One(1)}, Star, Star, {LastOf(One(1))}, Star),
   Notation(Star, {One(2)}, {LastOf(Part)}, {Stepped(Between(1, 4), 2)}, {LastOf(One(2))}, Star),
   Notation(Star, {One(1)}, {[Part EXCEPT !.kind = "?"]}, Star, {One(1)}, Star),
   Notation({One(0)}, {One(1)}, {One(4)}, {One(2)}, Star, Star),
   Notation({One(1)}, Star, Star, {One(4)}, Star, {One(2)}),
   Notation(Star, Star, {One(4)}, {One(2)}, Star, {One(1)}),
   Notation({One(0)}, {One(0)}, {LastOf(Part)}, {One(2), One(3)}, Star, {One(3)}),
   Notation({One(0)}, {One(1)}, {One(6)}, Star, {LastOf(One(0))}, Star),
   Notation({One(0)}, {One(0)}, {One(4), One(5)}, {One(3)}, {One(0)}, {One(2), One(3)}),
   Notation(Star, Star, Star, Star, {Names(2, 1)}, Star),
   Notation({One(5)}, Star, Star, Star, Star, Star)}
=============================================================================
