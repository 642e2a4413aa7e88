-------------------------- MODULE SchedulerProofs --------------------------
(***************************************************************************)
(* Safety of Scheduler for any services, intervals and limits and, in the  *)
(* second half, of Crontab for any calendar and notations.                 *)
(***************************************************************************)
EXTENDS Scheduler, Crontab, FiniteSetTheorems, WellFoundedInduction, TLAPS

\* What a loop that has ended, and a service that has stopped, leave behind.
Settled ==
  \A s \in Services :
    /\ loop[s] \in {"off", "await", "done"} => tasks[s] = 0
    /\ service[s] = "off" => loop[s] = "off"
    /\ service[s] = "stopped" => loop[s] = "done"

IndInv == TypeOK /\ Settled

LEMMA NextIsInteger ==
  ASSUME NEW s \in Services, NEW t \in Int
  PROVE  NextCallAt(s, t) \in Int
<1> DEFINE period == Every[s] * Second
           from == Whole(t) + (1 - Behind[s]) * Second
<1>1. period \in Nat /\ period > 0 /\ Every[s] \in Nat /\ Behind[s] \in Nat /\ Second \in Nat
  BY SchedulerAssumption, SMTT(30)
<1>2. Whole(t) \in Int /\ Whole(t + period) \in Int
  BY <1>1, SchedulerAssumption DEF Whole
<1>3. from \in Int
  BY <1>1, <1>2
<1>4. ((from + period - 1) \div period) * period \in Int
  <2> HIDE DEF from, period
  <2> QED
    BY <1>1, <1>3
<1> QED
  BY <1>2, <1>4 DEF NextCallAt

LEMMA CaughtIsInteger ==
  ASSUME TypeOK, NEW s \in Services
  PROVE  Caught(s) \in Int /\ Due(s) \in Int
<1>1. Caught(s) \in Int
  BY SchedulerAssumption DEF TypeOK, Caught
<1>2. Due(s) \in Int
  BY <1>1, NextIsInteger DEF TypeOK, Due
<1> QED
  BY <1>1, <1>2

LEMMA SleepIsInteger ==
  ASSUME TypeOK, NEW s \in Services, NEW due \in Int
  PROVE  SleepTicks(s, due) \in Int
<1>1. Caught(s) \in Int /\ now \in Int /\ Second \in Nat /\ Second > 0 /\ Parts \in Nat /\ Parts > 0 /\ MaxSleep \in Nat
  BY SchedulerAssumption, CaughtIsInteger DEF TypeOK
<1>2. (due - now) \div Parts \in Int
  BY <1>1
<1>3. \A t \in Int : Whole(t) \in Int
  BY <1>1 DEF Whole
<1>4. Whole((due - now) \div Parts) \in Int /\ Whole(Caught(s) + Second) \in Int /\ MaxSleep * Second \in Int
  BY <1>1, <1>2, <1>3
<1> QED
  BY <1>1, <1>4 DEF SleepTicks, Earlier

LEMMA InitInv == Init => IndInv
<1> SUFFICES ASSUME Init PROVE IndInv
  OBVIOUS
<1>1. TypeOK
  <2>1. Limit \in Nat /\ Epoch \in 0..MaxTime
    BY SchedulerAssumption
  <2>2. immediate \in [Services -> BOOLEAN]
    <3>1. immediate = [s \in Services |-> s \in Immediately]
      BY DEF Init
    <3>2. ASSUME NEW s \in Services PROVE (s \in Immediately) \in BOOLEAN
      OBVIOUS
    <3> QED
      BY <3>1, <3>2, Zenon
  <2> QED
    BY <2>1, <2>2 DEF Init, TypeOK, Unset
<1>2. Settled
  BY DEF Init, Settled
<1> QED
  BY <1>1, <1>2 DEF IndInv

-----------------------------------------------------------------------------
LEMMA TypeStep == TypeOK /\ [Next]_vars => TypeOK'
<1> SUFFICES ASSUME TypeOK, [Next]_vars PROVE TypeOK'
  OBVIOUS
<1>0. /\ Second \in Nat /\ MaxTime \in Nat /\ Penalty \in Nat /\ Limit \in Nat /\ Resume \in Nat
      /\ Penalty * Second \in Int /\ Resume <= Limit
  BY SchedulerAssumption
<1> USE <1>0 DEF TypeOK, timing, Unset
<1>1. ASSUME NEW s \in Services, Start(s) PROVE TypeOK'
  BY <1>1 DEF Start
<1>2. ASSUME NEW s \in Services, Started(s) PROVE TypeOK'
  BY <1>2 DEF Started
<1>3. ASSUME NEW s \in Services, Stop(s) PROVE TypeOK'
  BY <1>3 DEF Stop
<1>4. ASSUME NEW s \in Services, Stopped(s) PROVE TypeOK'
  BY <1>4 DEF Stopped
<1>5. ASSUME NEW s \in Services, Enter(s) PROVE TypeOK'
  BY <1>5 DEF Enter
<1>6. ASSUME NEW s \in Services, Leave(s) PROVE TypeOK'
  BY <1>6 DEF Leave
<1>7. ASSUME NEW s \in Services, LostSync(s) PROVE TypeOK'
  BY <1>7, CaughtIsInteger DEF LostSync
<1>8. ASSUME NEW s \in Services, Resync(s) PROVE TypeOK'
  BY <1>8 DEF Resync
<1>9. ASSUME NEW s \in Services, Sleep(s) PROVE TypeOK'
  <2>1. Caught(s) \in Int /\ Due(s) \in Int /\ now + SleepTicks(s, Due(s)) \in Int
    BY CaughtIsInteger, SleepIsInteger
  <2> QED
    BY <1>9, <2>1 DEF Sleep
<1>10. ASSUME NEW s \in Services, TooEarly(s) PROVE TypeOK'
  BY <1>10 DEF TooEarly, AfterSleep
<1>11. ASSUME NEW s \in Services, ClosedMeanwhile(s) PROVE TypeOK'
  BY <1>11 DEF ClosedMeanwhile, AfterSleep
<1>12. ASSUME NEW s \in Services, Skip(s) PROVE TypeOK'
  BY <1>12 DEF Skip
<1>13. ASSUME NEW s \in Services, LookAhead(s) PROVE TypeOK'
  BY <1>13, NextIsInteger DEF LookAhead
<1>14. ASSUME NEW s \in Services, Invoke(s) PROVE TypeOK'
  <2>1. tasks[s] < Limit
    BY <1>14 DEF Invoke, Crowded
  <2>2. Whole(IF next[s] = Unset THEN now ELSE next[s]) \in Int
    BY SchedulerAssumption DEF Whole
  <2> QED
    BY <1>14, <2>1, <2>2 DEF Invoke
<1>15. ASSUME NEW s \in Services, Return(s) PROVE TypeOK'
  BY <1>15 DEF Return
<1>16. ASSUME NEW s \in Services, Drained(s) PROVE TypeOK'
  BY <1>16 DEF Drained
<1>17. CASE Tick
  BY <1>17 DEF Tick
<1>18. CASE UNCHANGED vars
  BY <1>18 DEF vars
<1> QED
  BY <1>1, <1>2, <1>3, <1>4, <1>5, <1>6, <1>7, <1>8, <1>9, <1>10, <1>11, <1>12, <1>13, <1>14,
     <1>15, <1>16, <1>17, <1>18 DEF Next, Top, Awaited

LEMMA SettledStep == IndInv /\ [Next]_vars => Settled'
<1> SUFFICES ASSUME TypeOK, Settled, [Next]_vars PROVE Settled'
  BY DEF IndInv
<1> USE DEF TypeOK, Settled, timing
<1>1. ASSUME NEW s \in Services, Start(s) PROVE Settled'
  BY <1>1 DEF Start
<1>2. ASSUME NEW s \in Services, Started(s) PROVE Settled'
  BY <1>2 DEF Started
<1>3. ASSUME NEW s \in Services, Stop(s) PROVE Settled'
  BY <1>3 DEF Stop
<1>4. ASSUME NEW s \in Services, Stopped(s) PROVE Settled'
  BY <1>4 DEF Stopped
<1>5. ASSUME NEW s \in Services, Enter(s) PROVE Settled'
  BY <1>5 DEF Enter
<1>6. ASSUME NEW s \in Services, Leave(s) PROVE Settled'
  BY <1>6 DEF Leave
<1>7. ASSUME NEW s \in Services, LostSync(s) PROVE Settled'
  BY <1>7 DEF LostSync
<1>8. ASSUME NEW s \in Services, Resync(s) PROVE Settled'
  BY <1>8 DEF Resync
<1>9. ASSUME NEW s \in Services, Sleep(s) PROVE Settled'
  BY <1>9 DEF Sleep
<1>10. ASSUME NEW s \in Services, TooEarly(s) PROVE Settled'
  BY <1>10 DEF TooEarly, Awake
<1>11. ASSUME NEW s \in Services, ClosedMeanwhile(s) PROVE Settled'
  BY <1>11 DEF ClosedMeanwhile, Awake
<1>12. ASSUME NEW s \in Services, Skip(s) PROVE Settled'
  BY <1>12 DEF Skip, Awake
<1>13. ASSUME NEW s \in Services, LookAhead(s) PROVE Settled'
  BY <1>13 DEF LookAhead
<1>14. ASSUME NEW s \in Services, Invoke(s) PROVE Settled'
  BY <1>14 DEF Invoke, Awake
<1>15. ASSUME NEW s \in Services, Return(s) PROVE Settled'
  BY <1>15 DEF Return
<1>16. ASSUME NEW s \in Services, Drained(s) PROVE Settled'
  BY <1>16 DEF Drained
<1>17. CASE Tick
  BY <1>17 DEF Tick
<1>18. CASE UNCHANGED vars
  BY <1>18 DEF vars
<1> QED
  BY <1>1, <1>2, <1>3, <1>4, <1>5, <1>6, <1>7, <1>8, <1>9, <1>10, <1>11, <1>12, <1>13, <1>14,
     <1>15, <1>16, <1>17, <1>18 DEF Next, Top, Awaited

LEMMA Invariance == Spec => []IndInv
<1>1. IndInv /\ [Next]_vars => IndInv'
  BY TypeStep, SettledStep DEF IndInv
<1> QED
  BY InitInv, <1>1, PTL DEF Spec

-----------------------------------------------------------------------------
(* Arithmetic of times.                                                     *)

Multiple(x, b) == \E k \in Int : x = k * b

LEMMA Division ==
  ASSUME NEW a \in Int, NEW b \in Nat \ {0}
  PROVE  /\ a \div b \in Int /\ a % b \in 0..(b - 1)
         /\ a = (a \div b) * b + (a % b)
  OBVIOUS

LEMMA Quotient ==
  ASSUME NEW a \in Nat, NEW b \in Nat \ {0}
  PROVE  a \div b \in Int /\ a \div b <= a
<1> DEFINE q == a \div b
<1>1. q \in Int /\ a % b \in 0..(b - 1) /\ a = q * b + (a % b)
  BY Division
<1> HIDE DEF q
<1>2. CASE q <= 0
  BY <1>1, <1>2 DEF q
<1>3. CASE q > 0
  <2>1. q * (b - 1) >= 0 /\ q * (b - 1) = q * b - q
    BY <1>1, <1>3
  <2>2. q <= a
    BY <1>1, <2>1
  <2> QED
    BY <1>1, <2>2 DEF q
<1> QED
  BY <1>1, <1>2, <1>3

LEMMA NonNegativeProduct ==
  ASSUME NEW j \in Int, NEW b \in Nat \ {0}, j * b > -b
  PROVE  j * b >= 0
<1>1. CASE j >= 0
  BY <1>1
<1>2. CASE j <= -1
  <2>1. (-1 - j) * b >= 0
    BY <1>2
  <2>2. (-1 - j) * b = -b - j * b
    OBVIOUS
  <2> QED
    BY <2>1, <2>2
<1> QED
  BY <1>1, <1>2

\* A multiple of b that is less than b below another one is not below it.
LEMMA Multiples ==
  ASSUME NEW b \in Nat \ {0}, NEW x \in Int, NEW y \in Int,
         Multiple(x, b), Multiple(y, b), x > y - b
  PROVE  x >= y
<1>1. PICK k \in Int : x = k * b
  BY DEF Multiple
<1>2. PICK j \in Int : y = j * b
  BY DEF Multiple
<1>3. (k - j) * b = x - y /\ k - j \in Int
  BY <1>1, <1>2
<1> QED
  BY <1>3, NonNegativeProduct

\* int(t)
LEMMA WholeFacts ==
  ASSUME NEW t \in Int
  PROVE  Whole(t) \in Int /\ t - Second < Whole(t) /\ Whole(t) <= t /\ Multiple(Whole(t), Second)
<1>1. Second \in Nat \ {0}
  BY SchedulerAssumption
<1>2. t % Second \in 0..(Second - 1) /\ t \div Second \in Int /\ t = (t \div Second) * Second + (t % Second)
  BY <1>1, Division
<1>3. (t \div Second) * Second \in Int
  BY <1>1, <1>2
<1>4. Whole(t) = (t \div Second) * Second
  BY <1>1, <1>2, <1>3 DEF Whole
<1> QED
  BY <1>1, <1>2, <1>3, <1>4 DEF Multiple

\* No whole second up to t is later than int(t).
LEMMA WholeReaches ==
  ASSUME NEW t \in Int, NEW x \in Int, Multiple(x, Second), x <= t
  PROVE  x <= Whole(t)
<1>1. Second \in Nat \ {0}
  BY SchedulerAssumption
<1>2. Whole(t) \in Int /\ Whole(t) > x - Second /\ Multiple(Whole(t), Second)
  BY <1>1, WholeFacts
<1> QED
  BY <1>1, <1>2, Multiples

LEMMA WholeMonotone ==
  ASSUME NEW t \in Int, NEW u \in Int, t <= u
  PROVE  Whole(t) <= Whole(u)
<1>1. Whole(t) \in Int /\ Whole(t) <= u /\ Multiple(Whole(t), Second)
  BY WholeFacts
<1> QED
  BY <1>1, WholeReaches

LEMMA WholeNextSecond ==
  ASSUME NEW t \in Int
  PROVE  Whole(t + Second) = Whole(t) + Second
<1> DEFINE u == t + Second
           v == Whole(t) + Second
<1>1. Second \in Nat \ {0} /\ u \in Int
  BY SchedulerAssumption
<1>2. Whole(t) \in Int /\ t - Second < Whole(t) /\ Whole(t) <= t
  BY WholeFacts
<1>3. v \in Int /\ v <= u /\ u < v + Second
  BY <1>1, <1>2
<1>4. Multiple(v, Second)
  <2>1. PICK k \in Int : Whole(t) = k * Second
    BY WholeFacts DEF Multiple
  <2>2. v = (k + 1) * Second
    BY <1>1, <2>1
  <2> QED
    BY <2>2 DEF Multiple
<1> HIDE DEF u, v
<1>5. Whole(u) \in Int /\ Whole(u) <= u /\ Multiple(Whole(u), Second)
  BY <1>1, WholeFacts
<1>6. v <= Whole(u)
  BY <1>1, <1>3, <1>4, WholeReaches
<1>7. v > Whole(u) - Second
  BY <1>1, <1>3, <1>5
<1>8. v >= Whole(u)
  BY <1>1, <1>3, <1>4, <1>5, <1>7, Multiples
<1>9. Whole(u) = v
  BY <1>3, <1>5, <1>6, <1>8
<1> QED
  BY <1>9 DEF u, v

LEMMA WholeSecond ==
  ASSUME NEW x \in Int, Multiple(x, Second)
  PROVE  Whole(x) = x
  BY WholeFacts, WholeReaches

-----------------------------------------------------------------------------
(* next_call_at.                                                            *)

\* The search starts no further back than the last call can have been, and a
\* function that is also called at once does not look back.
SearchesAhead ==
  \A s \in Services : /\ Behind[s] <= Every[s]
                      /\ s \in Immediately \cap Aligned => Behind[s] = 0

Grid(s) == IF s \in Aligned THEN Every[s] * Second ELSE Second

LEMMA GridFacts ==
  ASSUME NEW s \in Services
  PROVE  /\ Every[s] \in Nat \ {0} /\ Behind[s] \in Nat /\ Second \in Nat \ {0}
         /\ Every[s] * Second \in Nat \ {0} /\ Second <= Every[s] * Second
         /\ Grid(s) \in Nat \ {0}
         /\ \A x \in Int : Multiple(x, Grid(s)) => Multiple(x, Second)
<1>1. Every[s] \in Nat \ {0} /\ Behind[s] \in Nat /\ Second \in Nat \ {0}
  BY SchedulerAssumption
<1>2. Every[s] * Second \in Nat \ {0} /\ Second <= Every[s] * Second
  BY <1>1
<1>3. ASSUME NEW x \in Int, Multiple(x, Every[s] * Second) PROVE Multiple(x, Second)
  <2>1. PICK k \in Int : x = k * (Every[s] * Second)
    BY <1>3 DEF Multiple
  <2>2. x = (k * Every[s]) * Second /\ k * Every[s] \in Int
    BY <1>1, <2>1
  <2> QED
    BY <2>2 DEF Multiple
<1> QED
  BY <1>1, <1>2, <1>3 DEF Grid

\* Whatever lies on the grid up to t is not after the next call at t; without a
\* search in the past that one is after the second of t.
LEMMA NextCallIsAhead ==
  ASSUME SearchesAhead, NEW s \in Services, NEW t \in Nat
  PROVE  /\ NextCallAt(s, t) \in Nat /\ Multiple(NextCallAt(s, t), Grid(s))
         /\ \A x \in Int : Multiple(x, Grid(s)) /\ x <= t => x <= NextCallAt(s, t)
         /\ s \in Immediately => Whole(t) < NextCallAt(s, t)
<1> DEFINE period == Every[s] * Second
           next_ == NextCallAt(s, t)
<1>1. /\ Every[s] \in Nat \ {0} /\ Behind[s] \in Nat /\ Second \in Nat \ {0}
      /\ period \in Nat \ {0} /\ Second <= period
      /\ \A x \in Int : Multiple(x, Grid(s)) => Multiple(x, Second)
  BY GridFacts
<1>2. Multiple(0, Grid(s)) /\ Multiple(0, Second)
  BY GridFacts, <1>1 DEF Multiple
<1>3. CASE s \notin Aligned
  <2>1. next_ = Whole(t + period) /\ Grid(s) = Second
    BY <1>3 DEF NextCallAt, Grid
  <2>2. t + period \in Int
    BY <1>1
  <2>3. next_ \in Int /\ t + period - Second < next_ /\ Multiple(next_, Second)
    <3> DEFINE u == t + period
    <3>1. Whole(u) \in Int /\ u - Second < Whole(u) /\ Multiple(Whole(u), Second)
      <4> HIDE DEF u
      <4> QED
        BY <2>2, WholeFacts DEF u
    <3>2. next_ = Whole(u)
      BY <2>1
    <3>3. u = t + period
      OBVIOUS
    <3> HIDE DEF next_, period, u
    <3> QED
      BY <1>1, <3>1, <3>2, <3>3
  <2>4. next_ > t
    BY <1>1, <2>3
  <2>5. Whole(t) <= t /\ Whole(t) \in Int
    BY WholeFacts
  <2> QED
    BY <2>1, <2>3, <2>4, <2>5
<1>4. CASE s \in Aligned
  <2> DEFINE from == Whole(t) + (1 - Behind[s]) * Second
             a == from + period - 1
  <2>1. Whole(t) \in Int /\ 0 <= Whole(t)
    BY <1>2, WholeFacts, WholeReaches
  <2>2. Behind[s] * Second <= period /\ Behind[s] * Second \in Int
    <3>1. Behind[s] <= Every[s]
      BY <1>1 DEF SearchesAhead
    <3>2. (Every[s] - Behind[s]) * Second >= 0
      BY <1>1, <3>1
    <3>3. (Every[s] - Behind[s]) * Second = Every[s] * Second - Behind[s] * Second
      BY <1>1
    <3> QED
      BY <1>1, <3>2, <3>3
  <2>3. (1 - Behind[s]) * Second = Second - Behind[s] * Second
    BY <1>1
  <2>4. from \in Int /\ from > Whole(t) - period
    BY <1>1, <2>1, <2>2, <2>3
  <2>5. next_ = (a \div period) * period /\ Grid(s) = period
    BY <1>4 DEF NextCallAt, Grid
  <2>6. next_ \in Int /\ next_ >= from /\ Multiple(next_, Grid(s))
    <3> HIDE DEF period, from
    <3>1. a \in Int
      BY <1>1, <2>4
    <3>2. a \div period \in Int /\ a % period \in 0..(period - 1) /\ a = (a \div period) * period + (a % period)
      BY <1>1, <3>1, Division
    <3>3. (a \div period) * period \in Int
      BY <1>1, <3>2
    <3> QED
      BY <1>1, <2>4, <2>5, <3>1, <3>2, <3>3 DEF Multiple
  <2>7. ASSUME NEW x \in Int, Multiple(x, Grid(s)), x <= t PROVE x <= next_
    <3>1. x <= Whole(t)
      BY <1>1, <2>7, WholeReaches
    <3>2. next_ > x - period
      <4> HIDE DEF period, from, next_
      <4> QED
        BY <1>1, <2>1, <2>4, <2>6, <3>1
    <3> QED
      BY <1>1, <2>5, <2>6, <2>7, <3>2, Multiples
  <2>8. next_ \in Nat
    BY <1>2, <2>6, <2>7
  <2>9. s \in Immediately => Whole(t) < next_
    <3>1. s \in Immediately => from = Whole(t) + Second
      <4>1. s \in Immediately => Behind[s] = 0
        BY <1>1, <1>4 DEF SearchesAhead
      <4> QED
        BY <4>1, <1>1, <2>1
    <3> HIDE DEF from, next_
    <3> QED
      BY <1>1, <2>1, <2>6, <3>1
  <2> QED
    BY <2>6, <2>7, <2>8, <2>9
<1> QED
  BY <1>3, <1>4

-----------------------------------------------------------------------------
(* The order of the calls.                                                  *)

\* next_call_at and prev_call_at of a loop that may still call, beside the time
\* its function was last called for: that is the previous call at most, unless
\* that one was skipped, and always before the next one.
InOrder(s) ==
  /\ current[s] \in 0..now
  /\ immediate[s] => /\ s \in Immediately /\ loop[s] \notin {"sleep", "crowded"}
                     /\ next[s] = Unset /\ prev[s] = Unset /\ invoked[s] = Unset
  /\ loop[s] = "sleep" => next[s] # Unset
  /\ loop[s] = "crowded" =>
       /\ next[s] = Unset
       /\ IF prev[s] = Unset THEN invoked[s] = Unset
                             ELSE prev[s] <= now /\ invoked[s] < prev[s]
  /\ next[s] # Unset => next[s] \in Nat /\ Multiple(next[s], Grid(s)) /\ invoked[s] < next[s]
  /\ prev[s] # Unset => /\ prev[s] \in Nat /\ Multiple(prev[s], Grid(s))
                        /\ loop[s] # "crowded" => prev[s] <= current[s]
                        /\ next[s] = Unset => invoked[s] <= prev[s]
  /\ prev[s] = Unset /\ next[s] = Unset =>
       invoked[s] = Unset \/ (s \in Immediately /\ invoked[s] <= Whole(current[s]))

Ordered == \A s \in Services : loop[s] \in {"drain", "done"} \/ InOrder(s)

LEMMA InitOrdered == Init => Ordered
<1> SUFFICES ASSUME Init, NEW s \in Services PROVE InOrder(s)
  BY DEF Ordered
<1>1. 0 \in 0..now
  BY SchedulerAssumption DEF Init
<1> QED
  BY <1>1 DEF Init, InOrder, Unset

\* The loop's own time moves on, up to the clock.
LEMMA CaughtUp ==
  ASSUME TypeOK, NEW s \in Services, current[s] \in 0..now
  PROVE  Caught(s) \in Nat /\ current[s] <= Caught(s) /\ Caught(s) <= now
<1>1. Second \in Nat \ {0} /\ now \in Nat /\ current[s] \in Nat
  BY SchedulerAssumption DEF TypeOK
<1>2. CASE Whole(current[s] + Second) < Whole(now)
  <2>1. ~(now <= current[s] + Second)
    <3> SUFFICES ASSUME now <= current[s] + Second PROVE FALSE
      OBVIOUS
    <3>1. Whole(now) <= Whole(current[s] + Second) /\ Whole(now) \in Int /\ Whole(current[s] + Second) \in Int
      <4> DEFINE u == current[s] + Second
      <4>1. u \in Int /\ now \in Int /\ now <= u
        BY <1>1
      <4> HIDE DEF u
      <4>2. Whole(now) <= Whole(u) /\ Whole(now) \in Int /\ Whole(u) \in Int
        BY <4>1, WholeMonotone, WholeFacts
      <4> QED
        BY <4>2 DEF u
    <3> QED
      BY <1>2, <3>1
  <2> QED
    BY <1>1, <1>2, <2>1 DEF Caught
<1>3. CASE ~(Whole(current[s] + Second) < Whole(now))
  BY <1>1, <1>3 DEF Caught
<1> QED
  BY <1>2, <1>3

\* A next call computed from now on is not before the previous one, and after
\* what the function was called for when that was no regular call.
LEMMA ComputedIsLater ==
  ASSUME SearchesAhead, TypeOK, NEW s \in Services, InOrder(s), next[s] = Unset,
         loop[s] # "crowded", NEW t \in Nat, current[s] <= t
  PROVE  /\ NextCallAt(s, t) \in Nat /\ Multiple(NextCallAt(s, t), Grid(s))
         /\ prev[s] # Unset => invoked[s] <= prev[s] /\ prev[s] <= NextCallAt(s, t)
         /\ prev[s] = Unset => invoked[s] < NextCallAt(s, t)
<1>1. NextCallAt(s, t) \in Nat /\ Multiple(NextCallAt(s, t), Grid(s))
  BY NextCallIsAhead
<1>2. current[s] \in Nat /\ invoked[s] \in Int /\ prev[s] \in Int
  BY DEF TypeOK, InOrder
<1>3. ASSUME prev[s] # Unset PROVE invoked[s] <= prev[s] /\ prev[s] <= NextCallAt(s, t)
  <2>1. prev[s] \in Nat /\ Multiple(prev[s], Grid(s)) /\ prev[s] <= current[s] /\ invoked[s] <= prev[s]
    BY <1>3 DEF InOrder
  <2>2. prev[s] <= t
    BY <1>2, <2>1
  <2> QED
    BY <1>2, <2>1, <2>2, NextCallIsAhead
<1>4. ASSUME prev[s] = Unset PROVE invoked[s] < NextCallAt(s, t)
  <2>1. CASE invoked[s] = Unset
    BY <1>1, <2>1 DEF Unset
  <2>2. CASE s \in Immediately /\ invoked[s] <= Whole(current[s])
    <3>1. Whole(current[s]) <= Whole(t) /\ Whole(t) < NextCallAt(s, t)
      BY <1>2, <2>2, WholeMonotone, NextCallIsAhead
    <3>2. Whole(current[s]) \in Int /\ Whole(t) \in Int
      BY <1>2, WholeFacts
    <3> QED
      BY <1>1, <1>2, <2>2, <3>1, <3>2
  <2> QED
    BY <1>4, <2>1, <2>2 DEF InOrder
<1> QED
  BY <1>1, <1>3, <1>4

\* What a step leaves of the loops that it does not concern.
LEMMA OthersInOrder ==
  ASSUME TypeOK, NEW s \in Services, InOrder(s), now' \in Nat, now <= now',
         UNCHANGED <<loop[s], current[s], next[s], prev[s], immediate[s], invoked[s]>>
  PROVE  InOrder(s)'
<1>1. Grid(s)' = Grid(s) /\ Unset' = Unset /\ \A x \in Int : Whole(x)' = Whole(x)
  BY DEF Grid, Unset, Whole
<1> QED
  BY <1>1 DEF InOrder, TypeOK, Multiple

LoopStep(s) ==
  \/ Start(s) \/ Enter(s) \/ Leave(s) \/ LostSync(s) \/ Resync(s) \/ Sleep(s) \/ TooEarly(s)
  \/ ClosedMeanwhile(s) \/ Skip(s) \/ LookAhead(s) \/ Invoke(s) \/ Drained(s)

LEMMA OtherLoops ==
  ASSUME TypeOK, NEW r \in Services, LoopStep(r), NEW s \in Services, s # r
  PROVE  UNCHANGED <<now, loop[s], current[s], next[s], prev[s], immediate[s], invoked[s], tasks[s]>>
<1> USE DEF TypeOK, timing
<1>1. CASE Start(r) \/ Enter(r) \/ Leave(r) \/ Resync(r) \/ Drained(r)
  BY <1>1 DEF Start, Enter, Leave, Resync, Drained
<1>2. CASE LostSync(r) \/ Sleep(r)
  BY <1>2 DEF LostSync, Sleep
<1>3. CASE TooEarly(r) \/ ClosedMeanwhile(r) \/ Skip(r)
  BY <1>3 DEF TooEarly, ClosedMeanwhile, Skip
<1>4. CASE LookAhead(r) \/ Invoke(r)
  BY <1>4 DEF LookAhead, Invoke
<1> QED
  BY <1>1, <1>2, <1>3, <1>4 DEF LoopStep

LEMMA EndedStays ==
  ASSUME IndInv, NEW s \in Services, LoopStep(s), loop[s] \in {"drain", "done"}
  PROVE  loop'[s] = "done"
  BY DEF IndInv, TypeOK, Settled, LoopStep, Start, Enter, Leave, LostSync, Resync, Sleep, TooEarly,
         ClosedMeanwhile, Skip, LookAhead, Invoke, Drained, Awake

LEMMA AwakeInTime ==
  ASSUME TypeOK, NEW s \in Services, Awake(s), ~Early(s)
  PROVE  \/ loop[s] = "sleep" /\ next[s] <= now
         \/ immediate[s] /\ loop[s] = "top"
<1>1. now \in Int /\ next[s] \in Int
  BY DEF TypeOK
<1>2. CASE loop[s] = "sleep"
  <2>1. ~(next[s] > now)
    BY <1>2 DEF Early
  <2>2. next[s] <= now
    BY <1>1, <2>1
  <2> QED
    BY <1>2, <2>2
<1>3. CASE loop[s] # "sleep"
  BY <1>3 DEF Awake
<1> QED
  BY <1>2, <1>3

\* Each step of a loop keeps its own times in order.
LEMMA LoopInOrder ==
  ASSUME SearchesAhead, IndInv, NEW s \in Services, LoopStep(s), InOrder(s)
  PROVE  loop'[s] \in {"drain", "done"} \/ InOrder(s)'
<1>0. /\ now \in Nat /\ Second \in Nat \ {0} /\ Penalty * Second \in Nat
      /\ current[s] \in Int /\ next[s] \in Int /\ prev[s] \in Int /\ invoked[s] \in Int
      /\ current[s] \in 0..now
  BY SchedulerAssumption DEF IndInv, TypeOK, InOrder
<1>1. \A x \in Int : Whole(x) \in Int /\ Whole(x)' = Whole(x)
  BY WholeFacts DEF Whole
<1>2. TypeOK /\ Settled
  BY DEF IndInv
<1>3. CASE Start(s)
  <2>1. Whole(current[s]) <= Whole(now)
    BY <1>0, WholeMonotone
  <2>2. loop[s] = "off" /\ loop'[s] = "await" /\ current'[s] = now
        /\ UNCHANGED <<now, next[s], prev[s], immediate[s], invoked[s]>>
    BY <1>2, <1>3 DEF Start, Settled, TypeOK
  <2> QED
    BY <1>0, <1>1, <2>1, <2>2 DEF InOrder, Grid, Unset, Multiple
<1>4. CASE Enter(s) \/ Resync(s)
  <2>1. loop[s] \in {"await", "unsynced"} /\ loop'[s] = "top"
        /\ UNCHANGED <<now, current[s], next[s], prev[s], immediate[s], invoked[s]>>
    BY <1>2, <1>4 DEF Enter, Resync, timing, TypeOK
  <2> QED
    BY <1>0, <1>1, <2>1 DEF InOrder, Grid, Unset, Multiple
<1>5. CASE Leave(s) \/ Drained(s)
  BY <1>2, <1>5 DEF Leave, Drained, TypeOK
<1>6. CASE LostSync(s)
  <2>1. current'[s] \in Nat /\ current[s] <= current'[s] /\ current'[s] <= now
    BY <1>0, <1>2, <1>6, CaughtUp DEF LostSync, TypeOK
  <2>2. Whole(current[s]) <= Whole(current'[s])
    BY <1>0, <2>1, WholeMonotone
  <2>3. loop[s] = "top" /\ loop'[s] = "unsynced" /\ ~immediate[s]
        /\ UNCHANGED <<now, next[s], prev[s], immediate[s], invoked[s]>>
    BY <1>2, <1>6 DEF LostSync, TypeOK
  <2> QED
    BY <1>0, <1>1, <2>1, <2>2, <2>3 DEF InOrder, Grid, Unset, Multiple
<1>7. CASE Sleep(s)
  <2>1. /\ current'[s] = Caught(s) /\ next'[s] = Due(s) /\ loop[s] = "top" /\ loop'[s] = "sleep"
        /\ ~immediate[s] /\ ~Repeats(s) /\ UNCHANGED <<now, prev[s], immediate[s], invoked[s]>>
    BY <1>2, <1>7 DEF Sleep, TypeOK
  <2>2. Caught(s) \in Nat /\ current[s] <= Caught(s) /\ Caught(s) <= now
    BY <1>0, <1>2, CaughtUp
  <2>3. Due(s) \in Nat /\ Multiple(Due(s), Grid(s)) /\ invoked[s] < Due(s)
    <3>1. CASE next[s] # Unset
      BY <3>1 DEF Due, InOrder
    <3>2. CASE next[s] = Unset
      <4>1. Due(s) = NextCallAt(s, Caught(s))
        BY <3>2 DEF Due
      <4>2. /\ Due(s) \in Nat /\ Multiple(Due(s), Grid(s))
            /\ prev[s] # Unset => invoked[s] <= prev[s] /\ prev[s] <= Due(s)
            /\ prev[s] = Unset => invoked[s] < Due(s)
        BY <1>2, <2>1, <2>2, <3>2, <4>1, ComputedIsLater
      <4>3. prev[s] # Unset => prev[s] # Due(s)
        BY <2>1, <3>2 DEF Repeats
      <4> QED
        BY <1>0, <4>2, <4>3
    <3> QED
      BY <3>1, <3>2
  <2> QED
    BY <1>0, <1>1, <2>1, <2>2, <2>3 DEF InOrder, Grid, Unset, Multiple
<1>8. CASE TooEarly(s) \/ ClosedMeanwhile(s)
  <2>1. loop[s] = "sleep" /\ loop'[s] = "top" /\ current'[s] \in {now, current[s]}
        /\ UNCHANGED <<now, next[s], prev[s], invoked[s]>> /\ (immediate'[s] => immediate[s])
    BY <1>2, <1>8 DEF TooEarly, ClosedMeanwhile, Awake, Early, AfterSleep, TypeOK
  <2>2. current[s] <= current'[s] /\ current'[s] \in 0..now
    BY <1>0, <2>1
  <2> QED
    BY <1>0, <1>1, <2>1, <2>2 DEF InOrder, Grid, Unset, Multiple
<1>9. CASE Skip(s)
  <2>1. /\ \/ loop[s] = "sleep" /\ next[s] <= now
           \/ immediate[s] /\ loop[s] = "top"
        /\ loop'[s] = "crowded" /\ ~immediate'[s] /\ prev'[s] = next[s] /\ next'[s] = Unset
        /\ UNCHANGED <<now, current[s], invoked[s]>>
    BY <1>2, <1>9, AwakeInTime DEF Skip, TypeOK
  <2>2. CASE loop[s] = "sleep"
    BY <1>0, <1>1, <2>1, <2>2 DEF InOrder, Grid, Unset, Multiple
  <2>3. CASE loop[s] = "top"
    BY <1>0, <1>1, <2>1, <2>3 DEF InOrder, Grid, Unset, Multiple
  <2> QED
    BY <2>1, <2>2, <2>3
<1>10. CASE LookAhead(s)
  <2> DEFINE t == now + Penalty * Second
  <2>1. /\ loop[s] = "crowded" /\ loop'[s] = "top" /\ current'[s] = now /\ next'[s] = NextCallAt(s, t)
        /\ UNCHANGED <<now, prev[s], immediate[s], invoked[s]>>
    BY <1>2, <1>10 DEF LookAhead, TypeOK
  <2>2. t \in Nat /\ now <= t
    BY <1>0
  <2> HIDE DEF t
  <2>3. NextCallAt(s, t) \in Nat /\ Multiple(NextCallAt(s, t), Grid(s))
    BY <2>2, NextCallIsAhead
  <2>4. invoked[s] < NextCallAt(s, t)
    <3>1. CASE prev[s] = Unset
      BY <2>1, <2>3, <3>1 DEF InOrder, Unset
    <3>2. CASE prev[s] # Unset
      <4>1. prev[s] <= t /\ Multiple(prev[s], Grid(s)) /\ invoked[s] < prev[s]
        BY <1>0, <2>1, <2>2, <3>2 DEF InOrder
      <4>2. prev[s] <= NextCallAt(s, t)
        BY <1>0, <2>2, <4>1, NextCallIsAhead
      <4> QED
        BY <1>0, <2>3, <4>1, <4>2
    <3> QED
      BY <3>1, <3>2
  <2>5. ~immediate[s] \/ prev[s] = Unset
    BY DEF InOrder
  <2> QED
    BY <1>0, <1>1, <2>1, <2>3, <2>4, <2>5 DEF InOrder, Grid, Unset, Multiple
<1>11. CASE Invoke(s)
  <2>1. /\ \/ loop[s] = "sleep" /\ next[s] <= now
           \/ immediate[s] /\ loop[s] = "top"
        /\ loop'[s] = "top" /\ ~immediate'[s] /\ prev'[s] = next[s] /\ next'[s] = Unset
        /\ invoked'[s] = Whole(IF next[s] = Unset THEN now ELSE next[s])
        /\ current'[s] = now /\ UNCHANGED now
    BY <1>2, <1>11, AwakeInTime DEF Invoke, TypeOK
  <2>2. CASE loop[s] = "sleep"
    <3>1. next[s] \in Nat /\ next[s] # Unset /\ Multiple(next[s], Grid(s))
      BY <2>2 DEF InOrder
    <3>2. invoked'[s] = next[s]
      BY <2>1, <3>1, GridFacts, WholeSecond
    <3> QED
      BY <1>0, <1>1, <2>1, <2>2, <3>1, <3>2 DEF InOrder, Grid, Unset, Multiple
  <2>3. CASE immediate[s] /\ loop[s] = "top"
    BY <1>0, <1>1, <2>1, <2>3 DEF InOrder, Grid, Unset, Multiple
  <2> QED
    BY <2>1, <2>2, <2>3
<1> QED
  BY <1>3, <1>4, <1>5, <1>6, <1>7, <1>8, <1>9, <1>10, <1>11 DEF LoopStep

LEMMA OrderedStep == SearchesAhead /\ IndInv /\ Ordered /\ [Next]_vars => Ordered'
<1> SUFFICES ASSUME SearchesAhead, IndInv, Ordered, [Next]_vars,
                    NEW s \in Services, loop'[s] \notin {"drain", "done"}
             PROVE  InOrder(s)'
  BY DEF Ordered
<1>1. ASSUME now' \in Nat, now <= now',
             UNCHANGED <<loop[s], current[s], next[s], prev[s], immediate[s], invoked[s]>>
      PROVE  InOrder(s)'
  BY <1>1, OthersInOrder DEF IndInv, Ordered
<1>2. now \in Nat
  BY DEF IndInv, TypeOK
<1>3. ASSUME LoopStep(s) PROVE InOrder(s)'
  <2>1. InOrder(s)
    BY <1>3, EndedStays DEF Ordered
  <2> QED
    BY <1>3, <2>1, LoopInOrder
<1>4. ASSUME NEW r \in Services, LoopStep(r), r # s PROVE InOrder(s)'
  BY <1>1, <1>2, <1>4, OtherLoops DEF IndInv
<1>5. ASSUME NEW r \in Services, Started(r) \/ Stop(r) \/ Stopped(r) \/ Return(r) PROVE InOrder(s)'
  BY <1>1, <1>2, <1>5 DEF Started, Stop, Stopped, Return, timing
<1>6. CASE Tick \/ UNCHANGED vars
  BY <1>1, <1>2, <1>6 DEF Tick, vars, timing
<1> QED
  BY <1>3, <1>4, <1>5, <1>6 DEF Next, Top, Awaited, LoopStep

LEMMA OrderedInvariance == SearchesAhead => (Spec => []Ordered)
<1> SUFFICES ASSUME SearchesAhead PROVE Spec => []Ordered
  OBVIOUS
<1>1. IndInv /\ Ordered /\ [Next]_vars => Ordered'
  BY OrderedStep
<1> QED
  BY InitOrdered, Invariance, <1>1, PTL DEF Spec

-----------------------------------------------------------------------------
(* How late a call is made.                                                 *)

\* No sleep ends more than a second late.  With later ones the seconds that a loop
\* waits for a call that would repeat the last one add up, and it lags behind.
WokenInTime == MaxLate <= Second

Back(s) == Behind[s] * Second

\* What only the first call may make up for.
Grace(s) == IF prev[s] = Unset THEN MaxStarting ELSE 0

\* The loop has waited for its next call to differ from the last one: the search
\* still goes back to that one, and the loop's own time has moved on with every wait.
Lagging(s) ==
  /\ Whole(current[s]) + Second <= prev[s] + Back(s)
  /\ now <= current[s] + Whole(current[s]) - prev[s] + Second + MaxLate

\* Where the loop is, how far past its next call the clock can be.
OnTime(s) ==
  /\ loop[s] \in {"off", "await"} => next[s] = Unset /\ prev[s] = Unset
  /\ loop[s] = "await" => now <= current[s] + MaxStarting
  /\ loop[s] = "sleep" => /\ wake[s] <= next[s] + Back(s) + Grace(s)
                          /\ now < next[s] + Second + Back(s) + Grace(s) + MaxLate
  /\ loop[s] = "top" /\ ~Closed =>
       IF next[s] # Unset THEN Whole(now) + Second <= next[s] + Back(s)
       ELSE IF prev[s] = Unset THEN now <= current[s] + MaxStarting
       ELSE now = current[s] \/ Lagging(s)
  /\ loop[s] = "unsynced" =>
       /\ next[s] = Unset /\ prev[s] # Unset
       /\ now <= wake[s] + MaxLate
       /\ wake[s] <= current[s] + Whole(current[s]) - prev[s] + Second
       /\ Whole(current[s]) + Second <= prev[s] + Back(s)

AllOnTime == \A s \in Services : OnTime(s)

LEMMA LateFacts ==
  ASSUME NEW s \in Services
  PROVE  /\ Back(s) \in Nat /\ MaxLate \in Nat /\ MaxStarting \in Nat
         /\ Grace(s) \in Nat /\ Second \in Nat \ {0}
         /\ (1 - Behind[s]) * Second = Second - Back(s)
         /\ (1 + Behind[s]) * Second = Second + Back(s)
<1>1. Behind[s] \in Nat /\ Second \in Nat \ {0} /\ MaxLate \in Nat /\ MaxStarting \in Nat
  BY SchedulerAssumption
<1> QED
  BY <1>1 DEF Back, Grace

\* The search for the next call goes no further back than Behind seconds.
LEMMA SearchStarts ==
  ASSUME NEW s \in Services, NEW t \in Nat
  PROVE  /\ NextCallAt(s, t) \in Int /\ Whole(t) \in Int
         /\ Whole(t) + Second <= NextCallAt(s, t) + Back(s)
         /\ s \notin Aligned => Whole(t) + Second <= NextCallAt(s, t)
<1> DEFINE period == Every[s] * Second
           from == Whole(t) + (1 - Behind[s]) * Second
           a == from + period - 1
<1>1. /\ period \in Nat \ {0} /\ Second \in Nat \ {0} /\ Second <= period
      /\ Back(s) \in Nat /\ Whole(t) \in Int /\ NextCallAt(s, t) \in Int
      /\ from = Whole(t) + Second - Back(s)
  BY GridFacts, LateFacts, WholeFacts, NextIsInteger
<1>2. CASE s \notin Aligned
  <2> DEFINE u == t + period
             v == Whole(t) + Second
  <2>1. u \in Int /\ v \in Int /\ v <= u
    BY <1>1, WholeFacts
  <2>2. Multiple(v, Second)
    <3>1. PICK k \in Int : Whole(t) = k * Second
      BY WholeFacts DEF Multiple
    <3>2. v = (k + 1) * Second
      BY <1>1, <3>1
    <3> QED
      BY <3>2 DEF Multiple
  <2>3. v <= Whole(u)
    <3> HIDE DEF u, v
    <3> QED
      BY <2>1, <2>2, WholeReaches
  <2>4. NextCallAt(s, t) = Whole(u)
    BY <1>2 DEF NextCallAt
  <2> HIDE DEF u
  <2> QED
    BY <1>1, <2>3, <2>4
<1>3. CASE s \in Aligned
  <2>1. NextCallAt(s, t) = (a \div period) * period
    BY <1>3 DEF NextCallAt
  <2>2. from \in Int
    BY <1>1
  <2> HIDE DEF period, from
  <2>3. a \in Int
    BY <1>1, <2>2
  <2>4. a \div period \in Int /\ a % period \in 0..(period - 1) /\ a = (a \div period) * period + (a % period)
    BY <1>1, <2>3, Division
  <2>5. (a \div period) * period \in Int
    BY <1>1, <2>4
  <2>6. from <= NextCallAt(s, t)
    BY <1>1, <2>1, <2>2, <2>4, <2>5
  <2> QED
    BY <1>1, <1>3, <2>6
<1> QED
  BY <1>2, <1>3

\* A sleep ends before a call that lies ahead; one that is due already waits for
\* the next second of the loop's own time.
LEMMA SleepEnds ==
  ASSUME TypeOK, NEW s \in Services, current[s] \in 0..now, NEW due \in Int
  PROVE  LET end == now + SleepTicks(s, due)
         IN /\ end \in Int
            /\ end <= due \/ end <= Whole(Caught(s)) + Second
<1>1. /\ now \in Nat /\ Second \in Nat \ {0} /\ Parts \in Nat \ {0} /\ MaxSleep * Second \in Nat
      /\ Far * Second \in Nat /\ Caught(s) \in Nat /\ SleepTicks(s, due) \in Int
  BY SchedulerAssumption, CaughtUp, SleepIsInteger DEF TypeOK
<1>2. CASE due - now > Far * Second
  <2> DEFINE ahead == due - now
             part == ahead \div Parts
  <2>1. ahead \in Nat
    BY <1>1, <1>2
  <2>2. part \in Int /\ part <= ahead
    BY <1>1, <2>1, Quotient
  <2>3. Whole(part) \in Int /\ Whole(part) <= part
    BY <2>2, WholeFacts
  <2>4. SleepTicks(s, due) = Earlier(Whole(part), MaxSleep * Second)
    BY <1>2 DEF SleepTicks
  <2>5. SleepTicks(s, due) <= Whole(part)
    <3> HIDE DEF part
    <3> QED
      BY <1>1, <2>3, <2>4 DEF Earlier
  <2>6. SleepTicks(s, due) <= due - now
    <3>1. part <= due - now
      BY <2>2
    <3> HIDE DEF part
    <3> QED
      BY <1>1, <2>2, <2>3, <2>5, <3>1
  <2> QED
    BY <1>1, <2>6
<1>3. CASE ~(due - now > Far * Second)
  <2> DEFINE c == Caught(s)
  <2>1. SleepTicks(s, due) = Whole(c + Second) - now
    BY <1>3 DEF SleepTicks
  <2>2. Whole(c + Second) = Whole(c) + Second
    BY <1>1, WholeNextSecond
  <2>3. Whole(c) \in Int
    BY <1>1, WholeFacts
  <2> HIDE DEF c
  <2>4. now + SleepTicks(s, due) = Whole(c) + Second
    BY <1>1, <2>1, <2>2, <2>3
  <2> QED
    BY <1>1, <2>3, <2>4 DEF c
<1> QED
  BY <1>2, <1>3

LEMMA InitOnTime == Init => AllOnTime
  BY DEF Init, AllOnTime, OnTime

\* What a step leaves of the loops that it does not concern.
LEMMA OthersOnTime ==
  ASSUME TypeOK, NEW s \in Services, OnTime(s), loop[s] = "top" => UNCHANGED <<waiter, closed>>,
         UNCHANGED <<now, loop[s], wake[s], current[s], next[s], prev[s]>>
  PROVE  OnTime(s)'
<1>1. Unset' = Unset /\ Back(s)' = Back(s) /\ \A x \in Int : Whole(x)' = Whole(x)
  BY DEF Unset, Back, Whole
<1>2. now \in Int /\ current[s] \in Int
  BY DEF TypeOK
<1> QED
  BY <1>1, <1>2 DEF OnTime, Grace, Lagging, Closed

LEMMA OtherSleeps ==
  ASSUME TypeOK, NEW r \in Services, LoopStep(r), NEW s \in Services, s # r
  PROVE  wake'[s] = wake[s]
<1> USE DEF TypeOK, timing
<1>1. CASE Start(r) \/ Enter(r) \/ Leave(r) \/ Resync(r) \/ Drained(r)
  BY <1>1 DEF Start, Enter, Leave, Resync, Drained
<1>2. CASE LostSync(r) \/ Sleep(r)
  BY <1>2 DEF LostSync, Sleep
<1>3. CASE TooEarly(r) \/ ClosedMeanwhile(r) \/ Skip(r)
  BY <1>3 DEF TooEarly, ClosedMeanwhile, Skip
<1>4. CASE LookAhead(r) \/ Invoke(r)
  BY <1>4 DEF LookAhead, Invoke
<1> QED
  BY <1>1, <1>2, <1>3, <1>4 DEF LoopStep

\* Time passes while every loop awaits something.
LEMMA TickOnTime ==
  ASSUME TypeOK, NEW s \in Services, OnTime(s), loop[s] # "top", Tick
  PROVE  OnTime(s)'
<1>1. Unset' = Unset /\ Back(s)' = Back(s) /\ \A x \in Int : Whole(x)' = Whole(x)
  BY DEF Unset, Back, Whole
<1>2. /\ now \in Int /\ current[s] \in Int /\ wake[s] \in Int /\ next[s] \in Int /\ prev[s] \in Int
      /\ Back(s) \in Nat /\ Grace(s) \in Nat /\ Second \in Nat \ {0} /\ MaxLate \in Nat /\ MaxStarting \in Nat
  BY LateFacts DEF TypeOK
<1>3. /\ now' = now + 1 /\ UNCHANGED <<loop, wake, current, next, prev>>
      /\ loop[s] = "await" => now < current[s] + MaxStarting
      /\ loop[s] \in {"sleep", "unsynced"} => now < wake[s] + MaxLate
  BY DEF Tick, timing, Sleeping
<1>4. Grace(s)' = Grace(s)
  BY <1>1, <1>3 DEF Grace
<1>5. CASE loop[s] = "sleep"
  <2>1. wake[s] <= next[s] + Back(s) + Grace(s) /\ now < wake[s] + MaxLate
    BY <1>3, <1>5 DEF OnTime
  <2>2. now + 1 < next[s] + Second + Back(s) + Grace(s) + MaxLate
    BY <1>2, <2>1
  <2> QED
    BY <1>1, <1>3, <1>4, <1>5, <2>1, <2>2 DEF OnTime
<1>6. CASE loop[s] = "unsynced"
  <2>1. now + 1 <= wake[s] + MaxLate
    BY <1>2, <1>3, <1>6
  <2> QED
    BY <1>1, <1>2, <1>3, <1>6, <2>1 DEF OnTime
<1>7. CASE loop[s] = "await"
  <2>1. now + 1 <= current[s] + MaxStarting
    BY <1>2, <1>3, <1>7
  <2> QED
    BY <1>1, <1>3, <1>7, <2>1 DEF OnTime
<1>8. CASE loop[s] \notin {"sleep", "unsynced", "await"}
  BY <1>1, <1>3, <1>8 DEF OnTime
<1> QED
  BY <1>5, <1>6, <1>7, <1>8

\* A loop that has no next call knows how far its own time is behind the clock
\* when it looks for one.
LEMMA CaughtInTime ==
  ASSUME SearchesAhead, WokenInTime, TypeOK, NEW s \in Services, InOrder(s), OnTime(s),
         loop[s] = "top", ~Closed, next[s] = Unset, ~immediate[s]
  PROVE  /\ prev[s] = Unset => now <= Caught(s) + MaxStarting
         /\ prev[s] # Unset => /\ now <= Caught(s) + Whole(Caught(s)) - prev[s]
                               /\ Caught(s) = now \/ Whole(Caught(s)) <= prev[s] + Back(s)
<1> DEFINE c == Caught(s)
<1>1. /\ now \in Nat /\ Second \in Nat \ {0} /\ current[s] \in Nat /\ prev[s] \in Int
      /\ Back(s) \in Nat /\ MaxLate \in Nat /\ MaxStarting \in Nat /\ current[s] <= now
      /\ c \in Nat /\ current[s] <= c /\ c <= now
  BY CaughtUp, LateFacts DEF TypeOK, InOrder
<1>2. c = now \/ c = current[s] + Second
  BY DEF Caught
<1>3. Whole(c) \in Int /\ Whole(current[s]) \in Int
  BY <1>1, WholeFacts
<1>4. ASSUME prev[s] = Unset PROVE now <= c + MaxStarting
  <2>1. now <= current[s] + MaxStarting
    BY <1>4 DEF OnTime
  <2> HIDE DEF c
  <2> QED
    BY <1>1, <2>1
<1>5. ASSUME prev[s] # Unset
      PROVE  now <= c + Whole(c) - prev[s] /\ (c = now \/ Whole(c) <= prev[s] + Back(s))
  <2>1. Multiple(prev[s], Second) /\ prev[s] <= current[s]
    BY <1>5, GridFacts DEF InOrder
  <2>2. prev[s] <= Whole(c)
    <3> HIDE DEF c
    <3>1. prev[s] <= c
      BY <1>1, <2>1
    <3> QED
      BY <1>1, <2>1, <3>1, WholeReaches
  <2>3. CASE c = now
    <3> HIDE DEF c
    <3> QED
      BY <1>1, <1>3, <2>2, <2>3
  <2>4. CASE c # now
    <3>1. now # current[s]
      <4>1. Whole(current[s] + Second) < Whole(now)
        BY <2>4 DEF Caught
      <4>2. Whole(current[s] + Second) = Whole(current[s]) + Second
        BY <1>1, WholeNextSecond
      <4>3. Whole(now) \in Int
        BY <1>1, WholeFacts
      <4> QED
        BY <1>1, <1>3, <4>1, <4>2, <4>3
    <3>2. Lagging(s)
      BY <1>5, <3>1 DEF OnTime
    <3>3. c = current[s] + Second
      BY <1>2, <2>4
    <3>4. Whole(c) = Whole(current[s]) + Second
      BY <1>1, <3>3, WholeNextSecond
    <3>5. /\ Whole(current[s]) + Second <= prev[s] + Back(s)
          /\ now <= current[s] + Whole(current[s]) - prev[s] + Second + MaxLate
      BY <3>2 DEF Lagging
    <3>6. MaxLate <= Second
      BY DEF WokenInTime
    <3> HIDE DEF c
    <3> QED
      BY <1>1, <1>3, <3>3, <3>4, <3>5, <3>6
  <2> QED
    BY <2>3, <2>4
<1> QED
  BY <1>4, <1>5

\* The call that a loop goes to sleep for is not long overdue, however often it
\* has looked for it.
LEMMA DueInTime ==
  ASSUME SearchesAhead, WokenInTime, TypeOK, NEW s \in Services, InOrder(s), OnTime(s),
         loop[s] = "top", ~Closed, ~immediate[s], ~Repeats(s)
  PROVE  /\ Due(s) \in Int
         /\ Whole(Caught(s)) + Second <= Due(s) + Back(s)
         /\ now < Due(s) + Second + Back(s) + Grace(s)
<1> DEFINE c == Caught(s)
<1>1. /\ now \in Nat /\ Second \in Nat \ {0} /\ prev[s] \in Int /\ next[s] \in Int
      /\ Back(s) \in Nat /\ MaxStarting \in Nat /\ Grace(s) \in Nat
      /\ c \in Nat /\ current[s] <= c /\ c <= now /\ Due(s) \in Int
  BY CaughtUp, LateFacts, CaughtIsInteger DEF TypeOK, InOrder
<1>2. /\ Whole(c) \in Int /\ c < Whole(c) + Second /\ Whole(now) \in Int /\ now < Whole(now) + Second
      /\ Whole(c) <= Whole(now)
  <2> HIDE DEF c
  <2>1. Whole(c) \in Int /\ c - Second < Whole(c) /\ Whole(now) \in Int /\ now - Second < Whole(now)
    BY <1>1, WholeFacts
  <2>2. Whole(c) <= Whole(now)
    BY <1>1, WholeMonotone
  <2> QED
    BY <1>1, <2>1, <2>2
<1>3. CASE next[s] # Unset
  <2>1. Due(s) = next[s] /\ Whole(now) + Second <= next[s] + Back(s)
    BY <1>3 DEF Due, OnTime
  <2> HIDE DEF c
  <2>2. Whole(c) + Second <= Due(s) + Back(s) /\ now < Due(s) + Second + Back(s) + Grace(s)
    BY <1>1, <1>2, <2>1
  <2> QED
    BY <1>1, <2>2 DEF c
<1>4. CASE next[s] = Unset
  <2>1. Due(s) = NextCallAt(s, c)
    BY <1>4 DEF Due
  <2>2. Whole(c) + Second <= Due(s) + Back(s) /\ (s \notin Aligned => Whole(c) + Second <= Due(s))
    BY <1>1, <2>1, SearchStarts
  <2>3. CASE prev[s] = Unset
    <3>1. now <= c + MaxStarting /\ Grace(s) = MaxStarting
      BY <1>4, <2>3, CaughtInTime DEF Grace
    <3> HIDE DEF c
    <3> QED
      BY <1>1, <1>2, <2>2, <3>1 DEF c
  <2>4. CASE prev[s] # Unset
    <3>1. now <= c + Whole(c) - prev[s] /\ (c = now \/ Whole(c) <= prev[s] + Back(s))
      BY <1>4, <2>4, CaughtInTime
    <3>2. CASE c = now
      <4> HIDE DEF c
      <4> QED
        BY <1>1, <1>2, <2>2, <3>2 DEF c
    <3>3. CASE c # now
      <4>1. Whole(c) <= Due(s)
        <5>1. CASE s \notin Aligned
          <6> HIDE DEF c
          <6> QED
            BY <1>1, <1>2, <2>2, <5>1
        <5>2. CASE s \in Aligned
          <6>1. Multiple(prev[s], Grid(s)) /\ Multiple(Due(s), Grid(s)) /\ prev[s] <= Due(s)
            BY <1>1, <1>4, <2>1, <2>4, ComputedIsLater DEF InOrder
          <6>2. Due(s) # prev[s] /\ Grid(s) \in Nat \ {0}
            BY <1>4, <2>4, GridFacts DEF Repeats
          <6>3. ~(prev[s] > Due(s) - Grid(s))
            <7>1. ASSUME prev[s] > Due(s) - Grid(s) PROVE prev[s] >= Due(s)
              BY <1>1, <6>1, <6>2, <7>1, Multiples
            <7> QED
              BY <1>1, <6>1, <6>2, <7>1
          <6>4. Back(s) <= Grid(s)
            <7>1. Behind[s] <= Every[s] /\ Behind[s] \in Nat /\ Every[s] \in Nat
              BY GridFacts DEF SearchesAhead
            <7>2. (Every[s] - Behind[s]) * Second >= 0
              BY <1>1, <7>1
            <7>3. (Every[s] - Behind[s]) * Second = Every[s] * Second - Behind[s] * Second
              BY <1>1, <7>1
            <7> QED
              BY <1>1, <5>2, <7>1, <7>2, <7>3 DEF Grid, Back
          <6> HIDE DEF c
          <6> QED
            BY <1>1, <1>2, <3>1, <3>3, <6>2, <6>3, <6>4
        <5> QED
          BY <5>1, <5>2
      <4> HIDE DEF c
      <4>2. now <= c + Back(s)
        BY <1>1, <1>2, <3>1, <3>3
      <4>3. now < Due(s) + Second + Back(s) + Grace(s)
        BY <1>1, <1>2, <4>1, <4>2
      <4> QED
        BY <1>1, <2>2, <4>3 DEF c
    <3> QED
      BY <3>2, <3>3
  <2> QED
    BY <2>3, <2>4
<1> QED
  BY <1>3, <1>4

\* Each step of a loop keeps its own call in time.
LEMMA LoopOnTime ==
  ASSUME SearchesAhead, WokenInTime, IndInv, NEW s \in Services, LoopStep(s), InOrder(s), OnTime(s)
  PROVE  OnTime(s)'
<1>0. /\ now \in Nat /\ Second \in Nat \ {0} /\ Penalty * Second \in Nat /\ wake[s] \in Int
      /\ current[s] \in Int /\ next[s] \in Int /\ prev[s] \in Int /\ Back(s) \in Nat
      /\ Grace(s) \in Nat /\ MaxLate \in Nat /\ MaxStarting \in Nat /\ current[s] \in 0..now
  BY SchedulerAssumption, LateFacts DEF IndInv, TypeOK, InOrder
<1>1. /\ Unset' = Unset /\ Back(s)' = Back(s)
      /\ \A x \in Int : Whole(x) \in Int /\ Whole(x)' = Whole(x)
  BY WholeFacts DEF Unset, Back, Whole
<1>2. TypeOK /\ Settled
  BY DEF IndInv
<1>3. CASE Start(s)
  <2>1. loop[s] = "off" /\ loop'[s] = "await" /\ current'[s] = now /\ UNCHANGED <<now, next[s], prev[s]>>
    BY <1>2, <1>3 DEF Start, Settled, TypeOK
  <2>2. next[s] = Unset /\ prev[s] = Unset
    BY <2>1 DEF OnTime
  <2>3. now' <= current'[s] + MaxStarting
    BY <1>0, <2>1
  <2> QED
    BY <1>1, <2>1, <2>2, <2>3 DEF OnTime
<1>4. CASE Enter(s)
  <2>1. loop[s] = "await" /\ loop'[s] = "top" /\ UNCHANGED <<now, current[s], next[s], prev[s]>>
    BY <1>2, <1>4 DEF Enter, timing, TypeOK
  <2>2. next[s] = Unset /\ prev[s] = Unset /\ now <= current[s] + MaxStarting
    BY <2>1 DEF OnTime
  <2> QED
    BY <1>1, <2>1, <2>2 DEF OnTime
<1>5. CASE Leave(s) \/ Drained(s)
  <2>1. loop'[s] \in {"drain", "done"}
    BY <1>2, <1>5 DEF Leave, Drained, TypeOK
  <2> QED
    BY <2>1 DEF OnTime
<1>6. CASE LostSync(s)
  <2> DEFINE c == Caught(s)
  <2>1. /\ loop[s] = "top" /\ ~Closed /\ ~immediate[s] /\ Repeats(s)
        /\ loop'[s] = "unsynced" /\ current'[s] = c /\ wake'[s] = now + Second
        /\ UNCHANGED <<now, next[s], prev[s]>>
    BY <1>2, <1>6 DEF LostSync, TypeOK
  <2>2. next[s] = Unset /\ prev[s] # Unset /\ prev[s] = Due(s) /\ Due(s) = NextCallAt(s, c)
    BY <2>1 DEF Repeats, Due
  <2>3. c \in Nat /\ now <= c + Whole(c) - prev[s]
    BY <1>0, <1>2, <2>1, <2>2, CaughtUp, CaughtInTime
  <2>4. Whole(c) + Second <= prev[s] + Back(s)
    BY <2>2, <2>3, SearchStarts
  <2>5. Whole(c) \in Int
    BY <1>1, <2>3
  <2> HIDE DEF c
  <2>6. now' <= wake'[s] + MaxLate /\ wake'[s] <= c + Whole(c) - prev[s] + Second
    BY <1>0, <2>1, <2>3, <2>5
  <2>7. Whole(current'[s]) = Whole(c)
    BY <2>1
  <2> QED
    BY <1>0, <1>1, <2>1, <2>2, <2>3, <2>4, <2>5, <2>6, <2>7 DEF OnTime
<1>7. CASE Resync(s)
  <2>1. loop[s] = "unsynced" /\ loop'[s] = "top" /\ UNCHANGED <<now, current[s], next[s], prev[s]>>
    BY <1>2, <1>7 DEF Resync, TypeOK
  <2>2. /\ next[s] = Unset /\ prev[s] # Unset
        /\ now <= wake[s] + MaxLate
        /\ wake[s] <= current[s] + Whole(current[s]) - prev[s] + Second
        /\ Whole(current[s]) + Second <= prev[s] + Back(s)
    BY <2>1 DEF OnTime
  <2>3. now <= current[s] + Whole(current[s]) - prev[s] + Second + MaxLate
    BY <1>0, <1>1, <2>2
  <2> QED
    BY <1>0, <1>1, <2>1, <2>2, <2>3 DEF OnTime, Lagging
<1>8. CASE Sleep(s)
  <2>1. /\ loop[s] = "top" /\ ~Closed /\ ~immediate[s] /\ ~Repeats(s)
        /\ loop'[s] = "sleep" /\ next'[s] = Due(s) /\ wake'[s] = now + SleepTicks(s, Due(s))
        /\ UNCHANGED <<now, prev[s]>>
    BY <1>2, <1>8 DEF Sleep, TypeOK
  <2>2. /\ Due(s) \in Int
        /\ Whole(Caught(s)) + Second <= Due(s) + Back(s)
        /\ now < Due(s) + Second + Back(s) + Grace(s)
    BY <1>2, <2>1, DueInTime
  <2>3. wake'[s] \in Int /\ (wake'[s] <= Due(s) \/ wake'[s] <= Whole(Caught(s)) + Second)
    BY <1>0, <1>2, <2>1, <2>2, SleepEnds
  <2>4. Caught(s) \in Int /\ Whole(Caught(s)) \in Int
    BY <1>1, <1>2, CaughtIsInteger
  <2>5. wake'[s] <= Due(s) + Back(s) + Grace(s)
    BY <1>0, <2>2, <2>3, <2>4
  <2>6. now < Due(s) + Second + Back(s) + Grace(s) + MaxLate
    BY <1>0, <2>2
  <2>7. Grace(s)' = Grace(s)
    BY <1>1, <2>1 DEF Grace
  <2> QED
    BY <1>1, <2>1, <2>5, <2>6, <2>7 DEF OnTime
<1>9. CASE TooEarly(s) \/ ClosedMeanwhile(s)
  <2>1. loop'[s] = "top" /\ UNCHANGED <<now, next[s], prev[s], waiter, closed>>
    BY <1>2, <1>9 DEF TooEarly, ClosedMeanwhile, TypeOK
  <2>2. CASE Closed
    BY <2>1, <2>2 DEF OnTime, Closed
  <2>3. CASE ~Closed
    <3>1. loop[s] = "sleep" /\ next[s] > now
      BY <1>9, <2>3 DEF TooEarly, ClosedMeanwhile, Early
    <3>2. next[s] # Unset /\ Multiple(next[s], Second)
      BY <3>1, GridFacts DEF InOrder
    <3>3. Whole(now) + Second <= next[s]
      <4>1. /\ Whole(now) \in Int /\ Whole(now) <= now /\ Multiple(Whole(now), Second)
            /\ next[s] > Whole(now)
        BY <1>0, <3>1, WholeFacts
      <4>2. ASSUME Whole(now) > next[s] - Second PROVE Whole(now) >= next[s]
        BY <1>0, <3>2, <4>1, <4>2, Multiples
      <4> QED
        BY <1>0, <4>1, <4>2
    <3>4. Whole(now) + Second <= next[s] + Back(s)
      BY <1>0, <1>1, <3>3
    <3>5. Whole(now') = Whole(now)
      BY <2>1
    <3> QED
      BY <1>0, <1>1, <2>1, <3>2, <3>4, <3>5 DEF OnTime
  <2> QED
    BY <2>2, <2>3
<1>10. CASE Skip(s)
  <2>1. loop'[s] = "crowded"
    BY <1>2, <1>10 DEF Skip, TypeOK
  <2> QED
    BY <2>1 DEF OnTime
<1>11. CASE LookAhead(s)
  <2> DEFINE t == now + Penalty * Second
  <2>1. loop'[s] = "top" /\ next'[s] = NextCallAt(s, t) /\ now' = now
    BY <1>2, <1>11 DEF LookAhead, TypeOK
  <2>2. t \in Nat /\ now <= t
    BY <1>0
  <2> HIDE DEF t
  <2>3. NextCallAt(s, t) \in Nat /\ Whole(t) + Second <= NextCallAt(s, t) + Back(s)
    BY <2>2, SearchStarts, NextCallIsAhead
  <2>4. Whole(now) <= Whole(t) /\ Whole(now) \in Int /\ Whole(t) \in Int
    <3>1. now \in Int /\ t \in Int
      BY <1>0, <2>2
    <3> QED
      BY <2>2, <3>1, WholeMonotone, WholeFacts
  <2>5. Whole(now) + Second <= NextCallAt(s, t) + Back(s) /\ NextCallAt(s, t) # Unset
    BY <1>0, <2>3, <2>4 DEF Unset
  <2>6. Whole(now') = Whole(now)
    BY <2>1
  <2> QED
    BY <1>0, <1>1, <2>1, <2>5, <2>6 DEF OnTime
<1>12. CASE Invoke(s)
  <2>1. loop'[s] = "top" /\ next'[s] = Unset /\ current'[s] = now /\ now' = now
    BY <1>2, <1>12 DEF Invoke, TypeOK
  <2>2. now' <= current'[s] + MaxStarting
    BY <1>0, <2>1
  <2> QED
    BY <1>1, <2>1, <2>2 DEF OnTime
<1> QED
  BY <1>3, <1>4, <1>5, <1>6, <1>7, <1>8, <1>9, <1>10, <1>11, <1>12 DEF LoopStep

LEMMA OnTimeStep == SearchesAhead /\ WokenInTime /\ IndInv /\ Ordered /\ AllOnTime /\ [Next]_vars => AllOnTime'
<1> SUFFICES ASSUME SearchesAhead, WokenInTime, IndInv, Ordered, AllOnTime, [Next]_vars, NEW s \in Services
             PROVE  OnTime(s)'
  BY DEF AllOnTime
<1>1. TypeOK /\ OnTime(s)
  BY DEF IndInv, AllOnTime
<1>2. ASSUME LoopStep(s) PROVE OnTime(s)'
  <2>1. CASE loop[s] \in {"drain", "done"}
    <3>1. loop'[s] = "done"
      BY <1>2, <2>1, EndedStays
    <3> QED
      BY <3>1 DEF OnTime
  <2>2. CASE loop[s] \notin {"drain", "done"}
    BY <1>1, <1>2, <2>2, LoopOnTime DEF Ordered
  <2> QED
    BY <2>1, <2>2
<1>3. ASSUME NEW r \in Services, LoopStep(r), r # s, loop[s] = "top" => UNCHANGED <<waiter, closed>>
      PROVE  OnTime(s)'
  BY <1>1, <1>3, OtherLoops, OtherSleeps, OthersOnTime
<1>4. ASSUME NEW r \in Services, Started(r) \/ Stop(r) \/ Stopped(r) \/ Return(r), loop[s] # "top"
      PROVE  OnTime(s)'
  <2>1. UNCHANGED <<now, loop, timing>>
    BY <1>4 DEF Started, Stop, Stopped, Return
  <2> QED
    BY <1>1, <1>4, <2>1, OthersOnTime DEF timing
<1>5. CASE \E r \in Services : Top(r)
  <2>1. PICK r \in Services : Top(r)
    BY <1>5
  <2>2. LoopStep(r)
    BY <2>1 DEF Top, LoopStep
  <2>3. UNCHANGED <<waiter, closed>>
    BY <2>1 DEF Top, Leave, LostSync, Sleep, Invoke
  <2> QED
    BY <1>2, <1>3, <2>2, <2>3
<1>6. CASE loop[s] # "top" /\ \E r \in Services : Start(r) \/ Awaited(r)
  <2>1. PICK r \in Services : Start(r) \/ Awaited(r)
    BY <1>6
  <2>2. LoopStep(r)
    BY <2>1 DEF Awaited, LoopStep
  <2> QED
    BY <1>2, <1>3, <1>6, <2>2
<1>7. CASE loop[s] # "top" /\ Tick
  BY <1>1, <1>7, TickOnTime
<1>8. CASE UNCHANGED vars
  BY <1>1, <1>8, OthersOnTime DEF vars, timing
<1> QED
  BY <1>4, <1>5, <1>6, <1>7, <1>8 DEF Next

LEMMA OnTimeInvariance == SearchesAhead /\ WokenInTime => (Spec => []AllOnTime)
<1> SUFFICES ASSUME SearchesAhead, WokenInTime PROVE Spec => []AllOnTime
  OBVIOUS
<1>1. IndInv /\ Ordered /\ AllOnTime /\ [Next]_vars => AllOnTime'
  BY OnTimeStep
<1> QED
  BY InitOnTime, Invariance, OrderedInvariance, <1>1, PTL DEF Spec

\* Only the step that starts a handler makes the tasks of a service more.
LEMMA OnlyInvokeAddsTask ==
  ASSUME TypeOK, [Next]_vars, NEW s \in Services, tasks'[s] > tasks[s]
  PROVE  Invoke(s)
<1>1. tasks[s] \in Nat /\ tasks \in [Services -> 0..Limit] /\ Limit \in Nat
  BY SchedulerAssumption DEF TypeOK
<1>2. tasks' # tasks
  BY <1>1
<1>3. PICK r \in Services : Invoke(r) \/ Return(r)
  BY <1>2 DEF Next, Top, Awaited, Start, Started, Stop, Stopped, Enter, Leave, LostSync,
     Resync, Sleep, TooEarly, ClosedMeanwhile, Skip, LookAhead, Drained, Tick, vars, timing
<1> QED
  BY <1>1, <1>3 DEF Invoke, Return

-----------------------------------------------------------------------------
\* The types, with the limit of tasks: a loop never has more handlers under way
\* than Limit allows (transport/schedule.py 498-550).
THEOREM TypeCorrect == Spec => []TypeOK
<1>1. IndInv => TypeOK
  BY DEF IndInv
<1> QED
  BY Invariance, <1>1, PTL

\* A service that was stopped has no scheduled handler left: its stop waits for
\* the loop, and the loop for its tasks (transport/schedule.py 557-601).
THEOREM DrainedBeforeStopped == Spec => []StoppedIsDrained
<1>1. IndInv => StoppedIsDrained
  BY DEF IndInv, Settled, StoppedIsDrained
<1> QED
  BY Invariance, <1>1, PTL

\* No function is called twice for a time, nor for an earlier one after a later
\* one, when searches do not start further back than an interval
\* (transport/schedule.py 433-547, and next_call_at).
THEOREM CallsAdvance == SearchesAhead => (Spec => InvocationsAdvance)
<1> SUFFICES ASSUME SearchesAhead PROVE Spec => InvocationsAdvance
  OBVIOUS
<1>1. ASSUME IndInv, Ordered, [Next]_vars, NEW s \in Services, tasks'[s] > tasks[s]
      PROVE  invoked[s] < invoked'[s]
  <2>1. TypeOK
    BY <1>1 DEF IndInv
  <2>2. Invoke(s)
    BY <1>1, <2>1, OnlyInvokeAddsTask
  <2>3. \/ loop[s] = "sleep" /\ next[s] <= now
        \/ immediate[s] /\ loop[s] = "top"
    BY <2>1, <2>2, AwakeInTime DEF Invoke
  <2>4. invoked'[s] = Whole(IF next[s] = Unset THEN now ELSE next[s])
    BY <2>1, <2>2 DEF Invoke, TypeOK
  <2>5. InOrder(s)
    BY <1>1, <2>3 DEF Ordered
  <2>6. CASE loop[s] = "sleep"
    <3>1. next[s] \in Nat /\ next[s] # Unset /\ Multiple(next[s], Grid(s)) /\ invoked[s] < next[s]
      BY <2>5, <2>6 DEF InOrder
    <3> QED
      BY <2>4, <3>1, GridFacts, WholeSecond
  <2>7. CASE immediate[s] /\ loop[s] = "top"
    <3>1. next[s] = Unset /\ invoked[s] = Unset
      BY <2>5, <2>7 DEF InOrder
    <3>2. Multiple(0, Second)
      <4>1. 0 = 0 * Second /\ 0 \in Int
        BY GridFacts
      <4> QED
        BY <4>1, Zenon DEF Multiple
    <3>3. 0 <= Whole(now) /\ Whole(now) \in Int
      <4>1. now \in Int /\ 0 <= now
        BY <2>1 DEF TypeOK
      <4> QED
        BY <3>2, <4>1, WholeReaches, WholeFacts
    <3> QED
      BY <2>4, <3>1, <3>3 DEF Unset
  <2> QED
    BY <2>3, <2>6, <2>7
<1>2. IndInv /\ Ordered /\ [Next]_vars
      => [\A s \in Services : tasks'[s] > tasks[s] => invoked[s] < invoked'[s]]_vars
  BY <1>1
<1> QED
  BY Invariance, OrderedInvariance, <1>2, PTL DEF Spec, InvocationsAdvance

\* However the sleeps are cut and however often the next call has to be looked for,
\* a function is called no later than its loop was woken late or than the search
\* for its time started early, when no sleep ends more than a second late
\* (transport/schedule.py 443-547, and next_call_at).
THEOREM CallsOnTime == SearchesAhead /\ WokenInTime => (Spec => InvokedOnTime)
<1> SUFFICES ASSUME SearchesAhead, WokenInTime PROVE Spec => InvokedOnTime
  OBVIOUS
<1> DEFINE Latest(s) == (1 + Behind[s]) * Second + MaxLate + (IF prev[s] = Unset THEN MaxStarting ELSE 0)
<1>1. ASSUME IndInv, Ordered, AllOnTime, [Next]_vars, NEW s \in Services, tasks'[s] > tasks[s]
      PROVE  now - invoked'[s] < Latest(s)
  <2>1. TypeOK /\ OnTime(s)
    BY <1>1 DEF IndInv, AllOnTime
  <2>2. Invoke(s)
    BY <1>1, <2>1, OnlyInvokeAddsTask
  <2>3. \/ loop[s] = "sleep" /\ next[s] <= now
        \/ immediate[s] /\ loop[s] = "top"
    BY <2>1, <2>2, AwakeInTime DEF Invoke
  <2>4. invoked'[s] = Whole(IF next[s] = Unset THEN now ELSE next[s])
    BY <2>1, <2>2 DEF Invoke, TypeOK
  <2>5. InOrder(s)
    BY <1>1, <2>3 DEF Ordered
  <2>6. /\ Latest(s) = Second + Back(s) + MaxLate + Grace(s)
        /\ Back(s) \in Nat /\ MaxLate \in Nat /\ Grace(s) \in Nat /\ Second \in Nat \ {0} /\ now \in Int
    BY <2>1, LateFacts DEF Grace, TypeOK
  <2> HIDE DEF Latest
  <2>7. CASE loop[s] = "sleep"
    <3>1. next[s] \in Nat /\ next[s] # Unset /\ Multiple(next[s], Grid(s))
      BY <2>5, <2>7 DEF InOrder
    <3>2. invoked'[s] = next[s]
      BY <2>4, <3>1, GridFacts, WholeSecond
    <3>3. now < next[s] + Second + Back(s) + Grace(s) + MaxLate
      BY <2>1, <2>7 DEF OnTime
    <3> QED
      BY <2>6, <3>1, <3>2, <3>3
  <2>8. CASE immediate[s] /\ loop[s] = "top"
    <3>1. invoked'[s] = Whole(now)
      BY <2>4, <2>5, <2>8 DEF InOrder
    <3>2. Whole(now) \in Int /\ now - Second < Whole(now)
      BY <2>6, WholeFacts
    <3> QED
      BY <2>6, <3>1, <3>2
  <2> QED
    BY <2>3, <2>7, <2>8
<1>2. IndInv /\ Ordered /\ AllOnTime /\ [Next]_vars
      => [\A s \in Services : tasks'[s] > tasks[s] => now - invoked'[s] < Latest(s)]_vars
  BY <1>1
<1> QED
  BY Invariance, OrderedInvariance, OnTimeInvariance, <1>2, PTL DEF Spec, InvokedOnTime

-----------------------------------------------------------------------------
(* Crontab: the order of time.                                               *)

\* A set of natural numbers has a least element: < is well-founded.
LEMMA LeastNatural ==
  ASSUME NEW S \in SUBSET Nat, S # {}
  PROVE  \E x \in S : \A y \in S : x <= y
<1>1. IsWellFoundedOn(OpToRel(<, Nat), Nat)
  BY NatLessThanWellFounded
<1>2. PICK x \in S : \A y \in S : ~(<<y, x>> \in OpToRel(<, Nat))
  BY <1>1, WFMin
<1>3. ASSUME NEW y \in S PROVE x <= y
  <2>1. ~(<<y, x>> \in OpToRel(<, Nat))
    BY <1>2
  <2> QED
    BY <2>1 DEF OpToRel
<1> QED
  BY <1>3

\* The more significant of two numbers decides.
LEMMA Carry ==
  ASSUME NEW K \in Nat \ {0}, NEW a \in Int, NEW b \in Int, a < b,
         NEW x \in 0..(K - 1), NEW y \in 0..(K - 1)
  PROVE  a * K + x < b * K + y
<1>1. (b - a - 1) * K >= 0
  OBVIOUS
<1>2. (b - a - 1) * K = b * K - a * K - K
  OBVIOUS
<1>3. a * K \in Int /\ b * K \in Int
  OBVIOUS
<1> QED
  BY <1>1, <1>2, <1>3

-----------------------------------------------------------------------------
(* The calendar.                                                             *)

LEMMA CalendarFacts ==
  /\ MinutesPerHour \in Nat \ {0} /\ HoursPerDay \in Nat \ {0} /\ DaysPerWeek \in Nat \ {0}
  /\ MonthsPerYear \in Nat \ {0} /\ FirstYear \in Nat /\ LastYear \in Nat /\ FirstYear <= LastYear
  /\ ShortestMonth \in Nat \ {0} /\ LongestMonth \in Nat \ {0} /\ DaysPerWeek <= ShortestMonth
  /\ \A y \in FirstYear..LastYear, m \in 1..MonthsPerYear : MonthDays[y][m] \in ShortestMonth..LongestMonth
  /\ FirstWeekday \in Nat
<1>1. \A y \in FirstYear..LastYear, m \in 1..MonthsPerYear : MonthDays[y][m] \in ShortestMonth..LongestMonth
  BY CrontabAssumption
<1>2. MonthDays[FirstYear][1] \in ShortestMonth..LongestMonth
  BY <1>1, CrontabAssumption
<1> QED
  BY <1>1, <1>2, CrontabAssumption

\* Dates of the calendar's form, which may lie beyond its years or on a day
\* that the month does not have.
Times ==
  [year : Nat, month : 1..MonthsPerYear, day : 1..LongestMonth,
   hour : 0..(HoursPerDay - 1), minute : 0..(MinutesPerHour - 1)]

DayBefore(a, b) ==
  \/ a.year < b.year
  \/ a.year = b.year /\ a.month < b.month
  \/ a.year = b.year /\ a.month = b.month /\ a.day < b.day

SameDay(a, b) == a.year = b.year /\ a.month = b.month /\ a.day = b.day

Before(a, b) ==
  \/ DayBefore(a, b)
  \/ SameDay(a, b) /\ a.hour < b.hour
  \/ SameDay(a, b) /\ a.hour = b.hour /\ a.minute < b.minute

LEMMA DayOrderIsNatural ==
  ASSUME NEW a, a.year \in Nat, a.month \in 1..MonthsPerYear, a.day \in 1..LongestMonth
  PROVE  DayOrder(a) \in Nat
<1>1. a.year * (MonthsPerYear + 1) \in Nat
  BY CalendarFacts
<1>2. a.year * (MonthsPerYear + 1) + a.month \in Nat
  BY <1>1
<1>3. (a.year * (MonthsPerYear + 1) + a.month) * (LongestMonth + 1) \in Nat
  BY <1>2, CalendarFacts
<1> QED
  BY <1>3 DEF DayOrder

\* A date is before another one if its year is, or its month of the same
\* year, or its day of the same month.
LEMMA DaysInOrder ==
  ASSUME NEW a, NEW b,
         a.year \in Nat, a.month \in 1..MonthsPerYear, a.day \in 1..LongestMonth,
         b.year \in Nat, b.month \in 1..MonthsPerYear, b.day \in 1..LongestMonth
  PROVE  /\ DayBefore(a, b) => DayOrder(a) < DayOrder(b)
         /\ SameDay(a, b) => DayOrder(a) = DayOrder(b)
<1> DEFINE M == MonthsPerYear + 1
           L == LongestMonth + 1
           p == a.year * M + a.month
           q == b.year * M + b.month
<1>1. /\ M \in Nat \ {0} /\ L \in Nat \ {0}
      /\ a.month \in 0..(M - 1) /\ b.month \in 0..(M - 1) /\ a.day \in 0..(L - 1) /\ b.day \in 0..(L - 1)
  BY CalendarFacts
<1>2. DayOrder(a) = p * L + a.day /\ DayOrder(b) = q * L + b.day
  BY DEF DayOrder
<1> HIDE DEF M, L
<1>3. p \in Int /\ q \in Int
  BY <1>1
<1>4. a.year < b.year => p < q
  BY <1>1, Carry
<1>5. a.year = b.year /\ a.month < b.month => p < q
  <2>1. a.year * M \in Int
    BY <1>1
  <2> QED
    BY <1>1, <2>1
<1>6. a.year = b.year /\ a.month = b.month => p = q
  OBVIOUS
<1> HIDE DEF p, q
<1>7. p < q => p * L + a.day < q * L + b.day
  BY <1>1, <1>3, Carry
<1>8. p = q /\ a.day < b.day => p * L + a.day < q * L + b.day
  <2>1. p * L \in Int
    BY <1>1, <1>3
  <2> QED
    BY <1>1, <2>1
<1> QED
  BY <1>2, <1>4, <1>5, <1>6, <1>7, <1>8 DEF DayBefore, SameDay

LEMMA OrderIsNatural ==
  ASSUME NEW a \in Times
  PROVE  Order(a) \in Nat
<1>1. DayOrder(a) \in Nat
  BY DayOrderIsNatural DEF Times
<1>2. DayOrder(a) * HoursPerDay \in Nat
  BY <1>1, CalendarFacts
<1>3. DayOrder(a) * HoursPerDay + a.hour \in Nat
  BY <1>2, CalendarFacts DEF Times
<1>4. (DayOrder(a) * HoursPerDay + a.hour) * MinutesPerHour \in Nat
  BY <1>3, CalendarFacts
<1> QED
  BY <1>4, CalendarFacts DEF Order, Times

LEMMA BeforeIsEarlier ==
  ASSUME NEW a \in Times, NEW b \in Times, Before(a, b)
  PROVE  Order(a) < Order(b)
<1> DEFINE p == DayOrder(a) * HoursPerDay + a.hour
           q == DayOrder(b) * HoursPerDay + b.hour
<1>1. /\ DayOrder(a) \in Nat /\ DayOrder(b) \in Nat
      /\ a.hour \in 0..(HoursPerDay - 1) /\ b.hour \in 0..(HoursPerDay - 1)
      /\ a.minute \in 0..(MinutesPerHour - 1) /\ b.minute \in 0..(MinutesPerHour - 1)
      /\ HoursPerDay \in Nat \ {0} /\ MinutesPerHour \in Nat \ {0}
  BY DayOrderIsNatural, CalendarFacts DEF Times
<1>2. /\ DayBefore(a, b) => DayOrder(a) < DayOrder(b)
      /\ SameDay(a, b) => DayOrder(a) = DayOrder(b)
  BY DaysInOrder DEF Times
<1>3. p \in Int /\ q \in Int /\ Order(a) = p * MinutesPerHour + a.minute /\ Order(b) = q * MinutesPerHour + b.minute
  BY <1>1 DEF Order
<1>4. DayOrder(a) < DayOrder(b) => p < q
  BY <1>1, Carry
<1>5. DayOrder(a) = DayOrder(b) /\ a.hour < b.hour => p < q
  <2>1. DayOrder(a) * HoursPerDay \in Int
    BY <1>1
  <2> QED
    BY <1>1, <2>1
<1>6. DayOrder(a) = DayOrder(b) /\ a.hour = b.hour => p = q
  OBVIOUS
<1> HIDE DEF p, q
<1>7. p < q => p * MinutesPerHour + a.minute < q * MinutesPerHour + b.minute
  BY <1>1, <1>3, Carry
<1>8. p = q /\ a.minute < b.minute => p * MinutesPerHour + a.minute < q * MinutesPerHour + b.minute
  <2>1. p * MinutesPerHour \in Int
    BY <1>1, <1>3
  <2> QED
    BY <1>1, <2>1
<1> QED
  BY <1>2, <1>3, <1>4, <1>5, <1>6, <1>7, <1>8 DEF Before

\* Order compares moments as a calendar does.
LEMMA InOrderOfTime ==
  ASSUME NEW a \in Times, NEW b \in Times
  PROVE  /\ Order(a) < Order(b) <=> Before(a, b)
         /\ Order(a) <= Order(b) <=> ~Before(b, a)
<1>1. Order(a) \in Nat /\ Order(b) \in Nat
  BY OrderIsNatural
<1>2. CASE Before(a, b)
  <2>1. Order(a) < Order(b)
    BY <1>2, BeforeIsEarlier
  <2>2. ~Before(b, a)
    BY <1>2 DEF Before, DayBefore, SameDay, Times
  <2> QED
    BY <1>1, <1>2, <2>1, <2>2
<1>3. CASE Before(b, a)
  <2>1. Order(b) < Order(a)
    BY <1>3, BeforeIsEarlier
  <2>2. ~Before(a, b)
    BY <1>3 DEF Before, DayBefore, SameDay, Times
  <2> QED
    BY <1>1, <1>3, <2>1, <2>2
<1>4. CASE ~Before(a, b) /\ ~Before(b, a)
  <2>1. a = b
    BY <1>4 DEF Before, DayBefore, SameDay, Times
  <2> QED
    BY <1>1, <1>4, <2>1
<1> QED
  BY <1>2, <1>3, <1>4

LEMMA SameOrderSameTime ==
  ASSUME NEW a \in Times, NEW b \in Times, Order(a) = Order(b)
  PROVE  a = b
<1>1. Order(a) \in Nat
  BY OrderIsNatural
<1>2. ~Before(a, b) /\ ~Before(b, a)
  BY <1>1, InOrderOfTime
<1> QED
  BY <1>2 DEF Before, DayBefore, SameDay, Times

\* Of moments there is one that is the first.
LEMMA EarliestFacts ==
  ASSUME NEW S \in SUBSET Times, S # {}
  PROVE  \E t \in S : Earliest(S) = {t} /\ \A u \in S : Order(t) <= Order(u)
<1> DEFINE N == {Order(t) : t \in S}
<1>1. N \in SUBSET Nat /\ N # {}
  BY OrderIsNatural
<1>2. PICK x \in N : \A y \in N : x <= y
  BY <1>1, LeastNatural
<1>3. PICK t \in S : x = Order(t)
  BY <1>2
<1>4. \A u \in S : Order(t) <= Order(u)
  BY <1>2, <1>3
<1>5. ASSUME NEW v \in Earliest(S) PROVE v = t
  <2>1. v \in S /\ Order(v) <= Order(t) /\ Order(t) <= Order(v)
    BY <1>4 DEF Earliest
  <2>2. Order(v) = Order(t)
    BY <2>1, OrderIsNatural
  <2> QED
    BY <2>1, <2>2, SameOrderSameTime
<1>6. t \in Earliest(S)
  BY <1>4 DEF Earliest
<1> QED
  BY <1>4, <1>5, <1>6

LEMMA LeastFacts ==
  ASSUME NEW S \in SUBSET Nat, S # {}
  PROVE  Least(S) \in S /\ \A u \in S : Least(S) <= u
BY LeastNatural DEF Least

-----------------------------------------------------------------------------
(* Values and candidates.                                                    *)

\* The fields that are counted up, of which the search takes the first value.
Counted == {"minute", "hour", "day", "month", "year"}

LEMMA CountedFacts ==
  ASSUME NEW c \in Crontabs, NEW f \in Counted
  PROVE  /\ f \in Fields /\ f # "isoweekday"
         /\ Low[f] \in Nat /\ High[f] \in Int
         /\ Values[c][f] \subseteq Low[f]..High[f]
<1>1. f \in Fields /\ f # "isoweekday" /\ Low[f] \in Nat /\ High[f] \in Int
  BY CalendarFacts DEF Counted, Fields, Low, High
<1>2. Values[c][f] = Parse(c, f)
  BY <1>1 DEF Values
<1>3. Parse(c, f) \subseteq Low[f]..High[f]
  BY <1>1 DEF Parse, Possible
<1> QED
  BY <1>1, <1>2, <1>3

\* The value of a field that the search takes is the first that is not behind.
LEMMA FirstFacts ==
  ASSUME NEW c \in Crontabs, NEW f \in Counted, NEW v, Later(c, f, v) # {}
  PROVE  /\ First(c, f, v) \in Values[c][f] /\ First(c, f, v) >= v
         /\ First(c, f, v) \in Low[f]..High[f]
         /\ \A x \in Values[c][f] : x >= v => First(c, f, v) <= x
<1>1. Values[c][f] \subseteq Low[f]..High[f] /\ Low[f]..High[f] \subseteq Nat
  BY CountedFacts
<1>2. Later(c, f, v) \in SUBSET Nat /\ Later(c, f, v) \subseteq Values[c][f]
  BY <1>1 DEF Later
<1>3. First(c, f, v) \in Later(c, f, v) /\ \A x \in Later(c, f, v) : First(c, f, v) <= x
  BY <1>2, LeastFacts DEF First
<1> QED
  BY <1>1, <1>3 DEF Later

\* A field that has one of its values keeps it, and one that may still get to a
\* value does not go beyond it.
LEMMA FirstReaches ==
  ASSUME NEW c \in Crontabs, NEW f \in Counted, NEW v \in Int, NEW x \in Values[c][f], v <= x
  PROVE  Later(c, f, v) # {} /\ First(c, f, v) \in v..x /\ First(c, f, v) \in Values[c][f]
<1>1. x \in Int /\ x \in Later(c, f, v)
  BY CountedFacts DEF Later
<1>2. First(c, f, v) >= v /\ First(c, f, v) <= x /\ First(c, f, v) \in Values[c][f] /\ First(c, f, v) \in Int
  BY <1>1, FirstFacts, CountedFacts
<1> QED
  BY <1>1, <1>2

LEMMA MomentFacts ==
  /\ Moments \subseteq Times
  /\ \A t \in Moments : t.year \in FirstYear..LastYear /\ t.day \in 1..Length(t)
                        /\ Length(t) \in ShortestMonth..LongestMonth
  /\ \A t \in Times : t.year \in FirstYear..LastYear /\ t.day <= MonthDays[t.year][t.month] => t \in Moments
<1>1. ASSUME NEW t \in Moments PROVE t \in Times /\ t.year \in FirstYear..LastYear /\ t.day \in 1..Length(t)
  <2>1. PICK d \in Days, h \in 0..(HoursPerDay - 1), i \in 0..(MinutesPerHour - 1) :
           t = Moment(d.year, d.month, d.day, h, i)
    BY DEF Moments
  <2>2. /\ d.year \in FirstYear..LastYear /\ d.month \in 1..MonthsPerYear /\ d.day \in 1..LongestMonth
        /\ d.day <= MonthDays[d.year][d.month]
    BY DEF Days
  <2>3. /\ t.year = d.year /\ t.month = d.month /\ t.day = d.day /\ d.year \in Nat
        /\ MonthDays[d.year][d.month] \in Nat
    BY <2>1, <2>2, CalendarFacts DEF Moment
  <2>4. t \in Times
    BY <2>1, <2>2, <2>3 DEF Moment, Times
  <2> QED
    BY <2>2, <2>3, <2>4 DEF Length
<1>2. ASSUME NEW t \in Moments PROVE Length(t) \in ShortestMonth..LongestMonth
  BY <1>1, CalendarFacts DEF Length, Times
<1>3. ASSUME NEW t \in Times, t.year \in FirstYear..LastYear, t.day <= MonthDays[t.year][t.month]
      PROVE  t \in Moments
  <2> DEFINE d == [year |-> t.year, month |-> t.month, day |-> t.day]
  <2>1. d \in Days
    BY <1>3 DEF Days, Times
  <2>2. t = Moment(d.year, d.month, d.day, t.hour, t.minute)
    BY DEF Moment, Times
  <2>3. t.hour \in 0..(HoursPerDay - 1) /\ t.minute \in 0..(MinutesPerHour - 1)
    BY DEF Times
  <2> QED
    BY <2>1, <2>2, <2>3 DEF Moments
<1> QED
  BY <1>1, <1>2, <1>3

LEMMA MomentIsTime ==
  ASSUME NEW y \in Nat, NEW m \in 1..MonthsPerYear, NEW d \in 1..LongestMonth,
         NEW h \in 0..(HoursPerDay - 1), NEW i \in 0..(MinutesPerHour - 1)
  PROVE  Moment(y, m, d, h, i) \in Times
BY DEF Moment, Times

\* What the search finds from s for a notation c is due and not before s.
TakenFrom(c, s, t) ==
  /\ t \in Moments
  /\ Reaches(c, s, Counted \ {"day"})
  /\ t.year = First(c, "year", s.year) /\ t.month = First(c, "month", s.month)
  /\ t.hour = First(c, "hour", s.hour) /\ t.minute = First(c, "minute", s.minute)
  /\ t.day >= s.day

WeekdaysLeft(c, s, t) ==
  {d \in s.day..LongestMonth :
     /\ Exists(t.year, t.month, d)
     /\ Weekday(Moment(t.year, t.month, d, 0, 0)) \in Values[c]["isoweekday"]}

LEMMA ByDayFacts ==
  ASSUME NEW c \in Crontabs, NEW s \in Times, NEW t \in ByDay(c, s)
  PROVE  /\ TakenFrom(c, s, t) /\ t.day \in Values[c]["day"]
         /\ Later(c, "day", s.day) # {} /\ t.day = First(c, "day", s.day)
<1> DEFINE f(n) == First(c, n, s[n])
<1>1. /\ Reaches(c, s, Fields \ {"isoweekday"})
      /\ Exists(f("year"), f("month"), f("day"))
      /\ t = Moment(f("year"), f("month"), f("day"), f("hour"), f("minute"))
  BY Zenon DEF ByDay
<1>2. Fields \ {"isoweekday"} = Counted
  BY DEF Fields, Counted
<1>3. ASSUME NEW n \in Counted
      PROVE  Later(c, n, s[n]) # {} /\ f(n) \in Values[c][n] /\ f(n) \in Low[n]..High[n] /\ f(n) >= s[n]
  BY <1>1, <1>2, <1>3, FirstFacts DEF Reaches
<1>4. /\ f("year") \in FirstYear..LastYear /\ f("month") \in 1..MonthsPerYear /\ f("day") \in 1..LongestMonth
      /\ f("hour") \in 0..(HoursPerDay - 1) /\ f("minute") \in 0..(MinutesPerHour - 1)
  BY <1>3 DEF Counted, Low, High
<1>5. /\ s["year"] = s.year /\ s["month"] = s.month /\ s["day"] = s.day /\ s["hour"] = s.hour /\ s["minute"] = s.minute
  OBVIOUS
<1>6. f("day") \in Values[c]["day"] /\ f("day") >= s.day /\ Later(c, "day", s.day) # {}
  BY <1>3 DEF Counted
<1>7. Reaches(c, s, Counted \ {"day"})
  BY <1>1, <1>2 DEF Reaches
<1> HIDE DEF f
<1>8. /\ t.year = f("year") /\ t.month = f("month") /\ t.day = f("day") /\ t.hour = f("hour") /\ t.minute = f("minute")
  BY <1>1 DEF Moment
<1>9. t \in Moments
  <2>1. f("year") \in Nat
    BY <1>4, CalendarFacts
  <2>2. t \in Times
    BY <1>1, <1>4, <2>1, MomentIsTime
  <2> QED
    BY <1>1, <1>4, <1>8, <2>2, MomentFacts DEF Exists
<1> QED
  BY <1>6, <1>7, <1>8, <1>9 DEF TakenFrom, f

LEMMA ByWeekdayFacts ==
  ASSUME NEW c \in Crontabs, NEW s \in Times, NEW t \in ByWeekday(c, s)
  PROVE  /\ TakenFrom(c, s, t) /\ Weekday(t) \in Values[c]["isoweekday"]
         /\ Exists(s.year, t.month, s.day) /\ Exists(t.year, t.month, s.day)
         /\ t.day \in WeekdaysLeft(c, s, t) /\ \A d \in WeekdaysLeft(c, s, t) : t.day <= d
<1> DEFINE f(n) == First(c, n, s[n])
           days == {d \in s.day..LongestMonth :
                      /\ Exists(f("year"), f("month"), d)
                      /\ Weekday(Moment(f("year"), f("month"), d, 0, 0)) \in Values[c]["isoweekday"]}
<1>1. /\ Reaches(c, s, Fields \ {"day", "isoweekday"}) /\ days # {}
      /\ Exists(s.year, f("month"), s.day) /\ Exists(f("year"), f("month"), s.day)
      /\ t = Moment(f("year"), f("month"), Least(days), f("hour"), f("minute"))
  BY Zenon DEF ByWeekday
<1>2. Fields \ {"day", "isoweekday"} = Counted \ {"day"}
  BY DEF Fields, Counted
<1>3. ASSUME NEW n \in Counted \ {"day"}
      PROVE  f(n) \in Low[n]..High[n] /\ f(n) >= s[n]
  BY <1>1, <1>2, <1>3, FirstFacts DEF Reaches
<1>4. /\ f("year") \in FirstYear..LastYear /\ f("month") \in 1..MonthsPerYear
      /\ f("hour") \in 0..(HoursPerDay - 1) /\ f("minute") \in 0..(MinutesPerHour - 1)
  BY <1>3 DEF Counted, Low, High
<1>5. days \subseteq Nat /\ s.day \in 1..LongestMonth
  BY CalendarFacts DEF Times
<1> HIDE DEF f
<1>6. /\ Least(days) \in days /\ \A d \in days : Least(days) <= d
  BY <1>1, <1>5, LeastFacts
<1>7. /\ t.year = f("year") /\ t.month = f("month") /\ t.day = Least(days) /\ t.hour = f("hour") /\ t.minute = f("minute")
  BY <1>1 DEF Moment
<1>8. days = WeekdaysLeft(c, s, t)
  BY <1>7 DEF WeekdaysLeft
<1>9. t.day \in s.day..LongestMonth /\ Exists(t.year, t.month, t.day)
  BY <1>6, <1>7
<1>10. t \in Moments
  <2>1. f("year") \in Nat
    BY <1>4, CalendarFacts
  <2>2. t.day \in 1..LongestMonth
    BY <1>5, <1>9
  <2>3. t \in Times
    BY <1>1, <1>4, <1>7, <2>1, <2>2, MomentIsTime
  <2> QED
    BY <1>4, <1>7, <1>9, <2>3, MomentFacts DEF Exists
<1>11. Weekday(t) \in Values[c]["isoweekday"]
  BY <1>6, <1>7 DEF Weekday, Moment
<1>12. /\ t.day \in WeekdaysLeft(c, s, t) /\ \A d \in WeekdaysLeft(c, s, t) : t.day <= d
  BY <1>6, <1>7, <1>8
<1>13. Exists(s.year, t.month, s.day) /\ Exists(t.year, t.month, s.day)
  BY <1>1, <1>7
<1>14. t.day >= s.day
  BY <1>5, <1>9
<1>15. Reaches(c, s, Counted \ {"day"})
  BY <1>1, <1>2
<1> HIDE DEF days
<1> QED
  BY <1>7, <1>10, <1>11, <1>12, <1>13, <1>14, <1>15 DEF TakenFrom, f

LEMMA TakenIsLater ==
  ASSUME NEW c \in Crontabs, NEW s \in Times, NEW t, TakenFrom(c, s, t)
  PROVE  /\ DueInMonth(c, t) /\ Order(s) <= Order(t)
         /\ t.year >= s.year /\ t.month >= s.month
<1>1. t \in Times
  BY MomentFacts DEF TakenFrom
<1>2. ASSUME NEW n \in Counted \ {"day"}
      PROVE  First(c, n, s[n]) \in Values[c][n] /\ First(c, n, s[n]) >= s[n]
  BY <1>2, FirstFacts DEF TakenFrom, Reaches
<1>3. /\ t.year >= s.year /\ t.month >= s.month /\ t.hour >= s.hour /\ t.minute >= s.minute
      /\ t.year \in Values[c]["year"] /\ t.month \in Values[c]["month"]
      /\ t.hour \in Values[c]["hour"] /\ t.minute \in Values[c]["minute"]
  BY <1>2 DEF TakenFrom, Counted
<1>4. ~Before(t, s)
  BY <1>1, <1>3 DEF TakenFrom, Times, Before, DayBefore, SameDay
<1> QED
  BY <1>1, <1>3, <1>4, InOrderOfTime DEF DueInMonth

LEMMA CandidateFacts ==
  ASSUME NEW c \in Crontabs, NEW s \in Times, NEW t \in Candidates(c, s)
  PROVE  /\ TakenFrom(c, s, t) /\ t \in Moments
         /\ IsDue(c, t) /\ Order(s) <= Order(t)
<1>1. CASE /\ t \in ByDay(c, s) /\ ~(Uses(c, "isoweekday") /\ ~Uses(c, "day"))
           /\ Last(c, "day") => OnLastDay(t)
  <2>1. TakenFrom(c, s, t) /\ t.day \in Values[c]["day"]
    BY <1>1, ByDayFacts
  <2> QED
    BY <1>1, <2>1, TakenIsLater DEF IsDue, DueOnDay, TakenFrom
<1>2. CASE /\ t \in ByWeekday(c, s) /\ Uses(c, "isoweekday")
           /\ Last(c, "isoweekday") => OnLastWeekday(t)
  <2>1. TakenFrom(c, s, t) /\ Weekday(t) \in Values[c]["isoweekday"]
    BY <1>2, ByWeekdayFacts
  <2> QED
    BY <1>2, <2>1, TakenIsLater DEF IsDue, DueOnWeekday, TakenFrom
<1> QED
  BY <1>1, <1>2 DEF Candidates

LEMMA MidnightFacts ==
  /\ Midnights \subseteq Moments /\ Midnights \subseteq Times
  /\ \A t \in Times : t.year \in FirstYear..LastYear /\ t.day <= MonthDays[t.year][t.month]
                      /\ t.hour = 0 /\ t.minute = 0 => t \in Midnights
  /\ \A t \in Midnights : t.hour = 0 /\ t.minute = 0
<1>1. ASSUME NEW t \in Midnights PROVE t \in Moments /\ t.hour = 0 /\ t.minute = 0
  <2>1. PICK d \in Days : t = Moment(d.year, d.month, d.day, 0, 0)
    BY DEF Midnights, Midnight
  <2>2. 0 \in 0..(HoursPerDay - 1) /\ 0 \in 0..(MinutesPerHour - 1)
    BY CalendarFacts
  <2> QED
    BY <2>1, <2>2 DEF Moments, Moment
<1>2. ASSUME NEW t \in Times, t.year \in FirstYear..LastYear, t.day <= MonthDays[t.year][t.month],
             t.hour = 0, t.minute = 0
      PROVE  t \in Midnights
  <2> DEFINE d == [year |-> t.year, month |-> t.month, day |-> t.day]
  <2>1. d \in Days
    BY <1>2 DEF Days, Times
  <2>2. t = Midnight(d)
    BY <1>2 DEF Midnight, Moment, Times
  <2> QED
    BY <2>1, <2>2 DEF Midnights
<1> QED
  BY <1>1, <1>2, MomentFacts

LEMMA CandidatesAreTimes ==
  ASSUME NEW c \in Crontabs, NEW s \in Times
  PROVE  Candidates(c, s) \in SUBSET Times
BY CandidateFacts, MomentFacts

LEMMA RoundsOfMidnights ==
  ASSUME NEW c \in Crontabs, NEW t \in Midnights
  PROVE  OfMidnights[c][t] = Candidates(c, t)
BY DEF OfMidnights

\* What one search finds is due and not before its start.
LEMMA CalculateFacts ==
  ASSUME NEW c \in Crontabs, NEW s \in Times, NEW t \in Calculate(c, s)
  PROVE  t \in Moments /\ IsDue(c, t) /\ Order(s) <= Order(t)
<1> DEFINE later == {u \in Midnights : Order(u) > Order(s) /\ OfMidnights[c][u] # {}}
           own == Candidates(c, s)
<1>1. CASE own # {}
  <2>1. t \in own
    BY <1>1 DEF Calculate, Earliest
  <2> QED
    BY <2>1, CandidateFacts
<1>2. CASE own = {}
  <2>1. PICK e \in Earliest(later) : t \in Earliest(OfMidnights[c][e])
    BY <1>2 DEF Calculate
  <2>2. e \in later /\ t \in OfMidnights[c][e]
    BY <2>1 DEF Earliest
  <2>3. e \in Midnights /\ e \in Times /\ Order(e) > Order(s) /\ OfMidnights[c][e] = Candidates(c, e)
    BY <2>2, RoundsOfMidnights, MidnightFacts
  <2> HIDE DEF later
  <2>4. t \in Candidates(c, e)
    BY <2>2, <2>3
  <2>5. t \in Moments /\ IsDue(c, t) /\ Order(e) <= Order(t)
    BY <2>3, <2>4, CandidateFacts
  <2>6. t \in Times
    BY <2>5, MomentFacts
  <2> QED
    BY <2>3, <2>5, <2>6, OrderIsNatural
<1> QED
  BY <1>1, <1>2

\* Every search but the first starts later than it is asked.
LEMMA StartFacts ==
  ASSUME NEW t \in Moments, NEW second0 \in BOOLEAN, NEW s \in Starts(t, second0)
  PROVE  s \in Times /\ ((s = t /\ second0) \/ Order(t) < Order(s))
<1>1. /\ t \in Times /\ t.day <= Length(t) /\ Length(t) \in Nat /\ Length(t) <= LongestMonth
      /\ t.year \in Nat /\ t.month \in 1..MonthsPerYear /\ t.day \in 1..LongestMonth
      /\ t.hour \in 0..(HoursPerDay - 1) /\ t.minute \in 0..(MinutesPerHour - 1)
  <2>1. t \in Times /\ t.day \in 1..Length(t) /\ Length(t) \in ShortestMonth..LongestMonth
    BY MomentFacts
  <2> QED
    BY <2>1, CalendarFacts DEF Times
<1>2. 0 \in 0..(HoursPerDay - 1) /\ 0 \in 0..(MinutesPerHour - 1) /\ 1 \in 1..MonthsPerYear /\ 1 \in 1..LongestMonth
  BY CalendarFacts
<1>3. ASSUME s \in Times, Before(t, s) PROVE Order(t) < Order(s)
  BY <1>1, <1>3, InOrderOfTime
<1>4. CASE s \in MinuteStart(t)
  <2>1. /\ t.minute + 1 \in 0..(MinutesPerHour - 1)
        /\ s = Moment(t.year, t.month, t.day, t.hour, t.minute + 1)
    BY <1>1, <1>4 DEF MinuteStart
  <2>2. s \in Times
    BY <1>1, <2>1, MomentIsTime
  <2>3. Before(t, s)
    BY <1>1, <2>1 DEF Before, SameDay, Moment
  <2> QED
    BY <1>3, <2>2, <2>3
<1>5. CASE s \in HourStart(t)
  <2>1. /\ t.hour + 1 \in 0..(HoursPerDay - 1)
        /\ s = Moment(t.year, t.month, t.day, t.hour + 1, 0)
    BY <1>1, <1>5 DEF HourStart
  <2>2. s \in Times
    BY <1>1, <1>2, <2>1, MomentIsTime
  <2>3. Before(t, s)
    BY <1>1, <2>1 DEF Before, SameDay, Moment
  <2> QED
    BY <1>3, <2>2, <2>3
<1>6. CASE s \in DayStart(t)
  <2>1. t.day < Length(t) - 1 /\ s = Moment(t.year, t.month, t.day + 1, 0, 0)
    BY <1>6 DEF DayStart
  <2>2. t.day + 1 \in 1..LongestMonth
    BY <1>1, <2>1, CalendarFacts
  <2>3. s \in Times
    BY <1>1, <1>2, <2>1, <2>2, MomentIsTime
  <2>4. Before(t, s)
    BY <1>1, <2>1 DEF Before, DayBefore, Moment
  <2> QED
    BY <1>3, <2>3, <2>4
<1>7. CASE s \in MonthStart(t)
  <2>1. t.month < MonthsPerYear - 1 /\ s = Moment(t.year, t.month + 1, 1, 0, 0)
    BY <1>7 DEF MonthStart
  <2>2. t.month + 1 \in 1..MonthsPerYear
    BY <1>1, <2>1, CalendarFacts
  <2>3. s \in Times
    BY <1>1, <1>2, <2>1, <2>2, MomentIsTime
  <2>4. Before(t, s)
    BY <1>1, <2>1 DEF Before, DayBefore, Moment
  <2> QED
    BY <1>3, <2>3, <2>4
<1>8. CASE s \in YearStart(t)
  <2>1. s = Moment(t.year + 1, 1, 1, 0, 0) /\ t.year + 1 \in Nat
    BY <1>1, <1>8 DEF YearStart
  <2>2. s \in Times
    BY <1>2, <2>1, MomentIsTime
  <2>3. Before(t, s)
    BY <1>1, <2>1 DEF Before, DayBefore, Moment
  <2> QED
    BY <1>3, <2>2, <2>3
<1> QED
  BY <1>1, <1>4, <1>5, <1>6, <1>7, <1>8 DEF Starts

\* All the searches together: get_next_datetime returns the first of what they find.
LEMMA NextFacts ==
  ASSUME NEW c \in Crontabs, NEW t \in Moments, NEW second0 \in BOOLEAN,
         NEW u \in GetNextDatetime(c, t, second0)
  PROVE  /\ u \in Moments /\ IsDue(c, u)
         /\ IF second0 THEN Order(u) >= Order(t) ELSE Order(u) > Order(t)
         /\ GetNextDatetime(c, t, second0) = {u}
         /\ \A s \in Starts(t, second0) : \A v \in Calculate(c, s) : Order(u) <= Order(v)
<1> DEFINE dates == UNION {Calculate(c, s) : s \in Starts(t, second0)}
<1>1. u \in Earliest(dates) /\ GetNextDatetime(c, t, second0) = Earliest(dates)
  BY DEF GetNextDatetime
<1>2. ASSUME NEW s \in Starts(t, second0), NEW v \in Calculate(c, s)
      PROVE  /\ v \in Moments /\ v \in Times /\ IsDue(c, v)
             /\ IF second0 THEN Order(v) >= Order(t) ELSE Order(v) > Order(t)
  <2>1. s \in Times /\ ((s = t /\ second0) \/ Order(t) < Order(s))
    BY StartFacts
  <2>2. v \in Moments /\ IsDue(c, v) /\ Order(s) <= Order(v)
    BY <2>1, CalculateFacts
  <2>3. v \in Times /\ t \in Times
    BY <2>2, MomentFacts
  <2>4. Order(v) \in Nat /\ Order(s) \in Nat /\ Order(t) \in Nat
    BY <2>1, <2>3, OrderIsNatural
  <2> QED
    BY <2>1, <2>2, <2>3, <2>4
<1>3. dates \in SUBSET Times
  BY <1>2
<1>4. u \in dates /\ \A v \in dates : Order(u) <= Order(v)
  BY <1>1 DEF Earliest
<1> HIDE DEF dates
<1>5. Earliest(dates) = {u}
  BY <1>1, <1>3, <1>4, EarliestFacts
<1> USE DEF dates
<1> QED
  BY <1>1, <1>2, <1>4, <1>5

\* The call that a loop waits for is what the search found at the time it was asked.
CronInv ==
  /\ crontab \in Crontabs /\ clock \in Moments /\ whole \in BOOLEAN
  /\ call = GetNextDatetime(crontab, clock, whole)

LEMMA CronInvariance == CronSpec => []CronInv
<1>1. CronInit => CronInv
  BY DEF CronInit, CronInv
<1>2. CronInv /\ [CronNext]_cronVars => CronInv'
  <2> SUFFICES ASSUME CronInv, CronInvoke PROVE CronInv'
    BY DEF CronNext, cronVars, CronInv
  <2>1. PICK u \in call : clock' = u /\ call' = GetNextDatetime(crontab, u, FALSE)
    BY DEF CronInvoke
  <2>2. u \in Moments
    BY NextFacts DEF CronInv
  <2> QED
    BY <2>1, <2>2 DEF CronInvoke, CronInv
<1> QED
  BY <1>1, <1>2, PTL DEF CronSpec

\* Whatever the notation and the calendar, the next call of a function is a
\* moment that its notation asks for, and not past (get_next_datetime and
\* calculate_date, helpers/crontab.py 43-336).
THEOREM CalledWhenDue == CronSpec => []InvokedWhenDue
<1>1. CronInv => InvokedWhenDue
  BY NextFacts DEF CronInv, InvokedWhenDue
<1> QED
  BY <1>1, CronInvariance, PTL

-----------------------------------------------------------------------------
(* Weekdays repeat.                                                          *)

LEMMA Remainder ==
  ASSUME NEW a \in Nat, NEW b \in Nat \ {0}
  PROVE  (a + b) % b = a % b
<1> DEFINE q == a \div b
           p == (a + b) \div b
           r == a % b
           x == (a + b) % b
<1>1. /\ q \in Int /\ p \in Int /\ r \in 0..(b - 1) /\ x \in 0..(b - 1)
      /\ a = q * b + r /\ a + b = p * b + x
  <2>1. q \in Int /\ r \in 0..(b - 1) /\ a = q * b + r
    BY Division
  <2>2. a + b \in Int
    OBVIOUS
  <2>3. p \in Int /\ x \in 0..(b - 1) /\ a + b = p * b + x
    BY <2>2, Division
  <2> QED
    BY <2>1, <2>3
<1> HIDE DEF p, q, r, x
<1>2. (p - q - 1) * b = r - x /\ (q + 1 - p) * b = x - r /\ p - q - 1 \in Int /\ q + 1 - p \in Int
  BY <1>1
<1>3. r - x >= 0
  BY <1>1, <1>2, NonNegativeProduct
<1>4. x - r >= 0
  BY <1>1, <1>2, NonNegativeProduct
<1> QED
  BY <1>1, <1>3, <1>4 DEF r, x

DaysBefore(d) == {e \in Days : DayOrder(e) < DayOrder(d)}

LEMMA DayFacts ==
  ASSUME NEW a \in Days, NEW b \in Days
  PROVE  /\ a.year \in Nat /\ a.month \in 1..MonthsPerYear /\ a.day \in 1..LongestMonth
         /\ DayOrder(a) \in Nat
         /\ DayOrder(a) < DayOrder(b) <=> DayBefore(a, b)
         /\ DayOrder(a) = DayOrder(b) => a = b
<1>1. /\ a.year \in Nat /\ a.month \in 1..MonthsPerYear /\ a.day \in 1..LongestMonth
      /\ b.year \in Nat /\ b.month \in 1..MonthsPerYear /\ b.day \in 1..LongestMonth
  BY CalendarFacts DEF Days
<1>2. DayOrder(a) \in Nat /\ DayOrder(b) \in Nat
  BY <1>1, DayOrderIsNatural
<1>3. DayBefore(a, b) => DayOrder(a) < DayOrder(b)
  BY <1>1, DaysInOrder
<1>4. DayBefore(b, a) => DayOrder(b) < DayOrder(a)
  BY <1>1, DaysInOrder
<1>5. DayBefore(a, b) \/ DayBefore(b, a) \/ a = b
  BY <1>1 DEF DayBefore, Days
<1>6. ~DayBefore(a, a)
  BY <1>1 DEF DayBefore
<1> QED
  BY <1>1, <1>2, <1>3, <1>4, <1>5, <1>6

LEMMA DaysAreFinite == IsFiniteSet(Days)
<1> DEFINE last == [year |-> LastYear, month |-> MonthsPerYear, day |-> LongestMonth]
           T == 0..DayOrder(last)
           f == [d \in Days |-> DayOrder(d)]
<1>1. /\ last.year \in Nat /\ last.month \in 1..MonthsPerYear /\ last.day \in 1..LongestMonth
  BY CalendarFacts
<1>2. DayOrder(last) \in Nat
  BY <1>1, DayOrderIsNatural
<1>3. ASSUME NEW d \in Days PROVE DayOrder(d) \in T
  <2>1. /\ d.year \in Nat /\ d.month \in 1..MonthsPerYear /\ d.day \in 1..LongestMonth /\ d.year <= LastYear
    BY CalendarFacts DEF Days
  <2>2. DayBefore(d, last) \/ SameDay(d, last)
    BY <2>1, CalendarFacts DEF DayBefore, SameDay
  <2>3. DayOrder(d) <= DayOrder(last)
    BY <1>1, <1>2, <2>1, <2>2, DaysInOrder, DayOrderIsNatural
  <2> QED
    BY <1>2, <2>1, <2>3, DayOrderIsNatural
<1> HIDE DEF T
<1>4. f \in Injection(Days, T)
  BY <1>3, DayFacts DEF Injection, IsInjective
<1>5. IsFiniteSet(T)
  BY <1>2, FS_Interval DEF T
<1> QED
  BY <1>4, <1>5, FS_Injection

\* A week after a day of the same month is the same weekday.
LEMMA WeeksRepeat ==
  ASSUME NEW y \in FirstYear..LastYear, NEW m \in 1..MonthsPerYear, NEW d \in Nat \ {0},
         d + DaysPerWeek <= MonthDays[y][m]
  PROVE  Weekday(Moment(y, m, d + DaysPerWeek, 0, 0)) = Weekday(Moment(y, m, d, 0, 0))
<1> DEFINE W == DaysPerWeek
           at(j) == [year |-> y, month |-> m, day |-> j]
           week == {at(j) : j \in d..(d + W - 1)}
<1>1. W \in Nat \ {0} /\ MonthDays[y][m] \in Nat /\ MonthDays[y][m] <= LongestMonth /\ LongestMonth \in Nat /\ y \in Nat
  BY CalendarFacts
<1>2. \A j \in d..(d + W) : at(j) \in Days
  BY <1>1 DEF Days
<1>3. at(d) \in Days /\ at(d + W) \in Days /\ week \subseteq Days
  BY <1>1, <1>2
<1>4. DaysBefore(at(d + W)) = DaysBefore(at(d)) \cup week
  <2>1. ASSUME NEW e \in Days
        PROVE  e \in DaysBefore(at(d + W)) <=> e \in DaysBefore(at(d)) \/ e \in week
    <3>1. /\ e \in DaysBefore(at(d + W)) <=> DayBefore(e, at(d + W))
          /\ e \in DaysBefore(at(d)) <=> DayBefore(e, at(d))
      BY <1>3, DayFacts DEF DaysBefore
    <3>2. e \in week <=> e.year = y /\ e.month = m /\ e.day \in d..(d + W - 1)
      BY DEF Days
    <3>3. e.day \in Nat
      BY <2>1, DayFacts, CalendarFacts
    <3> QED
      BY <1>1, <3>1, <3>2, <3>3 DEF DayBefore
  <2> QED
    BY <1>3, <2>1 DEF DaysBefore
<1>5. DaysBefore(at(d)) \cap week = {}
  BY <1>1, <1>3, DayFacts DEF DaysBefore, DayBefore
<1>6. IsFiniteSet(DaysBefore(at(d))) /\ IsFiniteSet(week)
  BY <1>3, DaysAreFinite, FS_Subset DEF DaysBefore
<1>7. Cardinality(week) = W
  <2> DEFINE f == [j \in d..(d + W - 1) |-> at(j)]
  <2>1. f \in Bijection(d..(d + W - 1), week)
    BY DEF Bijection, Injection, Surjection, IsInjective
  <2>2. ExistsBijection(d..(d + W - 1), week)
    BY <2>1 DEF ExistsBijection
  <2>3. IsFiniteSet(d..(d + W - 1)) /\ Cardinality(d..(d + W - 1)) = W
    <3>1. d \in Int /\ d + W - 1 \in Int
      BY <1>1
    <3>2. IsFiniteSet(d..(d + W - 1))
          /\ Cardinality(d..(d + W - 1)) = IF d > d + W - 1 THEN 0 ELSE (d + W - 1) - d + 1
      BY <3>1, FS_Interval, Zenon
    <3> QED
      BY <1>1, <3>2
  <2> QED
    BY <2>2, <2>3, FS_Bijection
<1>8. /\ Cardinality(DaysBefore(at(d + W))) = Cardinality(DaysBefore(at(d))) + W
      /\ Cardinality(DaysBefore(at(d))) \in Nat
  <2>1. Cardinality(DaysBefore(at(d)) \cap week) = 0
    BY <1>5, FS_EmptySet
  <2>2. Cardinality(DaysBefore(at(d))) \in Nat
    BY <1>6, FS_CardinalityType
  <2> QED
    BY <1>1, <1>4, <1>6, <1>7, <2>1, <2>2, FS_Union
<1>9. /\ Weekday(Moment(y, m, d, 0, 0)) = (FirstWeekday + Cardinality(DaysBefore(at(d)))) % W
      /\ Weekday(Moment(y, m, d + W, 0, 0)) = (FirstWeekday + Cardinality(DaysBefore(at(d + W)))) % W
  BY <1>3, Zenon DEF Weekday, Weekdays, Moment, DaysBefore
<1> DEFINE n == FirstWeekday + Cardinality(DaysBefore(at(d)))
<1>10. n \in Nat /\ FirstWeekday + Cardinality(DaysBefore(at(d + W))) = n + W
  BY <1>1, <1>8, CalendarFacts
<1>11. (n + W) % W = n % W
  BY <1>1, <1>10, Remainder
<1> QED
  BY <1>9, <1>10, <1>11

-----------------------------------------------------------------------------
(* What a search does not miss.                                              *)

DueByDay(c, t) == DueOnDay(c, t) /\ (Uses(c, "isoweekday") => Uses(c, "day"))
DueByWeekday(c, t) == DueOnWeekday(c, t) /\ Uses(c, "isoweekday")

\* A round that starts from v takes the year and the month of t, and an hour and a
\* minute that are not behind those of t.
Aims(c, v, t) ==
  /\ v.year <= t.year /\ First(c, "year", v.year) = t.year
  /\ v.month <= t.month /\ First(c, "month", v.month) = t.month
  /\ v.hour <= t.hour /\ v.minute <= t.minute

LEMMA AimsFacts ==
  ASSUME NEW c \in Crontabs, NEW v \in Times, NEW t \in Moments, DueInMonth(c, t), Aims(c, v, t),
         NEW h, NEW i, h = First(c, "hour", v.hour), i = First(c, "minute", v.minute)
  PROVE  /\ Reaches(c, v, Counted \ {"day"})
         /\ h \in 0..t.hour /\ i \in 0..t.minute
         /\ \A d \in 1..LongestMonth :
               Exists(t.year, t.month, d) => Moment(t.year, t.month, d, h, i) \in Moments
<1>1. t \in Times /\ v \in Times
  BY MomentFacts
<1>2. /\ Later(c, "year", v.year) # {} /\ Later(c, "month", v.month) # {}
      /\ Later(c, "hour", v.hour) # {} /\ Later(c, "minute", v.minute) # {}
      /\ h \in v.hour..t.hour /\ i \in v.minute..t.minute
  BY <1>1, FirstReaches DEF DueInMonth, Aims, Times, Counted
<1>3. Reaches(c, v, Counted \ {"day"})
  BY <1>2 DEF Reaches, Counted
<1>4. h \in 0..t.hour /\ i \in 0..t.minute
  BY <1>1, <1>2 DEF Times
<1>5. ASSUME NEW d \in 1..LongestMonth, Exists(t.year, t.month, d)
      PROVE  Moment(t.year, t.month, d, h, i) \in Moments
  <2>1. /\ t.year \in FirstYear..LastYear /\ t.year \in Nat /\ t.month \in 1..MonthsPerYear
        /\ h \in 0..(HoursPerDay - 1) /\ i \in 0..(MinutesPerHour - 1)
    BY <1>1, <1>4, MomentFacts, CalendarFacts DEF Times
  <2>2. Moment(t.year, t.month, d, h, i) \in Times
    BY <2>1, MomentIsTime
  <2> QED
    BY <1>5, <2>1, <2>2, MomentFacts DEF Moment, Exists
<1> QED
  BY <1>3, <1>4, <1>5

\* A moment of the same month that has no field behind those of t.
LEMMA NotAfter ==
  ASSUME NEW t \in Moments, NEW u \in Moments, u.year = t.year, u.month = t.month, u.day <= t.day,
         u.hour <= t.hour, u.minute <= t.minute
  PROVE  Order(u) <= Order(t)
<1>1. t \in Times /\ u \in Times
  BY MomentFacts
<1>2. ~Before(t, u)
  BY <1>1 DEF Before, DayBefore, SameDay, Times
<1> QED
  BY <1>1, <1>2, InOrderOfTime

\* The day of the month that the round takes is not behind t.
LEMMA DayCandidate ==
  ASSUME NEW c \in Crontabs, NEW v \in Moments, NEW t \in Moments, DueInMonth(c, t), DueByDay(c, t),
         Aims(c, v, t), v.day <= t.day, NEW D, D = First(c, "day", v.day),
         Exists(v.year, v.month, D), Exists(v.year, t.month, D), Last(c, "day") => D = t.day
  PROVE  \E u \in Candidates(c, v) : Order(u) <= Order(t)
<1> DEFINE h == First(c, "hour", v.hour)
           i == First(c, "minute", v.minute)
           u == Moment(t.year, t.month, D, h, i)
<1>1. /\ t \in Times /\ v \in Times
  BY MomentFacts
<1>2. D \in 1..t.day /\ D \in 1..LongestMonth /\ Later(c, "day", v.day) # {}
  <2>1. D \in v.day..t.day /\ Later(c, "day", v.day) # {}
    BY <1>1, FirstReaches DEF Counted, Times, DueByDay, DueOnDay
  <2> QED
    BY <1>1, <2>1, CalendarFacts DEF Times
<1>3. Exists(t.year, t.month, D)
  <2>1. t.day \in 1..Length(t) /\ Length(t) \in Nat
    BY MomentFacts, CalendarFacts
  <2> QED
    BY <1>2, <2>1, <1>1 DEF Exists, Length, Times
<1>4. u \in Moments /\ Reaches(c, v, Counted \ {"day"}) /\ h \in 0..t.hour /\ i \in 0..t.minute
  BY <1>1, <1>2, <1>3, AimsFacts
<1>5. Order(u) <= Order(t)
  <2>1. u.year = t.year /\ u.month = t.month /\ u.day = D /\ u.hour = h /\ u.minute = i
    BY DEF Moment
  <2>2. u.day <= t.day /\ u.hour <= t.hour /\ u.minute <= t.minute
    BY <1>1, <1>2, <1>4, <2>1 DEF Times
  <2> HIDE DEF u, h, i
  <2> QED
    BY <1>4, <2>1, <2>2, NotAfter
<1>6. u \in ByDay(c, v)
  <2>1. Fields \ {"isoweekday"} = (Counted \ {"day"}) \cup {"day"}
    BY DEF Fields, Counted
  <2>2. Reaches(c, v, Fields \ {"isoweekday"})
    BY <1>2, <1>4, <2>1 DEF Reaches
  <2> HIDE DEF h, i
  <2> QED
    BY <1>3, <2>2, Zenon DEF ByDay, Aims, h, i
<1>7. Last(c, "day") => OnLastDay(u)
  BY DEF DueByDay, DueOnDay, OnLastDay, Length, Moment
<1> HIDE DEF u
<1>8. u \in Candidates(c, v)
  BY <1>6, <1>7 DEF Candidates, DueByDay
<1> QED
  BY <1>5, <1>8

\* So is the weekday that it moves on to, if x is such a day and the last weekday is not
\* asked for or ahead of v.
LEMMA WeekdayCandidate ==
  ASSUME NEW c \in Crontabs, NEW v \in Moments, NEW t \in Moments, DueInMonth(c, t), Uses(c, "isoweekday"),
         Aims(c, v, t), NEW x \in Nat, v.day <= x, Exists(t.year, t.month, x),
         Weekday(Moment(t.year, t.month, x, 0, 0)) \in Values[c]["isoweekday"],
         Exists(v.year, t.month, v.day),
         Last(c, "isoweekday") => v.day + DaysPerWeek > Length(t)
  PROVE  \E u \in Candidates(c, v) : x <= t.day => Order(u) <= Order(t)
<1> DEFINE h == First(c, "hour", v.hour)
           i == First(c, "minute", v.minute)
           days == {d \in v.day..LongestMonth :
                      /\ Exists(t.year, t.month, d)
                      /\ Weekday(Moment(t.year, t.month, d, 0, 0)) \in Values[c]["isoweekday"]}
           u == Moment(t.year, t.month, Least(days), h, i)
<1>1. /\ t \in Times /\ v \in Times /\ Length(t) \in Nat /\ Length(t) <= LongestMonth
      /\ v.day \in 1..LongestMonth /\ LongestMonth \in Nat /\ Length(t) = MonthDays[t.year][t.month]
  <2>1. Length(t) \in ShortestMonth..LongestMonth
    BY MomentFacts
  <2> QED
    BY <2>1, MomentFacts, CalendarFacts DEF Times, Length
<1>2. x \in days
  BY <1>1 DEF Exists
<1>3. Least(days) \in days /\ Least(days) <= x
  <2>1. days \in SUBSET Nat /\ days # {}
    BY <1>1, <1>2
  <2> HIDE DEF days
  <2> QED
    BY <1>2, <2>1, LeastFacts
<1>4. /\ Least(days) \in 1..LongestMonth /\ Least(days) >= v.day /\ Exists(t.year, t.month, Least(days))
      /\ days # {}
  BY <1>1, <1>3
<1> HIDE DEF days
<1>5. u \in Moments /\ Reaches(c, v, Counted \ {"day"}) /\ h \in 0..t.hour /\ i \in 0..t.minute
  BY <1>1, <1>4, AimsFacts
<1>6. /\ u.year = t.year /\ u.month = t.month /\ u.day = Least(days) /\ u.hour = h /\ u.minute = i
  BY DEF Moment
<1>7. x <= t.day => Order(u) <= Order(t)
  <2>1. x <= t.day => u.day <= t.day
    BY <1>1, <1>3, <1>4, <1>6 DEF Times
  <2>2. u.hour <= t.hour /\ u.minute <= t.minute
    BY <1>1, <1>5, <1>6 DEF Times
  <2> HIDE DEF u, h, i
  <2> QED
    BY <1>5, <1>6, <2>1, <2>2, NotAfter
<1>8. u \in ByWeekday(c, v)
  <2>1. Reaches(c, v, Fields \ {"day", "isoweekday"})
    <3>1. Fields \ {"day", "isoweekday"} = Counted \ {"day"}
      BY DEF Fields, Counted
    <3> QED
      BY <1>5, <3>1
  <2>2. Exists(t.year, t.month, v.day)
    BY <1>1, <1>4 DEF Exists
  <2>3. First(c, "year", v["year"]) = t.year /\ First(c, "month", v["month"]) = t.month
    BY DEF Aims
  <2> QED
    BY <1>4, <2>1, <2>2, <2>3, Zenon DEF ByWeekday, days
<1>9. Last(c, "isoweekday") => OnLastWeekday(u)
  <2>1. Length(u) = Length(t)
    BY <1>6 DEF Length
  <2> HIDE DEF u
  <2> QED
    BY <1>1, <1>4, <1>6, <2>1, CalendarFacts DEF OnLastWeekday
<1> HIDE DEF u
<1>10. u \in Candidates(c, v)
  BY <1>8, <1>9 DEF Candidates
<1> QED
  BY <1>7, <1>10

\* A round from the very day of t does not miss it.
LEMMA SameDayRound ==
  ASSUME NEW c \in Crontabs, NEW v \in Moments, NEW t \in Moments, IsDue(c, t), Aims(c, v, t),
         v.day = t.day, Exists(v.year, t.month, t.day)
  PROVE  \E u \in Candidates(c, v) : Order(u) <= Order(t)
<1>1. t \in Times /\ v \in Times /\ Exists(t.year, t.month, t.day) /\ Exists(v.year, v.month, v.day) /\ t.day \in Nat
  <2>1. t.day \in 1..Length(t) /\ v.day \in 1..Length(v)
    BY MomentFacts
  <2> QED
    BY <2>1, MomentFacts, CalendarFacts DEF Exists, Length, Times
<1>2. DueInMonth(c, t) /\ (DueByDay(c, t) \/ DueByWeekday(c, t))
  BY DEF IsDue, DueByDay, DueByWeekday
<1>3. CASE DueByDay(c, t)
  <2>1. First(c, "day", v.day) = t.day
    <3>1. t.day \in Values[c]["day"] /\ "day" \in Counted /\ v.day \in Int /\ v.day <= t.day
      BY <1>1, <1>3 DEF Counted, DueByDay, DueOnDay
    <3>2. First(c, "day", v.day) \in t.day..t.day
      BY <3>1, FirstReaches
    <3> QED
      BY <1>1, <3>2
  <2> QED
    BY <1>1, <1>2, <1>3, <2>1, DayCandidate
<1>4. CASE DueByWeekday(c, t)
  <2>1. Weekday(Moment(t.year, t.month, t.day, 0, 0)) \in Values[c]["isoweekday"]
    BY <1>4 DEF DueByWeekday, DueOnWeekday, Weekday, Moment
  <2>2. Last(c, "isoweekday") => v.day + DaysPerWeek > Length(t)
    BY <1>4 DEF DueByWeekday, DueOnWeekday, OnLastWeekday
  <2> QED
    BY <1>1, <1>2, <1>4, <2>1, <2>2, WeekdayCandidate DEF DueByWeekday
<1> QED
  BY <1>2, <1>3, <1>4

LEMMA MidnightOf ==
  ASSUME NEW y \in FirstYear..LastYear, NEW m \in 1..MonthsPerYear, NEW d \in Nat \ {0}, Exists(y, m, d)
  PROVE  Moment(y, m, d, 0, 0) \in Midnights
<1>1. y \in Nat /\ d \in 1..LongestMonth /\ 0 \in 0..(HoursPerDay - 1) /\ 0 \in 0..(MinutesPerHour - 1)
  BY CalendarFacts DEF Exists
<1>2. Moment(y, m, d, 0, 0) \in Times
  BY <1>1, MomentIsTime
<1> QED
  BY <1>2, MidnightFacts DEF Moment, Exists

\* Where a search starts from that is to find t: a year, a month or a day of
\* which t is not behind the beginning.
StartsAhead(s, t) ==
  \/ s.month = 1 /\ s.day = 1 /\ s.year <= t.year
  \/ s.day = 1 /\ s.year = t.year /\ s.month <= t.month
  \/ s.year = t.year /\ s.month = t.month /\ s.day <= t.day

\* No year before that of t, from that of s on, lacks its day and is passed
\* over by the notation.
NoLeapDay(c, s, t) ==
  \A y \in s.year..(t.year - 1) :
     Exists(y, t.month, t.day) \/ Values[c]["year"] \cap y..(t.year - 1) # {}

\* The first round of the search from s that finds anything.
FirstRound(c, s, e) ==
  /\ Order(s) <= Order(e) /\ Candidates(c, e) # {}
  /\ \A v \in Midnights : Order(s) <= Order(v) /\ Order(v) < Order(e) => Candidates(c, v) = {}

\* The fields of dates that are in the order of time.
LEMMA DatesInOrder ==
  ASSUME NEW a \in Midnights, NEW b \in Midnights
  PROVE  /\ a.year \in FirstYear..LastYear /\ a.year \in Nat /\ a.month \in 1..MonthsPerYear
         /\ a.month \in Nat /\ a.day \in Nat \ {0} /\ Exists(a.year, a.month, a.day)
         /\ a.hour = 0 /\ a.minute = 0
         /\ Order(a) <= Order(b) <=> ~DayBefore(b, a)
         /\ Order(a) < Order(b) <=> DayBefore(a, b)
<1>1. a \in Times /\ b \in Times /\ a.hour = 0 /\ a.minute = 0 /\ b.hour = 0 /\ b.minute = 0
  BY MidnightFacts
<1>2. a.year \in FirstYear..LastYear /\ a.day \in 1..Length(a)
  BY MidnightFacts, MomentFacts
<1>3. Order(a) <= Order(b) <=> ~DayBefore(b, a)
  BY <1>1, InOrderOfTime DEF Before, SameDay
<1>4. Order(a) < Order(b) <=> DayBefore(a, b)
  BY <1>1, InOrderOfTime DEF Before, SameDay
<1>5. Exists(a.year, a.month, a.day)
  BY <1>2 DEF Exists, Length
<1> QED
  BY <1>1, <1>2, <1>3, <1>4, <1>5, CalendarFacts DEF Times

\* A round of an earlier day of the same year that finds something contradicts FirstRound.
LEMMA NoEarlierRound ==
  ASSUME NEW c \in Crontabs, NEW s \in Midnights, NEW e \in Midnights, NEW v \in Midnights,
         FirstRound(c, s, e), v.year = e.year, Candidates(c, v) # {},
         v.month < e.month \/ (v.month = e.month /\ v.day < e.day),
         s.day = 1 /\ (s.month = 1 \/ v.month = e.month)
  PROVE  FALSE
<1>1. ~DayBefore(e, s)
  BY DatesInOrder DEF FirstRound
<1>2. DayBefore(v, e) /\ ~DayBefore(v, s)
  BY <1>1, DatesInOrder DEF DayBefore
<1> QED
  BY <1>2, DatesInOrder DEF FirstRound

\* What a round finds in the month of t, when it looks for t by its day.
LEMMA RoundByDay ==
  ASSUME NEW c \in Crontabs, NEW s \in Midnights, NEW e \in Midnights, NEW t \in Moments,
         NEW w \in Candidates(c, e),
         StartsAhead(s, t), FirstRound(c, s, e), Order(e) <= Order(Midnight(t)),
         ~(Uses(c, "day") /\ Last(c, "isoweekday")),
         DueInMonth(c, t), DueByDay(c, t), Aims(c, e, t), Exists(e.year, t.month, t.day),
         e.day <= t.day, w.year = t.year, w.month = t.month, t.day < w.day
  PROVE  \E u \in Candidates(c, e) : Order(u) <= Order(t)
<1> DEFINE D == First(c, "day", e.day)
           x == w.day - DaysPerWeek
           v == Moment(e.year, e.month, x, 0, 0)
<1>1. /\ t \in Times /\ e \in Times /\ e \in Moments /\ w \in Moments /\ w \in Times
      /\ t.day \in Nat \ {0} /\ e.day \in Nat \ {0} /\ w.day \in Nat \ {0} /\ DaysPerWeek \in Nat \ {0}
  <2>1. t.day \in 1..Length(t) /\ w.day \in 1..Length(w) /\ w \in Moments
    BY CandidateFacts, MomentFacts, MidnightFacts
  <2> QED
    BY <2>1, MomentFacts, MidnightFacts, DatesInOrder, CalendarFacts
<1>2. /\ w.day <= Length(t) /\ Length(w) = Length(t) /\ Length(t) \in Nat /\ Exists(t.year, t.month, w.day)
      /\ t.year \in FirstYear..LastYear /\ t.month \in 1..MonthsPerYear
  <2>1. w.day \in 1..Length(w) /\ Length(t) \in ShortestMonth..LongestMonth /\ Length(w) = Length(t)
    BY <1>1, MomentFacts DEF Length
  <2> QED
    BY <1>1, <2>1, MomentFacts, CalendarFacts DEF Exists, Length, Times
<1>3. ~Last(c, "day")
  BY <1>1, <1>2 DEF DueByDay, DueOnDay, OnLastDay
<1>4. D \in e.day..t.day
  <2>1. t.day \in Values[c]["day"] /\ "day" \in Counted /\ e.day \in Int
    BY <1>1 DEF DueByDay, DueOnDay, Counted
  <2> QED
    BY <2>1, FirstReaches
<1> HIDE DEF D
<1>5. CASE Exists(e.year, e.month, D)
  <2>1. Exists(e.year, t.month, D)
    <3>1. MonthDays[e.year][t.month] \in Nat
      BY <1>2, DatesInOrder, CalendarFacts
    <3> QED
      BY <1>1, <1>4, <3>1 DEF Exists
  <2> QED
    BY <1>1, <1>3, <1>5, <2>1, DayCandidate DEF D
<1>6. CASE ~Exists(e.year, e.month, D)
  <2>1. DaysPerWeek < D
    <3>1. MonthDays[e.year][e.month] \in ShortestMonth..LongestMonth
      BY DatesInOrder, CalendarFacts
    <3> QED
      BY <1>1, <1>4, <1>6, <3>1, CalendarFacts DEF Exists
  <2>2. x \in Nat \ {0} /\ x + DaysPerWeek = w.day
    BY <1>1, <1>4, <2>1
  <2>3. w \in ByWeekday(c, e) /\ Uses(c, "isoweekday") /\ ~Last(c, "isoweekday")
    <3>1. w \notin ByDay(c, e)
      BY <1>1, <1>4, ByDayFacts DEF D
    <3> QED
      BY <3>1 DEF Candidates, DueByDay
  <2>4. /\ Weekday(w) \in Values[c]["isoweekday"]
        /\ \A d \in WeekdaysLeft(c, e, w) : w.day <= d
    BY <1>1, <2>3, ByWeekdayFacts
  <2>5. Weekday(Moment(t.year, t.month, x, 0, 0)) \in Values[c]["isoweekday"]
    <3>1. Weekday(Moment(t.year, t.month, w.day, 0, 0)) = Weekday(w)
      BY DEF Weekday, Moment
    <3>2. x + DaysPerWeek <= MonthDays[t.year][t.month]
      BY <1>2, <2>2 DEF Exists
    <3> HIDE DEF x
    <3>3. Weekday(Moment(t.year, t.month, x + DaysPerWeek, 0, 0)) = Weekday(Moment(t.year, t.month, x, 0, 0))
      BY <1>2, <2>2, <3>2, WeeksRepeat
    <3> QED
      BY <2>2, <2>4, <3>1, <3>3
  <2>6. Exists(t.year, t.month, x) /\ x <= LongestMonth
    BY <1>1, <1>2, <2>2, CalendarFacts DEF Exists, Times
  <2>7. x < e.day
    <3> SUFFICES ASSUME e.day <= x PROVE FALSE
      BY <1>1, <2>2
    <3>1. x \in WeekdaysLeft(c, e, w)
      BY <1>1, <2>2, <2>5, <2>6, CalendarFacts DEF WeekdaysLeft
    <3> QED
      BY <1>1, <2>2, <2>4, <3>1
  <2>8. v \in Midnights /\ v \in Moments /\ v.year = e.year /\ v.month = e.month /\ v.day = x
        /\ v.hour = 0 /\ v.minute = 0
    <3>1. Exists(e.year, e.month, x)
      <4>1. MonthDays[e.year][e.month] \in Nat /\ e.day <= MonthDays[e.year][e.month]
        BY DatesInOrder, CalendarFacts DEF Exists
      <4> QED
        BY <1>1, <2>2, <2>7, <4>1 DEF Exists
    <3> HIDE DEF x
    <3> QED
      BY <2>2, <3>1, DatesInOrder, MidnightOf, MidnightFacts DEF Moment
  <2> HIDE DEF v
  <2>9. Exists(e.year, t.month, x)
    <3>1. MonthDays[e.year][t.month] \in Nat
      BY <1>2, DatesInOrder, CalendarFacts
    <3> QED
      BY <1>1, <2>2, <2>7, <3>1 DEF Exists
  <2> HIDE DEF x
  <2>10. Aims(c, v, t)
    BY <2>8, DatesInOrder DEF Aims
  <2>11. Candidates(c, v) # {}
    BY <1>1, <2>2, <2>3, <2>5, <2>6, <2>8, <2>9, <2>10, WeekdayCandidate
  <2>12. s.day = 1
    <3> SUFFICES ASSUME s.year = t.year, s.month = t.month PROVE FALSE
      BY DEF StartsAhead
    <3>1. ~DayBefore(e, s)
      BY DatesInOrder DEF FirstRound
    <3>2. e.year = t.year /\ e.month = t.month
      BY <1>1, <1>2, <3>1, DatesInOrder DEF DayBefore, Aims
    <3>3. MonthDays[t.year][t.month] \in Nat /\ t.day <= MonthDays[t.year][t.month]
      BY <1>1, <1>2, CalendarFacts DEF Exists
    <3> QED
      BY <1>1, <1>4, <1>6, <3>2, <3>3 DEF Exists
  <2> QED
    BY <2>7, <2>8, <2>11, <2>12, NoEarlierRound
<1> QED
  BY <1>5, <1>6

\* What it finds when it looks for t by its weekday.
LEMMA RoundByWeekday ==
  ASSUME NEW c \in Crontabs, NEW e \in Midnights, NEW t \in Moments, NEW w \in Candidates(c, e),
         ~(Uses(c, "day") /\ Last(c, "isoweekday")),
         DueInMonth(c, t), DueByWeekday(c, t), Aims(c, e, t), Exists(e.year, t.month, t.day),
         e.day <= t.day, w.year = t.year, w.month = t.month, t.day < w.day
  PROVE  \E u \in Candidates(c, e) : Order(u) <= Order(t)
<1>1. /\ t \in Times /\ e \in Times /\ e \in Moments /\ w \in Moments
      /\ t.day \in Nat \ {0} /\ e.day \in Nat \ {0} /\ w.day \in Nat \ {0} /\ Exists(t.year, t.month, t.day)
      /\ t.day \in 1..LongestMonth
  <2>1. t.day \in 1..Length(t) /\ w.day \in 1..Length(w) /\ w \in Moments
    BY CandidateFacts, MomentFacts, MidnightFacts
  <2> QED
    BY <2>1, MomentFacts, MidnightFacts, DatesInOrder DEF Exists, Length, Times
<1>2. Weekday(Moment(t.year, t.month, t.day, 0, 0)) \in Values[c]["isoweekday"]
  BY DEF DueByWeekday, DueOnWeekday, Weekday, Moment
<1>3. CASE ~Last(c, "isoweekday")
  <2>1. Exists(e.year, t.month, e.day)
    <3>1. MonthDays[e.year][t.month] \in Nat
      BY <1>1, DatesInOrder, CalendarFacts DEF Times
    <3> QED
      BY <1>1, <3>1 DEF Exists
  <2> QED
    BY <1>1, <1>2, <1>3, <2>1, WeekdayCandidate DEF DueByWeekday
<1>4. CASE Last(c, "isoweekday")
  <2>1. w \in ByWeekday(c, e)
    BY <1>4 DEF Candidates, DueByWeekday
  <2>2. \A d \in WeekdaysLeft(c, e, w) : w.day <= d
    BY <1>1, <2>1, ByWeekdayFacts
  <2>3. t.day \in WeekdaysLeft(c, e, w)
    BY <1>1, <1>2 DEF WeekdaysLeft
  <2> QED
    BY <1>1, <2>2, <2>3
<1> QED
  BY <1>3, <1>4

\* The first round that finds anything does not miss a moment that is still ahead of it.
LEMMA RoundReaches ==
  ASSUME NEW c \in Crontabs, NEW s \in Midnights, NEW e \in Midnights, NEW t \in Moments,
         IsDue(c, t), StartsAhead(s, t), NoLeapDay(c, s, t),
         ~(Uses(c, "day") /\ Last(c, "isoweekday")),
         FirstRound(c, s, e), Order(e) <= Order(Midnight(t))
  PROVE  \E u \in Candidates(c, e) : Order(u) <= Order(t)
<1>1. PICK w \in Candidates(c, e) : TRUE
  BY DEF FirstRound
<1>2. /\ t \in Times /\ e \in Times /\ w \in Times /\ w \in Moments /\ TakenFrom(c, e, w)
      /\ t.day \in Nat \ {0} /\ e.day \in Nat \ {0} /\ w.day \in Nat \ {0}
      /\ t.year \in FirstYear..LastYear /\ t.year \in Nat /\ w.year \in Nat /\ e.year \in Nat
      /\ t.month \in 1..MonthsPerYear /\ Exists(t.year, t.month, t.day)
  <2>1. e \in Times /\ w \in Moments /\ TakenFrom(c, e, w)
    BY CandidateFacts, MidnightFacts
  <2>2. t.day \in 1..Length(t) /\ w.day \in 1..Length(w)
    BY <2>1, MomentFacts
  <2> QED
    BY <2>1, <2>2, MomentFacts, DatesInOrder, CalendarFacts DEF Exists, Length, Times
<1>3. DueInMonth(c, t) /\ (DueByDay(c, t) \/ DueByWeekday(c, t))
  BY DEF IsDue, DueByDay, DueByWeekday
<1>4. ~DayBefore(t, e)
  <2>1. Midnight(t) \in Midnights
    BY <1>2, MidnightOf DEF Midnight
  <2> QED
    BY <2>1, DatesInOrder DEF DayBefore, Midnight, Moment
<1>5. e.year <= t.year /\ w.year = First(c, "year", e.year) /\ w.year <= t.year
  <2>1. e.year <= t.year
    BY <1>2, <1>4, CalendarFacts DEF DayBefore
  <2>2. t.year \in Values[c]["year"] /\ "year" \in Counted /\ e.year \in Int
    BY <1>2, <1>3 DEF DueInMonth, Counted
  <2> QED
    BY <1>2, <2>1, <2>2, FirstReaches DEF TakenFrom
<1>6. CASE w.year < t.year
  <2>1. Before(w, t)
    BY <1>6 DEF Before, DayBefore
  <2>2. Order(w) < Order(t)
    BY <1>2, <2>1, BeforeIsEarlier
  <2> QED
    BY <1>1, <1>2, <2>2, OrderIsNatural
<1>7. CASE w.year = t.year
  <2>1. Exists(e.year, t.month, t.day)
    <3>1. CASE e.year = t.year
      BY <1>2, <3>1
    <3>2. CASE e.year < t.year
      <4>1. ~DayBefore(e, s)
        BY DatesInOrder DEF FirstRound
      <4>2. e.year \in s.year..(t.year - 1)
        BY <1>2, <3>2, <4>1, DatesInOrder DEF DayBefore
      <4>3. Values[c]["year"] \cap e.year..(t.year - 1) = {}
        <5>1. "year" \in Counted /\ Later(c, "year", e.year) # {}
          BY <1>2 DEF Counted, TakenFrom, Reaches
        <5>2. \A x \in Values[c]["year"] : x >= e.year => t.year <= x
          BY <1>5, <1>7, <5>1, FirstFacts
        <5> QED
          BY <1>2, <5>2
      <4> QED
        BY <4>2, <4>3 DEF NoLeapDay
    <3> QED
      BY <1>2, <1>5, <3>1, <3>2
  <2>2. w.month = First(c, "month", e.month) /\ First(c, "year", e.year) = t.year
    BY <1>2, <1>5, <1>7 DEF TakenFrom
  <2>3. \A m \in 1..t.month : First(c, "month", m) \in m..t.month
    <3>1. t.month \in Values[c]["month"] /\ "month" \in Counted
      BY <1>3 DEF DueInMonth, Counted
    <3> QED
      BY <3>1, FirstReaches
  <2>4. e.month \in 1..MonthsPerYear /\ e.month \in Nat /\ t.month \in Nat /\ e.hour = 0 /\ e.minute = 0
        /\ t.hour \in Nat /\ t.minute \in Nat
    BY <1>2, DatesInOrder DEF Times
  <2>5. CASE t.month < e.month
    <3> DEFINE v == Moment(e.year, t.month, t.day, 0, 0)
    <3>1. v \in Midnights /\ v \in Moments
      BY <1>2, <2>1, DatesInOrder, MidnightOf, MidnightFacts
    <3>2. v.year = e.year /\ v.month = t.month /\ v.day = t.day /\ v.hour = 0 /\ v.minute = 0
      BY DEF Moment
    <3> HIDE DEF v
    <3>3. First(c, "month", t.month) = t.month
      BY <2>3, <2>4, <1>2
    <3>4. Aims(c, v, t)
      BY <1>5, <2>2, <2>4, <3>2, <3>3 DEF Aims
    <3>5. Candidates(c, v) # {}
      BY <2>1, <3>1, <3>2, <3>4, SameDayRound
    <3>6. s.day = 1 /\ s.month = 1
      <4>1. ~DayBefore(e, s) /\ e.year < t.year
        BY <1>2, <1>4, <1>5, <2>5, DatesInOrder DEF FirstRound, DayBefore
      <4> QED
        BY <1>2, <4>1, DatesInOrder DEF StartsAhead, DayBefore
    <3> QED
      BY <2>5, <3>1, <3>2, <3>5, <3>6, NoEarlierRound
  <2>6. CASE e.month <= t.month /\ w.month # t.month
    <3>1. w.month < t.month
      BY <1>2, <2>2, <2>3, <2>4, <2>6
    <3>2. Before(w, t)
      BY <1>7, <3>1 DEF Before, DayBefore
    <3>3. Order(w) < Order(t)
      BY <1>2, <3>2, BeforeIsEarlier
    <3> QED
      BY <1>1, <1>2, <3>3, OrderIsNatural
  <2>7. CASE e.month <= t.month /\ w.month = t.month
    <3>1. Aims(c, e, t)
      BY <1>5, <2>2, <2>4, <2>7 DEF Aims
    <3>2. CASE t.day < e.day
      <4> DEFINE v == Moment(e.year, e.month, t.day, 0, 0)
      <4>1. v \in Midnights /\ v \in Moments
        <5>1. Exists(e.year, e.month, t.day)
          <6>1. MonthDays[e.year][e.month] \in Nat /\ e.day <= MonthDays[e.year][e.month]
            BY DatesInOrder, CalendarFacts DEF Exists
          <6> QED
            BY <1>2, <3>2, <6>1 DEF Exists
        <5> QED
          BY <1>2, <5>1, DatesInOrder, MidnightOf, MidnightFacts
      <4>2. v.year = e.year /\ v.month = e.month /\ v.day = t.day /\ v.hour = 0 /\ v.minute = 0
        BY DEF Moment
      <4> HIDE DEF v
      <4>3. Aims(c, v, t)
        BY <3>1, <2>4, <4>2 DEF Aims
      <4>4. Candidates(c, v) # {}
        BY <2>1, <4>1, <4>2, <4>3, SameDayRound
      <4>5. s.day = 1
        <5>1. ~DayBefore(e, s) /\ (e.year < t.year \/ e.month < t.month)
          BY <1>2, <1>4, <1>5, <2>4, <2>7, <3>2, DatesInOrder DEF FirstRound, DayBefore
        <5> QED
          BY <1>2, <1>5, <5>1, <2>4, DatesInOrder DEF StartsAhead, DayBefore
      <4> QED
        BY <3>2, <4>1, <4>2, <4>4, <4>5, NoEarlierRound
    <3>3. CASE e.day <= t.day /\ w.day <= t.day
      <4>1. w.hour <= t.hour /\ w.minute <= t.minute
        <5>1. /\ t.hour \in Values[c]["hour"] /\ t.minute \in Values[c]["minute"]
              /\ "hour" \in Counted /\ "minute" \in Counted
              /\ w.hour = First(c, "hour", 0) /\ w.minute = First(c, "minute", 0)
          BY <1>2, <1>3, <2>4 DEF DueInMonth, TakenFrom, Counted
        <5>2. w.hour \in 0..t.hour /\ w.minute \in 0..t.minute
          BY <2>4, <5>1, FirstReaches
        <5> QED
          BY <2>4, <5>2
      <4> QED
        BY <1>1, <1>2, <1>7, <2>7, <3>3, <4>1, NotAfter
    <3>4. CASE e.day <= t.day /\ t.day < w.day /\ DueByDay(c, t)
      BY <1>1, <1>3, <1>7, <2>1, <2>7, <3>1, <3>4, RoundByDay
    <3>5. CASE e.day <= t.day /\ t.day < w.day /\ DueByWeekday(c, t)
      BY <1>1, <1>3, <1>7, <2>1, <2>7, <3>1, <3>5, RoundByWeekday
    <3> QED
      BY <1>2, <1>3, <3>2, <3>3, <3>4, <3>5
  <2> QED
    BY <1>2, <2>4, <2>5, <2>6, <2>7
<1> QED
  BY <1>2, <1>5, <1>6, <1>7

\* The same year, month and, at most, hour and minute aim at t.
LEMMA AimsInMonth ==
  ASSUME NEW c \in Crontabs, NEW t \in Moments, DueInMonth(c, t), NEW v,
         v.year = t.year, v.month = t.month, v.hour <= t.hour, v.minute <= t.minute
  PROVE  Aims(c, v, t)
<1>1. t.year \in Int /\ t.month \in Int /\ t.year <= t.year /\ t.month <= t.month
  BY MomentFacts, CalendarFacts DEF Times
<1>2. /\ t.year \in Values[c]["year"] /\ t.month \in Values[c]["month"]
      /\ "year" \in Counted /\ "month" \in Counted
  BY DEF DueInMonth, Counted
<1>3. First(c, "year", t.year) \in t.year..t.year
  BY <1>1, <1>2, FirstReaches
<1>4. First(c, "month", t.month) \in t.month..t.month
  BY <1>1, <1>2, FirstReaches
<1> QED
  BY <1>1, <1>3, <1>4 DEF Aims

LEMMA MidnightOfMoment ==
  ASSUME NEW t \in Moments
  PROVE  /\ Midnight(t) \in Midnights
         /\ Midnight(t).year = t.year /\ Midnight(t).month = t.month /\ Midnight(t).day = t.day
         /\ t.hour \in Nat /\ t.minute \in Nat /\ t.year \in Nat /\ t.month \in Nat /\ t.day \in Nat
         /\ Exists(t.year, t.month, t.day) /\ t.year \in FirstYear..LastYear /\ t \in Times
<1>1. t.day \in 1..Length(t) /\ t.year \in FirstYear..LastYear /\ t \in Times
  BY MomentFacts
<1>2. t.day \in Nat \ {0} /\ Exists(t.year, t.month, t.day)
  BY <1>1, CalendarFacts DEF Exists, Length, Times
<1>3. Midnight(t) \in Midnights
  BY <1>1, <1>2, MidnightOf DEF Times, Midnight
<1> QED
  BY <1>1, <1>2, <1>3, CalendarFacts DEF Times, Midnight, Moment

\* A search from the day of t that has not yet come to t finds t or something before it.
LEMMA OwnRoundReaches ==
  ASSUME NEW c \in Crontabs, NEW s \in Moments, NEW t \in Moments, IsDue(c, t),
         SameDay(s, t), s.hour <= t.hour, s.minute <= t.minute
  PROVE  \E u \in Calculate(c, s) : Order(u) <= Order(t)
<1>1. s \in Times
  BY MidnightOfMoment
<1>2. Aims(c, s, t)
  BY AimsInMonth DEF IsDue, SameDay
<1>3. PICK u \in Candidates(c, s) : Order(u) <= Order(t)
  BY <1>2, MidnightOfMoment, SameDayRound DEF SameDay
<1>4. PICK v \in Candidates(c, s) : Earliest(Candidates(c, s)) = {v} /\ Order(v) <= Order(u)
  BY <1>1, <1>3, CandidatesAreTimes, EarliestFacts
<1>5. Calculate(c, s) = {v}
  BY <1>3, <1>4 DEF Calculate
<1>6. Order(v) \in Nat /\ Order(u) \in Nat /\ Order(t) \in Nat
  <2>1. Candidates(c, s) \subseteq Times
    BY <1>1, CandidatesAreTimes
  <2> QED
    BY <1>3, <1>4, <2>1, MidnightOfMoment, OrderIsNatural
<1> QED
  BY <1>3, <1>4, <1>5, <1>6

\* A search that starts from the beginning of a year, a month or a day before t finds
\* t or something before it.
LEMMA SearchReaches ==
  ASSUME NEW c \in Crontabs, NEW s \in Midnights, NEW t \in Moments,
         IsDue(c, t), StartsAhead(s, t), NoLeapDay(c, s, t),
         ~(Uses(c, "day") /\ Last(c, "isoweekday"))
  PROVE  \E u \in Calculate(c, s) : Order(u) <= Order(t)
<1> DEFINE own == Candidates(c, s)
           later == {v \in Midnights : Order(v) > Order(s) /\ OfMidnights[c][v] # {}}
           day == Midnight(t)
<1>1. /\ day \in Midnights /\ day.year = t.year /\ day.month = t.month /\ day.day = t.day
      /\ day \in Moments /\ t \in Times /\ s \in Times
  BY MidnightOfMoment, MidnightFacts
<1>2. \A a \in Midnights : Order(a) \in Nat
  BY MidnightFacts, OrderIsNatural
<1>3. Order(s) <= Order(day)
  <2>1. ~DayBefore(day, s)
    BY <1>1, DatesInOrder DEF StartsAhead, DayBefore
  <2> QED
    BY <1>1, <2>1, DatesInOrder
<1>4. \A a \in Midnights : Order(a) = Order(s) => a = s
  <2> SUFFICES ASSUME NEW a \in Midnights, Order(a) = Order(s) PROVE a = s
    OBVIOUS
  <2>1. ~DayBefore(a, s) /\ ~DayBefore(s, a)
    BY <1>2, DatesInOrder
  <2>2. a.year = s.year /\ a.month = s.month /\ a.day = s.day /\ a.hour = s.hour /\ a.minute = s.minute
    BY <2>1, DatesInOrder DEF DayBefore
  <2>3. a \in Times /\ s \in Times
    BY MidnightFacts
  <2> QED
    BY <2>2, <2>3 DEF Times
<1>5. \A a \in Midnights : OfMidnights[c][a] = Candidates(c, a)
  BY RoundsOfMidnights
<1>6. \A e \in Midnights : Candidates(c, e) \in SUBSET Times
  BY MidnightFacts, CandidatesAreTimes
<1> HIDE DEF day
<1>7. ASSUME NEW e \in Midnights, FirstRound(c, s, e), Order(e) <= Order(day)
      PROVE  \E v \in Earliest(Candidates(c, e)) : Order(v) <= Order(t)
  <2>1. PICK u \in Candidates(c, e) : Order(u) <= Order(t)
    BY <1>7, RoundReaches DEF day
  <2>2. PICK v \in Candidates(c, e) : Earliest(Candidates(c, e)) = {v} /\ Order(v) <= Order(u)
    BY <1>6, <2>1, EarliestFacts
  <2>3. Order(v) \in Nat /\ Order(u) \in Nat /\ Order(t) \in Nat
    BY <1>1, <1>6, <2>1, <2>2, OrderIsNatural
  <2> QED
    BY <2>1, <2>2, <2>3
<1>8. CASE own # {}
  <2>1. FirstRound(c, s, s)
    BY <1>2, <1>8 DEF FirstRound
  <2>2. Calculate(c, s) = Earliest(own)
    BY <1>8 DEF Calculate
  <2> QED
    BY <1>3, <1>7, <2>1, <2>2
<1>9. CASE own = {}
  <2>1. Candidates(c, day) # {}
    <3>1. day.hour = 0 /\ day.minute = 0 /\ 0 <= t.hour /\ 0 <= t.minute
      BY <1>1, MidnightFacts, MidnightOfMoment
    <3>2. Aims(c, day, t)
      BY <1>1, <3>1, AimsInMonth DEF IsDue
    <3> QED
      BY <1>1, <3>2, MidnightOfMoment, SameDayRound
  <2>2. day # s
    BY <1>9, <2>1
  <2>3. Order(s) < Order(day)
    BY <1>1, <1>2, <1>3, <1>4, <2>2
  <2>4. day \in later
    BY <1>1, <1>5, <2>1, <2>3
  <2>5. later \in SUBSET Times /\ later # {}
    BY <2>4, MidnightFacts
  <2>6. PICK e \in later : Earliest(later) = {e} /\ \A v \in later : Order(e) <= Order(v)
    BY <2>5, EarliestFacts
  <2>7. e \in Midnights /\ Order(s) < Order(e) /\ Candidates(c, e) # {} /\ Order(e) <= Order(day)
    BY <1>5, <2>4, <2>6
  <2>8. Calculate(c, s) = Earliest(Candidates(c, e))
    <3>1. Calculate(c, s) = UNION {Earliest(OfMidnights[c][v]) : v \in Earliest(later)}
      BY <1>9 DEF Calculate
    <3> HIDE DEF later
    <3> QED
      BY <1>5, <2>6, <2>7, <3>1
  <2>9. ASSUME NEW v \in Midnights, Order(s) <= Order(v), Order(v) < Order(e)
        PROVE  Candidates(c, v) = {}
    <3>1. v \notin later
      BY <1>2, <2>6, <2>7, <2>9
    <3> QED
      BY <1>2, <1>4, <1>5, <1>9, <2>9, <3>1
  <2>10. FirstRound(c, s, e)
    BY <1>2, <2>7, <2>9 DEF FirstRound
  <2> QED
    BY <1>7, <2>7, <2>8, <2>10
<1> QED
  BY <1>8, <1>9

\* What the search is made from is enough to find a moment that is ahead of the clock.
LEMMA SomeSearchReaches ==
  ASSUME NEW c \in Crontabs, NEW asked \in Moments, NEW second0 \in BOOLEAN, NEW t \in Moments,
         IsDue(c, t), IF second0 THEN Order(asked) <= Order(t) ELSE Order(asked) < Order(t),
         ~(Uses(c, "day") /\ Last(c, "isoweekday")),
         ~(asked.day = Length(asked) - 1 /\ t.month = asked.month /\ t.year = asked.year /\ OnLastDay(t)),
         ~(asked.month = MonthsPerYear - 1 /\ t.month = MonthsPerYear /\ t.year = asked.year),
         NoLeapDay(c, Moment(asked.year + 1, 1, 1, 0, 0), t)
  PROVE  \E s \in Starts(asked, second0) : \E u \in Calculate(c, s) : Order(u) <= Order(t)
<1>1. /\ asked \in Times /\ t \in Times
      /\ asked.year \in Nat /\ asked.month \in Nat /\ asked.day \in Nat /\ asked.hour \in Nat /\ asked.minute \in Nat
      /\ t.year \in Nat /\ t.month \in Nat /\ t.day \in Nat /\ t.hour \in Nat /\ t.minute \in Nat
      /\ asked.year \in FirstYear..LastYear /\ t.year \in FirstYear..LastYear
      /\ asked.month \in 1..MonthsPerYear /\ t.month \in 1..MonthsPerYear /\ asked.day >= 1
      /\ Length(asked) \in Nat /\ Exists(asked.year, asked.month, asked.day) /\ Exists(t.year, t.month, t.day)
  <2>1. asked.day \in 1..Length(asked) /\ Length(asked) \in ShortestMonth..LongestMonth
    BY MomentFacts
  <2> QED
    BY <2>1, MidnightOfMoment, CalendarFacts DEF Times
<1>2. (second0 /\ asked = t) \/ Before(asked, t)
  <2>1. Order(asked) \in Nat /\ Order(t) \in Nat
    BY <1>1, OrderIsNatural
  <2>2. Order(asked) <= Order(t)
    BY <2>1
  <2>3. ~Before(t, asked)
    BY <1>1, <2>2, InOrderOfTime
  <2>4. asked = t \/ Before(asked, t)
    BY <1>1, <2>3 DEF Before, DayBefore, SameDay, Times
  <2> QED
    BY <2>1, <2>4
<1>3. CASE second0 /\ asked = t
  <2>1. asked \in Starts(asked, second0)
    BY <1>3 DEF Starts
  <2>2. SameDay(asked, t) /\ asked.hour <= t.hour /\ asked.minute <= t.minute
    BY <1>1, <1>3 DEF SameDay
  <2> QED
    BY <2>1, <2>2, OwnRoundReaches
<1>4. CASE SameDay(asked, t) /\ asked.hour = t.hour /\ asked.minute < t.minute
  <2> DEFINE s == Moment(asked.year, asked.month, asked.day, asked.hour, asked.minute + 1)
  <2>1. asked.minute + 1 \in 0..(MinutesPerHour - 1) /\ asked.minute + 1 <= t.minute
    BY <1>1, <1>4, CalendarFacts DEF Times
  <2>2. s \in Starts(asked, second0)
    BY <2>1 DEF Starts, MinuteStart
  <2>3. s.year = asked.year /\ s.month = asked.month /\ s.day = asked.day /\ s.hour = asked.hour /\ s.minute = asked.minute + 1
    BY DEF Moment
  <2>4. s \in Moments
    <3>1. s \in Times
      BY <1>1, <2>1, MomentIsTime DEF Times
    <3> HIDE DEF s
    <3> QED
      BY <1>1, <2>3, <3>1, MomentFacts DEF Exists
  <2> HIDE DEF s
  <2>5. SameDay(s, t) /\ s.hour <= t.hour /\ s.minute <= t.minute
    BY <1>1, <1>4, <2>1, <2>3 DEF SameDay
  <2> QED
    BY <2>2, <2>4, <2>5, OwnRoundReaches
<1>5. CASE SameDay(asked, t) /\ asked.hour < t.hour
  <2> DEFINE s == Moment(asked.year, asked.month, asked.day, asked.hour + 1, 0)
  <2>1. asked.hour + 1 \in 0..(HoursPerDay - 1) /\ asked.hour + 1 <= t.hour /\ 0 \in 0..(MinutesPerHour - 1)
    BY <1>1, <1>5, CalendarFacts DEF Times
  <2>2. s \in Starts(asked, second0)
    BY <2>1 DEF Starts, HourStart
  <2>3. s.year = asked.year /\ s.month = asked.month /\ s.day = asked.day /\ s.hour = asked.hour + 1 /\ s.minute = 0
    BY DEF Moment
  <2>4. s \in Moments
    <3>1. s \in Times
      BY <1>1, <2>1, MomentIsTime DEF Times
    <3> HIDE DEF s
    <3> QED
      BY <1>1, <2>3, <3>1, MomentFacts DEF Exists
  <2> HIDE DEF s
  <2>5. SameDay(s, t) /\ s.hour <= t.hour /\ s.minute <= t.minute
    BY <1>1, <1>5, <2>1, <2>3 DEF SameDay
  <2> QED
    BY <2>2, <2>4, <2>5, OwnRoundReaches
<1>6. CASE asked.year = t.year /\ asked.month = t.month /\ asked.day < t.day
  <2> DEFINE s == Moment(asked.year, asked.month, asked.day + 1, 0, 0)
  <2>1. Length(t) = Length(asked) /\ t.day <= Length(asked)
    BY <1>1, <1>6 DEF Length, Exists
  <2>2. asked.day < Length(asked) - 1
    BY <1>1, <1>6, <2>1 DEF OnLastDay
  <2>3. s \in Starts(asked, second0)
    BY <2>2 DEF Starts, DayStart
  <2>4. s \in Midnights
    <3>1. Exists(asked.year, asked.month, asked.day + 1)
      BY <1>1, <2>2 DEF Exists, Length
    <3> QED
      BY <1>1, <3>1, MidnightOf
  <2>5. s.year = asked.year /\ s.month = asked.month /\ s.day = asked.day + 1
    BY DEF Moment
  <2> HIDE DEF s
  <2>6. StartsAhead(s, t) /\ NoLeapDay(c, s, t)
    BY <1>1, <1>6, <2>5 DEF StartsAhead, NoLeapDay
  <2> QED
    BY <2>3, <2>4, <2>6, SearchReaches
<1>7. \A y \in FirstYear..LastYear, m \in 1..MonthsPerYear : Moment(y, m, 1, 0, 0) \in Midnights
  <2> SUFFICES ASSUME NEW y \in FirstYear..LastYear, NEW m \in 1..MonthsPerYear
               PROVE  Moment(y, m, 1, 0, 0) \in Midnights
    OBVIOUS
  <2>1. Exists(y, m, 1)
    <3>1. MonthDays[y][m] \in ShortestMonth..LongestMonth
      BY CalendarFacts
    <3> QED
      BY <3>1, CalendarFacts DEF Exists
  <2> QED
    BY <2>1, MidnightOf
<1>8. CASE asked.year = t.year /\ asked.month < t.month
  <2> DEFINE s == Moment(asked.year, asked.month + 1, 1, 0, 0)
  <2>1. asked.month < MonthsPerYear - 1 /\ asked.month + 1 \in 1..MonthsPerYear
    BY <1>1, <1>8, CalendarFacts
  <2>2. s \in Starts(asked, second0)
    BY <2>1 DEF Starts, MonthStart
  <2>3. s \in Midnights
    BY <1>1, <1>7, <2>1
  <2>4. s.year = asked.year /\ s.month = asked.month + 1 /\ s.day = 1
    BY DEF Moment
  <2> HIDE DEF s
  <2>5. StartsAhead(s, t) /\ NoLeapDay(c, s, t)
    BY <1>1, <1>8, <2>4 DEF StartsAhead, NoLeapDay
  <2> QED
    BY <2>2, <2>3, <2>5, SearchReaches
<1>9. CASE asked.year < t.year
  <2> DEFINE s == Moment(asked.year + 1, 1, 1, 0, 0)
  <2>1. asked.year + 1 \in FirstYear..LastYear /\ 1 \in 1..MonthsPerYear
    BY <1>1, <1>9, CalendarFacts
  <2>2. s \in Starts(asked, second0)
    BY DEF Starts, YearStart
  <2>3. s \in Midnights
    BY <1>7, <2>1
  <2>4. s.year = asked.year + 1 /\ s.month = 1 /\ s.day = 1 /\ NoLeapDay(c, s, t)
    BY DEF Moment
  <2> HIDE DEF s
  <2>5. StartsAhead(s, t)
    BY <1>1, <1>9, <2>4 DEF StartsAhead
  <2> QED
    BY <2>2, <2>3, <2>4, <2>5, SearchReaches
<1> QED
  BY <1>2, <1>3, <1>4, <1>5, <1>6, <1>8, <1>9 DEF Before, DayBefore

\* The searches that get_next_datetime starts miss no moment that is due but
\* those that NoneSkipped names, whatever the notation and the calendar
\* (helpers/crontab.py 43-336).
THEOREM NothingElseSkipped == CronSpec => []NoneSkipped
<1>1. CronInv => NoneSkipped
  <2> SUFFICES ASSUME CronInv, NEW t \in Skipped,
                      ~NotStartedFrom(t), ~LeapDayAhead(t), ~DaysAndLastWeekdays
               PROVE  FALSE
    BY DEF NoneSkipped
  <2>1. /\ crontab \in Crontabs /\ clock \in Moments /\ whole \in BOOLEAN
        /\ call = GetNextDatetime(crontab, clock, whole)
    BY DEF CronInv
  <2>2. /\ t \in Moments /\ IsDue(crontab, t)
        /\ IF whole THEN Order(t) >= Order(clock) ELSE Order(t) > Order(clock)
        /\ \A n \in call : Order(t) < Order(n)
    BY <2>1 DEF Skipped, DueMoments
  <2>3. t \in Times /\ clock \in Times /\ Order(t) \in Nat /\ Order(clock) \in Nat
    BY <2>1, <2>2, MomentFacts, OrderIsNatural
  <2>4. NoLeapDay(crontab, Moment(clock.year + 1, 1, 1, 0, 0), t)
    BY DEF LeapDayAhead, NoLeapDay, Moment
  <2>5. PICK s \in Starts(clock, whole) : \E u \in Calculate(crontab, s) : Order(u) <= Order(t)
    BY <2>1, <2>2, <2>3, <2>4, SomeSearchReaches DEF NotStartedFrom, DaysAndLastWeekdays
  <2>6. PICK u \in Calculate(crontab, s) : Order(u) <= Order(t)
    BY <2>5
  <2>7. PICK n \in call : TRUE
    <3> DEFINE dates == UNION {Calculate(crontab, v) : v \in Starts(clock, whole)}
    <3>1. dates \in SUBSET Times
      BY <2>1, StartFacts, CalculateFacts, MomentFacts
    <3>2. dates # {} /\ call = Earliest(dates)
      BY <2>1, <2>5, <2>6 DEF GetNextDatetime
    <3> QED
      BY <3>1, <3>2, EarliestFacts
  <2>8. n \in Moments /\ Order(n) <= Order(u)
    BY <2>1, <2>5, <2>6, <2>7, NextFacts
  <2>9. Order(n) \in Nat /\ Order(u) \in Nat
    <3>1. u \in Moments
      BY <2>1, <2>5, <2>6, StartFacts, CalculateFacts
    <3> QED
      BY <2>8, <3>1, MomentFacts, OrderIsNatural
  <2> QED
    BY <2>2, <2>3, <2>6, <2>7, <2>8, <2>9
<1> QED
  BY <1>1, CronInvariance, PTL
=============================================================================
