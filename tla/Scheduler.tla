------------------------------ MODULE Scheduler ------------------------------
(***************************************************************************)
(* The schedule loops of the services of one process                       *)
(* (tomodachi/transport/schedule.py).  Every service here has one          *)
(* scheduled function and thus one loop, a coroutine that sleeps until the *)
(* next call is due, starts the handler in a task of its own and computes  *)
(* the next call.  The close_waiter that ends the loops is an attribute of *)
(* the class: all services of the process share whichever future was put   *)
(* there last.                                                             *)
(*                                                                         *)
(* Time is counted in ticks, Second of them in a second, so that int(t) is *)
(* a real truncation.  A loop is woken at most MaxLate ticks late.         *)
(***************************************************************************)
EXTENDS Integers

CONSTANTS Services,      \* the services, each with one scheduled function
          Aligned,       \* those with a crontab or a timestamp: due at multiples of Every
          Behind,        \* seconds that the search for the next of these starts too early
          Immediately,   \* those declared with immediately=True
          Every,         \* the interval of each function, in seconds
          Limit, Resume, \* tasks under way that stop a loop and let it go on (20, 15)
          Penalty,       \* seconds a stopped loop looks ahead for its next call (10)
          Far, Parts,    \* seconds from which a loop sleeps a part of its wait (8, a third)
          MaxSleep,      \* the longest sleep, in seconds (300)
          Second,        \* ticks in a second
          MaxLate,       \* bound: ticks a sleeping loop may be woken late
          Epoch,         \* the time the model begins at
          MaxStart,      \* bound: the last tick in which a service is started
          MaxStarting,   \* bound: ticks the start of a service takes
          MaxTime        \* bound: the last tick the model looks at

ASSUME SchedulerAssumption ==
  /\ Aligned \subseteq Services /\ Immediately \subseteq Services
  /\ Every \in [Services -> Nat \ {0}] /\ Behind \in [Services -> Nat]
  /\ Limit \in Nat \ {0} /\ Resume \in 1..Limit
  /\ Second \in Nat \ {0} /\ Penalty \in Nat /\ Far \in Nat /\ MaxSleep \in Nat
  /\ Parts \in Nat \ {0}
  /\ MaxTime \in Nat /\ Epoch \in 0..MaxTime
  /\ MaxStart \in Nat /\ MaxStarting \in Nat /\ MaxLate \in Nat

VARIABLES
  now,          \* the clock
  waiter,       \* cls.close_waiter: the number of the current future
  closed,       \* the futures that have a result
  service,      \* service[s]: "off", "starting", "running", "stopping", "stopped"
  loop,         \* loop[s]: where schedule_loop of s is
  wake,         \* wake[s]: when its sleep ends
  held,         \* held[s]: the future a long sleep also waits for, 0 if none
  current,      \* current_time of the loop
  next, prev,   \* next_call_at and prev_call_at; Unset is None
  immediate,    \* run_immediately
  tasks,        \* tasks[s]: handlers of s under way
  tooMany,      \* too_many_tasks
  invoked       \* invoked[s]: the invocation time last given to the handler

timing == <<wake, held, current, next, prev, immediate>>
vars == <<now, waiter, closed, service, loop, timing, tasks, tooMany, invoked>>

Unset == -1
Whole(t) == t - (t % Second)
Closed == waiter \in closed
Earlier(a, b) == IF a < b THEN a ELSE b

(* next_call_at.  For a number of seconds it is int(current_time + interval);
   otherwise get_next_datetime looks for a matching instant at least a second
   ahead, or, for a timestamp with seconds that seems not to have passed yet
   (it is compared with a time of another UTC offset), from a minute before. *)
NextCallAt(s, t) ==
  LET period == Every[s] * Second
      from == Whole(t) + (1 - Behind[s]) * Second
  IN IF s \in Aligned THEN ((from + period - 1) \div period) * period
                      ELSE Whole(t + period)

Init ==
  /\ now = Epoch
  /\ waiter = 0 /\ closed = {}
  /\ service = [s \in Services |-> "off"]
  /\ loop = [s \in Services |-> "off"]
  /\ wake = [s \in Services |-> 0]
  /\ held = [s \in Services |-> 0]
  /\ current = [s \in Services |-> 0]
  /\ next = [s \in Services |-> Unset]
  /\ prev = [s \in Services |-> Unset]
  /\ immediate = [s \in Services |-> s \in Immediately]
  /\ tasks = [s \in Services |-> 0]
  /\ tooMany = [s \in Services |-> FALSE]
  /\ invoked = [s \in Services |-> Unset]

-----------------------------------------------------------------------------
(* Services *)

(* _schedule and start_schedule_loop: a new close_waiter for everybody, and
   a loop that waits for the service to be started.                        *)
Start(s) ==
  /\ service[s] = "off" /\ now <= MaxStart
  /\ service' = [service EXCEPT ![s] = "starting"]
  /\ waiter' = waiter + 1
  /\ loop' = [loop EXCEPT ![s] = "await"]
  /\ current' = [current EXCEPT ![s] = now]
  /\ UNCHANGED <<now, closed, wake, held, next, prev, immediate, tasks, tooMany, invoked>>

(* started_service: start_waiter gets its result. *)
Started(s) ==
  /\ service[s] = "starting"
  /\ service' = [service EXCEPT ![s] = "running"]
  /\ UNCHANGED <<now, waiter, closed, loop, timing, tasks, tooMany, invoked>>

(* stop_service, of a running service or of one whose start failed: it sets
   the result of whichever future the class holds.                         *)
Stop(s) ==
  /\ service[s] \in {"starting", "running"}
  /\ service' = [service EXCEPT ![s] = "stopping"]
  /\ closed' = closed \cup {waiter}
  /\ UNCHANGED <<now, waiter, loop, timing, tasks, tooMany, invoked>>

(* stop_service resumes when stop_waiter has its result. *)
Stopped(s) ==
  /\ service[s] = "stopping" /\ loop[s] = "done"
  /\ service' = [service EXCEPT ![s] = "stopped"]
  /\ UNCHANGED <<now, waiter, closed, loop, timing, tasks, tooMany, invoked>>

-----------------------------------------------------------------------------
(* The loop of s *)

(* Mutant: a stop during the start leaves start_waiter without a result. *)
EnterWhenRunning(s) ==
  /\ loop[s] = "await" /\ service[s] = "running"
  /\ loop' = [loop EXCEPT ![s] = "top"]
  /\ UNCHANGED <<now, waiter, closed, service, timing, tasks, tooMany, invoked>>

(* The loop has waited for start_waiter, which a stop sets as well. *)
Enter(s) ==
  /\ loop[s] = "await" /\ service[s] # "starting"
  /\ loop' = [loop EXCEPT ![s] = "top"]
  /\ UNCHANGED <<now, waiter, closed, service, timing, tasks, tooMany, invoked>>

(* The condition of the while loop fails: the loop goes on to await its tasks,
   and has no more use for its other variables.                            *)
Leave(s) ==
  /\ loop[s] = "top" /\ Closed
  /\ loop' = [loop EXCEPT ![s] = "drain"]
  /\ current' = [current EXCEPT ![s] = 0]
  /\ next' = [next EXCEPT ![s] = Unset]
  /\ prev' = [prev EXCEPT ![s] = Unset]
  /\ immediate' = [immediate EXCEPT ![s] = FALSE]
  /\ tooMany' = [tooMany EXCEPT ![s] = FALSE]
  /\ UNCHANGED <<now, waiter, closed, service, wake, held, tasks, invoked>>

(* current_time follows the wall clock, a second at a time when it is behind. *)
Caught(s) == IF Whole(current[s] + Second) < Whole(now) THEN current[s] + Second ELSE now

(* next_call_at, computed when there is none. *)
Due(s) == IF next[s] = Unset THEN NextCallAt(s, Caught(s)) ELSE next[s]

(* Mutant: the check for lost synchronisation is dropped. *)
RepeatsUnnoticed(s) == FALSE

(* The next call would repeat the last one. *)
Repeats(s) == next[s] = Unset /\ prev[s] # Unset /\ prev[s] = Due(s)

(* The loop waits a second and looks again. *)
LostSync(s) ==
  /\ loop[s] = "top" /\ ~Closed /\ ~immediate[s] /\ Repeats(s)
  /\ current' = [current EXCEPT ![s] = Caught(s)]
  /\ wake' = [wake EXCEPT ![s] = now + Second]
  /\ loop' = [loop EXCEPT ![s] = "unsynced"]
  /\ UNCHANGED <<now, waiter, closed, service, held, next, prev, immediate, tasks, tooMany, invoked>>

Resync(s) ==
  /\ loop[s] = "unsynced" /\ (now >= wake[s] \/ now = MaxTime)
  /\ loop' = [loop EXCEPT ![s] = "top"]
  /\ wake' = [wake EXCEPT ![s] = 0]
  /\ UNCHANGED <<now, waiter, closed, service, held, current, next, prev, immediate, tasks, tooMany, invoked>>

(* Mutant: a long wait is slept through in pieces of MaxSleep. *)
SleepThrough(s, due) ==
  IF due - now > Far * Second THEN MaxSleep * Second ELSE Whole(Caught(s) + Second) - now

(* The seconds to sleep: up to the next second, or a third of the way to a
   call that is far off, but at most MaxSleep (which the code shortens by a
   random part).  A sleep of two seconds or more also ends when the future
   that close_waiter holds at this moment gets its result.                 *)
SleepTicks(s, due) ==
  LET ahead == due - now
  IN IF ahead > Far * Second THEN Earlier(Whole(ahead \div Parts), MaxSleep * Second)
                             ELSE Whole(Caught(s) + Second) - now

Sleep(s) ==
  /\ loop[s] = "top" /\ ~Closed /\ ~immediate[s] /\ ~Repeats(s)
  /\ next' = [next EXCEPT ![s] = Due(s)]
  /\ current' = [current EXCEPT ![s] = Caught(s)]
  /\ wake' = [wake EXCEPT ![s] = now + SleepTicks(s, Due(s))]
  /\ held' = [held EXCEPT ![s] = IF SleepTicks(s, Due(s)) >= 2 * Second THEN waiter ELSE 0]
  /\ loop' = [loop EXCEPT ![s] = "sleep"]
  /\ UNCHANGED <<now, waiter, closed, service, prev, immediate, tasks, tooMany, invoked>>

(* The loop gets past its sleep, or runs at once for the first time. *)
Awake(s) ==
  \/ /\ loop[s] = "sleep"
     /\ now >= wake[s] \/ held[s] \in closed \/ now = MaxTime
  \/ loop[s] = "top" /\ ~Closed /\ immediate[s]

AfterSleep(s) == IF held[s] # 0 THEN now ELSE current[s]

Early(s) == loop[s] = "sleep" /\ next[s] > now

(* Not yet time: the loop goes round. *)
TooEarly(s) ==
  /\ Awake(s) /\ Early(s)
  /\ current' = [current EXCEPT ![s] = AfterSleep(s)]
  /\ held' = [held EXCEPT ![s] = 0]
  /\ loop' = [loop EXCEPT ![s] = "top"]
  /\ wake' = [wake EXCEPT ![s] = 0]
  /\ UNCHANGED <<now, waiter, closed, service, next, prev, immediate, tasks, tooMany, invoked>>

(* The services are stopping: the call is not made. *)
ClosedMeanwhile(s) ==
  /\ Awake(s) /\ ~Early(s) /\ Closed
  /\ immediate' = [immediate EXCEPT ![s] = FALSE]
  /\ current' = [current EXCEPT ![s] = AfterSleep(s)]
  /\ held' = [held EXCEPT ![s] = 0]
  /\ loop' = [loop EXCEPT ![s] = "top"]
  /\ wake' = [wake EXCEPT ![s] = 0]
  /\ UNCHANGED <<now, waiter, closed, service, next, prev, tasks, tooMany, invoked>>

(* Mutant: the limit is off by one. *)
CrowdedLater(s) == tasks[s] > Limit \/ (tooMany[s] /\ tasks[s] >= Resume)

(* The function has too many handlers under way, or had and has not yet got
   back below the lower mark.                                              *)
Crowded(s) == tasks[s] >= Limit \/ (tooMany[s] /\ tasks[s] >= Resume)

(* Too many handlers under way: this call is skipped, and after a second the
   loop looks for one that is Penalty seconds ahead.                       *)
Skip(s) ==
  /\ Awake(s) /\ ~Early(s) /\ ~Closed /\ Crowded(s)
  /\ immediate' = [immediate EXCEPT ![s] = FALSE]
  /\ prev' = [prev EXCEPT ![s] = next[s]]
  /\ next' = [next EXCEPT ![s] = Unset]
  /\ tooMany' = [tooMany EXCEPT ![s] = TRUE]
  /\ wake' = [wake EXCEPT ![s] = now + Second]
  /\ held' = [held EXCEPT ![s] = 0]
  /\ loop' = [loop EXCEPT ![s] = "crowded"]
  /\ UNCHANGED <<now, waiter, closed, service, current, tasks, invoked>>

LookAhead(s) ==
  /\ loop[s] = "crowded" /\ (now >= wake[s] \/ now = MaxTime)
  /\ current' = [current EXCEPT ![s] = now]
  /\ next' = [next EXCEPT ![s] = NextCallAt(s, now + Penalty * Second)]
  /\ loop' = [loop EXCEPT ![s] = "top"]
  /\ wake' = [wake EXCEPT ![s] = 0]
  /\ UNCHANGED <<now, waiter, closed, service, held, prev, immediate, tasks, tooMany, invoked>>

(* The handler is started in a task of its own. *)
Invoke(s) ==
  /\ Awake(s) /\ ~Early(s) /\ ~Closed /\ ~Crowded(s)
  /\ immediate' = [immediate EXCEPT ![s] = FALSE]
  /\ prev' = [prev EXCEPT ![s] = next[s]]
  /\ next' = [next EXCEPT ![s] = Unset]
  /\ tooMany' = [tooMany EXCEPT ![s] = FALSE]
  /\ current' = [current EXCEPT ![s] = now]
  /\ held' = [held EXCEPT ![s] = 0]
  /\ tasks' = [tasks EXCEPT ![s] = @ + 1]
  /\ invoked' = [invoked EXCEPT ![s] = Whole(IF next[s] = Unset THEN now ELSE next[s])]
  /\ loop' = [loop EXCEPT ![s] = "top"]
  /\ wake' = [wake EXCEPT ![s] = 0]
  /\ UNCHANGED <<now, waiter, closed, service>>

(* handler returns; what it raises is caught and logged. *)
Return(s) ==
  /\ tasks[s] > 0
  /\ tasks' = [tasks EXCEPT ![s] = @ - 1]
  /\ UNCHANGED <<now, waiter, closed, service, loop, timing, tooMany, invoked>>

(* Mutant: the loop ends without its tasks. *)
LeaveTasks(s) ==
  /\ loop[s] = "drain"
  /\ loop' = [loop EXCEPT ![s] = "done"]
  /\ UNCHANGED <<now, waiter, closed, service, timing, tasks, tooMany, invoked>>

(* All tasks are done: stop_waiter gets its result. *)
Drained(s) ==
  /\ loop[s] = "drain" /\ tasks[s] = 0
  /\ loop' = [loop EXCEPT ![s] = "done"]
  /\ UNCHANGED <<now, waiter, closed, service, timing, tasks, tooMany, invoked>>

-----------------------------------------------------------------------------
(* Time *)

Sleeping(s) == loop[s] \in {"sleep", "unsynced", "crowded"}

(* No sleeping loop is woken more than MaxLate ticks late. *)
Tick ==
  /\ now < MaxTime
  /\ \A s \in Services : loop[s] = "await" => now < current[s] + MaxStarting
  /\ \A s \in Services : Sleeping(s) => now < wake[s] + MaxLate
  /\ now' = now + 1
  /\ UNCHANGED <<waiter, closed, service, loop, timing, tasks, tooMany, invoked>>

(* A loop at the top of its while statement, where it does not await: it goes
   on before anything else happens.                                        *)
Top(s) ==
  loop[s] = "top" /\ (Leave(s) \/ LostSync(s) \/ Sleep(s) \/ Invoke(s))

(* A loop that awaits something. *)
Awaited(s) ==
  loop[s] # "top" /\ ( \/ Enter(s) \/ Resync(s) \/ TooEarly(s) \/ ClosedMeanwhile(s)
                      \/ Skip(s) \/ LookAhead(s) \/ Invoke(s) \/ Drained(s) )

Next ==
  \/ \E s \in Services : Top(s)
  \/ /\ \A s \in Services : loop[s] # "top"
     /\ \/ \E s \in Services : \/ Start(s) \/ Started(s) \/ Stop(s) \/ Stopped(s)
                               \/ Awaited(s) \/ Return(s)
        \/ Tick

Spec == Init /\ [][Next]_vars

(* The event loop runs every coroutine that can run, handlers return, and
   time passes.  Nothing makes a service start or stop.                    *)
Fairness ==
  /\ WF_vars(Tick)
  /\ \A s \in Services : WF_vars(Top(s)) /\ WF_vars(Awaited(s)) /\ WF_vars(Return(s)) /\ WF_vars(Stopped(s))

FairSpec == Spec /\ Fairness
-----------------------------------------------------------------------------
(* Properties *)

(* Type invariant.  The limit holds because the loop counts its tasks before
   it starts another.                                                      *)
TypeOK ==
  /\ now \in 0..MaxTime
  /\ waiter \in Nat /\ closed \subseteq 0..waiter
  /\ service \in [Services -> {"off", "starting", "running", "stopping", "stopped"}]
  /\ loop \in [Services -> {"off", "await", "top", "sleep", "unsynced", "crowded", "drain", "done"}]
  /\ wake \in [Services -> Int] /\ held \in [Services -> Nat]
  /\ current \in [Services -> Int] /\ next \in [Services -> Int]
  /\ prev \in [Services -> Int] /\ invoked \in [Services -> Int]
  /\ immediate \in [Services -> BOOLEAN] /\ tooMany \in [Services -> BOOLEAN]
  /\ tasks \in [Services -> 0..Limit]

(* A function is never called twice for the same time, nor for an earlier one
   after a later one: not when the loop catches up, not after calls were
   skipped, and not when next_call_at returns a time that has passed.      *)
InvocationsAdvance ==
  [][\A s \in Services : tasks'[s] > tasks[s] => invoked[s] < invoked'[s]]_vars

(* However the sleeps are cut, none ends after the call is due: a function is
   called no later than its loop was woken late, or than the search for its
   time started early.  Only the first call may make up for one that came
   due while the service was still starting.                               *)
InvokedOnTime ==
  [][\A s \in Services :
       tasks'[s] > tasks[s] => now - invoked'[s] < (1 + Behind[s]) * Second + MaxLate
                                             + (IF prev[s] = Unset THEN MaxStarting ELSE 0)]_vars

(* The handlers of a service that was stopped have returned, those included
   that its loop started after the stop began.                             *)
StoppedIsDrained == \A s \in Services : service[s] = "stopped" => tasks[s] = 0

(* When all services are told to stop, they do: a loop that sleeps on a future
   that has been replaced, or reads one put there by a service that was still
   starting, notices the stop all the same.                                *)
AllTold == \A s \in Services : service[s] \in {"stopping", "stopped"}
AllStop == AllTold ~> \A s \in Services : service[s] = "stopped"

(* Not so: what README.md says of scheduled functions, that they are "invoked
   on the specified time / interval", as long as the service runs.  The
   close_waiter is shared by the services of a process: a service that stops
   ends the loops of another one that is still starting.                   *)
RunningIsScheduled ==
  \A s \in Services : service[s] = "running" => loop[s] \notin {"drain", "done"}
=============================================================================
