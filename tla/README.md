# Verification of tomodachi

`tomodachi` is a Python framework for microservices on `asyncio`: a class with
decorated methods becomes a service whose methods are called for HTTP requests,
SNS/SQS and AMQP messages and schedules. This directory holds TLA+ models of
its concurrent parts, the TLC configurations that check them on small
instances, and proofs, checked by TLAPS, of their most important properties for
instances of any size.

Source paths below are relative to `tomodachi/`; `transport/aws_sns_sqs.py` is
shortened to `aws_sns_sqs.py`, and so on.

## The system

| component | state | operations | hard behaviours | what makes it correct |
|---|---|---|---|---|
| SQS consumer (`aws_sns_sqs.py` 897-1177, 1867-1914, 2710-3041) | close, start and stop waiters, the batch in hand, remembered uuids | receive, dispatch, handle, ignore duplicates, delete with retries, stop | redelivery while handling, crashes, failing deletions, a message that makes the loop abandon its batch, closing in mid-batch, FIFO order | no message lost, duplicates ignored but not for ever, order of FIFO groups, drained before stopped |
| SQS set-up and re-subscription (2237-2706, 2829-2853, 3041-3241) | the queues, policies and subscriptions at AWS, `_aws_sns_sqs_subscribed`, the class's `close_waiter` | create queues and topics, read and set attributes, subscribe, re-subscribe after a queue disappeared | several processes set up the same queues, requests fail half-way, the shared `close_waiter` is replaced while others wait on it | queues end up as the decorators say, deleted queues come back, a stop still ends |
| topic and queue caches (1340-1563, 2014-2110) | dicts, a lock and a condition variable | look up, create, notify, reset | lost wake-ups, two locks taken in turn, a lock that `close()` replaces while it is held, failures | one creator per lock at a time, nobody waits for ever |
| publish, `send_message`, `delete_message` (368-640, 1690-1914) | the attempt | requests with retries | answers that do not come, cancellations, clients that are closed under the call | every call ends after a bounded number of attempts |
| ClientConnector (`helpers/aiobotocore_connector.py`) | clients, locks per alias, `close_waiter` | create, close, reconnect, use | locks replaced while held, clients closed while in use, a cancellation that is swallowed | no closed client is handed out, none is forgotten open but where a cancellation or an overtaken drop loses it |
| AMQP (`amqp.py`) | connection, channel, remembered uuids | connect, consume, ack, nack, stop | acknowledging after the channel is gone or replaced, several services on one class, duplicates | no message lost, every delivery answered |
| scheduler (`schedule.py`) | waiters, the list of tasks, next call time | sleep, start tasks, drain | task limit with hysteresis, late wake-ups, a `close_waiter` shared by all services | calls on time and once, at most 20 tasks, drained before stopped |
| crontab (`helpers/crontab.py`) | none | parse, search the next moment | last days, lengths of months, fields that carry over | due when called, nothing skipped but what is named |
| HTTP and websockets (`http.py`) | active requests, connections, `_http_accept_new_requests`, open websockets | accept, serve, stop with a grace period | keep-alive connections, requests longer than the grace period, websockets that open during the stop | requests end or are reported, close functions called |
| ServiceContainer (`container.py`) | phase, `_close_waiter`, hooks | start, register, initialise, wait, interrupt, deregister, tear down | failure or signal at every step, hooks that raise | always terminates, hooks in order |
| ServiceLauncher, watcher, importer (`launcher.py`, `watcher.py`, `importer.py`) | `restart_services`, waiters, signal handlers, what is known of the files | run, stop, restart on file changes, retry | a signal or a change at any point of the restart loop | a signal ends the process, a change is loaded, failures are reported |
| invoker, middleware, envelopes, options | none or constant | pure functions | - | results |
| logging, OpenTelemetry, discovery, cli, credentials | configuration | I/O and conversion | - | - |

How they interact: the launcher runs one container per service file on one
event loop. The container calls the decorated methods once with a start
keyword, which registers each with its transport and yields one start-up
coroutine per transport. When a transport starts a unit (a consumer, a
schedule loop, the server, the connection), it replaces `_stop_service` of the
service object by a function that stops the unit and then calls the function
it replaced; consumers and schedule loops wrap `_started_service` in the same
way to open their `start_waiter`. At the end the container calls the outermost
`_stop_service`, and the chain is walked inwards down to the user's own. The
consumers, publishers and deletions share the clients of one ClientConnector;
handler tasks share the caches of topics and queues. `ServiceLifecycle` composes the
transports at this level; the modules of the transports look into the units.

## Modules

| module | models |
|---|---|
| `AtLeastOnce` | abstract: what a queue transport promises. A message may be handled any number of times and is removed only once it was handled or can never be. |
| `SqsConsumer` | the receive loop, the handler and the deletion of processes that compete for one SQS queue |
| `SqsDedup` | `SqsConsumer` with a history of when each uuid was last invoked |
| `SqsSubscription` | the set-up of queues and subscriptions by several processes, re-subscription after a deletion, and the stop beside it |
| `TopicCache` | `get_topic_arn`, `create_topic` and `_get_queue_url` |
| `ClientConnector` | the clients of one alias: creation, reconnecting, closing |
| `AwsCalls` | `ClientConnector` composed with the calls that publish, send and delete, and their retries |
| `AmqpConsumer` | connecting, consuming, publishing over a new connection, handling, acknowledging and stopping of the services of one process |
| `Scheduler` | the schedule loops of the services of one process |
| `Crontab` | notations, the search for the next moment, and the moments at which a function is called |
| `HttpServer` | connections, requests, websockets and the stages of the server's stop |
| `ServiceLifecycle` | `run_until_complete` of the container composed with the start, stop and work of the transports' units |
| `ServiceLauncher` | the restart loop of the launcher with its containers, signals and the watcher |
| `*Proofs` | theorems and their proofs: `SqsConsumerProofs` for `SqsConsumer` and `SqsDedup`, `SqsSetupProofs` for `SqsSubscription` and `TopicCache`, `SchedulerProofs` for `Scheduler` and `Crontab`, the others for `AwsCalls`, `AmqpConsumer`, `HttpServer`, `ServiceLifecycle`, `ServiceLauncher` |
| `MC*` | instances for TLC |

Every module also has a few definitions commented "Mutant of ..." or "Mutant: ...": the
named definition, or the one that follows, as a plausible bug would change it, used to
confirm that a property notices that bug. No specification refers to them. A definition
commented "Not so" states a promise of the documentation that the code does not keep;
see "Where code and documentation disagree".

### SqsConsumer

A step runs from one `await` to the next. `loop[c]` is the position of the
receive loop of process `c`: before its `start_waiter`, in `receive_message`,
decoding a batch, waiting for the batch, or out of its `while`. `slot[c][m]`
is the position of the handler task of message `m`: decoded but without a task
(`raw`), parsing, in the decorated function, in `delete_message`, ended.
`tries` and `stamp` are the retry counter and the age of the entries of
`_aws_sns_sqs_received_messages`. `settled` is a
history variable. `queue`, `hidden` and `holder` are SQS as this code uses it.
`aws_sns_sqs_current_tasks` is left out: all it decides is whether a line is logged (3007),
and every set-up sets it to 0 (3061-3064), whatever handlers are at work.

What can come out of parsing is the `Kind` of a message: body not JSON (deleted
by the loop itself), body that is JSON but no object (`Abandon`: the loop fails at it, gives up
the whole batch before any of its handlers starts, and never deletes it), discarded by the handler, handled without a uuid (also
when the envelope yields `False`), or handled and de-duplicated. Times are ages
in ticks that saturate at `Window` (60 s), so there is no clock to bound.
`delete_message` repeats calls that time out or lose the connection and raises
any other error at once; both may happen before or after SQS deleted the
message. In `InternalServiceError` a uuid that is no longer remembered raises
`KeyError` in the `except` clause, which ends the task as well.

### SqsSubscription

`thread[p][w]` is a program of AWS requests, one per step, with what its answers told
it: `Container` is the start of process `p`, thread `i` the re-subscription that the
receive loop of function `i` began when its queue was gone. `queue[q]` has the attributes
that the code compares (`Differs`) and sets; `subscription[t][q]` the filter. A function without
a topic only gets its queue (3167): nothing of it is read, set or subscribed. A visibility timeout of 0
counts as none on either side of the comparison (2552, 2577). What was
read is used requests later, while the other process sets the same queue. `held[p][i]`
says which `close_waiter` a loop waits for: the class's current one, one that was
replaced, or one that had its result before. Somebody deletes queues (`MaxDeletions`) and
requests fail (`MaxFailures`); `abandoned` remembers that one was given up.

### TopicCache

Locks and condition variable as in `asyncio`: a waiter that was notified takes
the condition's lock again, then the other lock, with no second look at the
dict in between. Places where the code awaits a lock are places of `pc`.
Topics share one condition and at any time one lock, as in the code; but `connector.close()`
drops the lock from the connector's dict, held or not, and later calls get a new one
(`ReplaceLock`), so `lock[n]` is the holder of the n-th lock and `mine[p]` the one a call
began with. The condition stays. The same code
serves queue URLs. `Reset` is the receive loop emptying the dict when its queue
is gone.

### ClientConnector and AwsCalls

A client is a number; `open` are those whose connections are open, `current` the entry of
the dict, `closing` what `close()` took out and has yet to close. The lock of the alias is
replaced by `close()`, so `gen[p]` is the generation of the lock that coroutine `p` holds or
waits for. `known` and `recent` are the half minute in which a creation returns the client
that is there. `default` are the clients made without region and endpoint of
the options. `AwsCalls` adds the attempts: a request is answered, refused, lost (before or
after it reached AWS), or fails since its client was closed under it. What is sent, deduplication
ids included, is built before the loop of attempts and is the same in each. A call may be cancelled
at its request (`Cancelled`), where it waits for a lock or for a new client
(`CancelledWaiting`), and in the second before a replaced client is closed (`CancelledReplacing`),
where the code swallows the cancellation and the old client stays open (186-193).

### AmqpConsumer

`cls.protocol` and `cls.channel` belong to the class, hence to all services of
the process; each service subscribes on a channel of its own (`sub[s]`).
`protocol` and `channel` say whose connection the class holds: that of a
service, or a later one (`"other"`) that a publish has made. `hooked[s]` says
whether `connect` has wrapped the `_stop_service` of `s`, which it does only when
the class has no channel at that moment. `slot[m]` and `tag[m]` are the position of
the handler of a message and the `delivery_tag` it was called with; "acked" is
the time between the acknowledgement inside `routine_func` and the return of the
outermost middleware, in which an exception sends a second acknowledgement.
`known[s]` is `_amqp_received_messages`; `old[s]` are its entries of more than a
minute, which only the purge looks at.

The broker is external: `out[m]` is the tag under which `m` is outstanding on the
channel of its service. Tags count up per channel, a closed channel returns what was
outstanding, and an unknown tag closes the channel it was sent on. A
lost consumer does not subscribe again, as in the code; a restart of the process does.

### Scheduler

`now` counts ticks, `Second` of them to a second, so that the code's `int()` of times and
the fractions it cuts off are there. `wake[s]` is when the sleep of a loop ends; the loop
runs up to `MaxLate` ticks after it. `waiter` numbers the futures that `cls.close_waiter`
has held, `closed` those with a result, and `held[s]` is the one a loop sleeps on:
each service that starts replaces it. `Every[s]` is the interval (or, for `Aligned`
functions, the grid) of a function, and `Behind[s]` how far in the past its search may start
(the `second_modifier` of timestamps). Numbers of the code are constants: 20 and 15 tasks
(`Limit`, `Resume`), 10 seconds (`Penalty`), a third of the time left (`Parts`), and so on.

### Crontab

The calendar is a parameter, so that TLC can look at every moment of a small one: hours of 2
minutes, days of 3 hours, weeks of 3 days, years of 4 months of 3 to 6 days. A field
of a notation is a set of parts with their ends, steps and "L"; its text is left out.
`Candidates` is one round of the loop of `calculate_date`, `Starts` the moments
`get_next_datetime` searches from, `IsDue` the meaning of a notation that both are compared
with. The round for a midnight does not depend on where the search began, so
`OfMidnights` is computed once. A behaviour is a schedule loop that asks, calls, and asks
again a second later.

### HttpServer

A connection carries one request at a time: `at[c]` is the position of its task, from
reading the body through routing, the user's function or the websocket's callbacks, and
the `@http_error` functions, to the response. `active`, `sockets` and `current` are the
lists and the counter of the context. `stop` is the position of `stop_service`; `waited`,
`left` and `slept` are its times, in seconds.

### ServiceLifecycle

`chain` is the chain of stop functions, outermost first; `pos` and `step` are
the place teardown has reached in it. The units of a transport start one after
the other, in any order, and transports start concurrently, except that AMQP
connects (and installs its stop function) before. `running[u]` counts batches,
invocations or requests. `closed` holds the transports whose `close_waiter` is
set, or which refuse work. Failures: set-up, each unit, registration,
`_started_service`, the AMQP close, the user's `_stop_service`.

### ServiceLauncher

`pc` is the position of the launcher in its loop, which alternates between plain code and
`run_until_complete`. `pending` are the callbacks through which a signal reaches
`_stop_services`: they run only while the event loop does, and what is left over runs in a
later round. `disk` is the code on disk, `seen` what the watcher knows of it, `loaded` what
the containers run. A container starts and returns as `ServiceLifecycle` says it does.

## Runs

| run | instance | properties |
|---|---|---|
| `sqs_pair` | 2 processes, a FIFO group of 5 messages, one of each kind, 2 attempts, 1 crash | `NoMessageLost`, `StoppedIsDrained`, `FifoOrder` |
| `sqs_alone` | 1 process, 2 messages and an unusable one, batches of 2, window of 2, 2 attempts, purge above 1 uuid, fair tasks and a world that helps | `ImplementsAtLeastOnce`, `StopTerminates`, `StartsSpaced`, `EveryMessageLeaves` |
| `subscription` | 2 processes with one function, or 1 process with two (one for a pattern, on a queue named by its ARN; or one without a topic, which consumes the other's dead-letter queue); 1 deletion, 1 failure; fair | `Configured`, `Repaired`, `StopTerminates` |
| `aws_calls` | a publication beside a `send_message` or a deletion, 3 clients, 1 `close()`, 2 failures or cancellations, refused tokens; fair | `ClosedIsNotHandedOut`, `NothingForgotten`, `AllEnd` |
| `topics_shared` | 3 coroutines, 2 topics, 1 `close()`; fair | `OneCreator`, `NoLostWakeup`, `EveryCallReturns` |
| `amqp_kinds` | 1 service, 2 copies, an unusable and a malformed message, prefetch 2, 3 deliveries per channel | `ImplementsAtLeastOnce`, `OneHandlerPerUuid`, `EveryDeliveryAnswered` |
| `lifecycle` | 2 consumers, a schedule, an HTTP server, an AMQP connection, fair | `StopHookAfterHandlers`, `HandlersWaitForStarted`, `ClientsClosedLast`, `TerminatedIsQuiet`, `Terminates` |
| `scheduler` | 2 services: a function every second that is also called at once, and one with a timestamp; 2 tasks, 9 seconds; fair | `TypeOK`, `StoppedIsDrained`, `InvocationsAdvance`, `InvokedOnTime`, `AllStop` |
| `http` | 2 connections, 2 requests each, functions for 503 and 500, grace period of 2 s; fair | `StopsAfterRoutes`, `CloseFunctionCalled`, `StopEndsKeepAlive`, `StopTerminates` |
| `launcher` | 2 service files, 2 saves, with and without the watcher; fair | `UnaskedEndIsAnError`, `ProductionSignalTerminates`, `NoticedIsLoaded` |
| `crontab` | 22 notations (19 of them valid), 3 years, from every moment | `InvokedWhenDue`, `NoneSkipped` |
| `crontab_minutely` | the same; violation expected | `EveryMinute` |

What the properties add to each other: `TypeOK` of `Scheduler` holds the limit of tasks. The
type invariants of the other modules are not in a run; those of the modules with
proofs are theorems.

Why the bounds are enough. Two processes are what a redelivery
needs: one holder that is late, one that is early, with the visibility timeout
(1 tick) ending anywhere in between. In `sqs_alone` a uuid comes twice as a redelivery; `InvocationsSpaced`
proves `StartsSpaced` for any messages, two with the same uuid in a batch too. A window of 1 or 2 ticks gives each of "fresh",
"old" and "longer than the window". One crash reaches every point of the
loop; a second starts from a state like the initial one, with the queue the
first one left. The group has a predecessor, a current message and successors.
`CacheLimit = 1` makes the purge happen at the second uuid,
where the code has 100000; a larger limit only delays it. `Attempts` is 1 or 2 where the code has 4: one is a last attempt, two are a
repetition and a last one.
`MaxRunning = 1` since properties of the lifecycle ask only whether any work is under way.
`MaxTag = 3` allows for a message, one that triggers a purge and a copy in the life of a
process, and a restart begins anew; `Prefetch = 2` lets a copy arrive beside the first.
One publish connects at a time; a second would find the same class variables.
Three coroutines in `TopicCache` are a creator and two waiters, the notified one and another,
of whom one may come back as a newcomer; one `close()` makes a second lock. The safety properties are
proved for any number of either.
In `AwsCalls` the interesting overlaps are pairwise: a creation or a closing and a call, of
which either may be the connector's own; two failures let both calls
be disturbed, or one of them in two of its attempts. One `close()` reaches every
point of either call. In `SqsSubscription` one failure or deletion at any point meets a set-up
by another process at any point; further ones begin from a queue that is missing or
differs, which the initial states have already. `Scheduler` has `Second = 2`, since the code
cuts times to seconds and what is cut off is half a second or nothing; `MaxSleep`, `Far` and
`Parts` are small in proportion to the time modelled, so that near and far, cut and uncut
sleeps all occur. Two requests per connection are one that keeps it alive and one that
follows. Two saves are one that is noticed and one that overtakes its restart. The calendar
of `Crontab` has months of 3, 4 and 6 days, one of which is a day longer in a leap year, and a week of 3
days that fits into the shortest, as in the real one, so that a weekday occurs once or twice in a month.
Three years, the last of which is a leap year, let a search for the leap day cross a year that has none.

`CHECK_DEADLOCK FALSE` appears where the system really stops: all consumers
closed, the service terminated, every call returned, no moment left in the calendar.
`TopicCache` is checked for deadlock.

Symmetry is used between processes, in `sqs_pair`, which checks invariants only.

## Fairness

- `SqsDedup` (`TasksRun`): tasks that are ready run, a decorated function that was invoked
  ends (the code waits for it without limit), and the calls to AWS have
  timeouts; the long poll is cancelled when the close_waiter is set, so
  `ReceiveFails` is fair while closing.
- `EveryMessageLeaves` assumes in addition a world that helps now and then (`WorldRuns`), as
  strong fairness: SQS delivers what it owes, and if it can do so in batches without an unusable
  message, it now and then does; a retried function ends without an
  internal service error once, a deletion is confirmed once, and time passes. What an unusable
  message holds up (`HeldUp`: itself, and in a FIFO queue what follows it) is excused.
- `ServiceLifecycle`: start-ups, hooks and handlers end; each unit's steps and
  the container's own are weakly fair. Requests and messages need not come.
- `TopicCache`: `asyncio` wakes those that await a lock in the order they came
  and those that wait on a condition likewise, hence strong fairness; a call to
  AWS ends.
- `AwsCalls`: coroutines run and requests have timeouts; a lock is handed on. Nothing is
  assumed about whether requests succeed.
- `SqsSubscription`: the set-up goes on and loops that can run do. Deletions and failures
  are not fair; they are bounded.
- `Scheduler`: time passes, a loop whose sleep is over runs, functions return.
- `HttpServer`: only `stop_service` and time. Clients and the user's functions may take for ever.
- `ServiceLauncher`: the launcher and the event loop run what can run, and containers start
  and, once told to stop, return (which is what `ServiceLifecycle` shows).

## Where code and documentation disagree

`crontab_minutely` is the disagreement that a run shows: `get_next_datetime` does not search
from the beginning of the last day of a month when asked on the day before, nor from the
first of December when asked in November (`crontab.py` 326 and 329). `* * * * *`, asked at
2020-01-30 23:59:01, gives 2020-02-01 00:00; asked at 2020-11-29 23:59:01, 2021-01-01 00:00.
`README.md:1201` promises a call "once every minute".

`NoneSkipped` names everything that a search may miss, and `NothingElseSkipped` proves that there is
nothing else. Besides those starts it is what one round makes of a notation (each exception
is needed: without it TLC finds the run's instance violated, and the dates are what the function returns):

- `LeapDayAhead`: fields are replaced from the minute to the year, and a date on the way that does not
  exist ends the round (192-201). A day that only the year of the notation has is then passed over for
  a later month: `0 0 29 2,3 * 2024`, asked on 2022-05-05, gives 2024-03-29 and not 2024-02-29. So do
  last days, `0 0 L 2,3 * 2024`.
- `DaysAndLastWeekdays`: a notation is due on its days and on its weekdays, and the search ends with
  the first round that finds either (264). A last weekday is found only by a round from
  the week it is in: `0 0 30 * L5`, asked on 2023-10-01, gives 2023-10-30 and not friday 2023-10-27.

The following are stated in the modules under "Not so" and can be seen by adding them
to the configuration in brackets:

- `README.md:666` promises that no new scheduled handlers are started during
  termination. They are, until the stop function of the scheduler gets its turn in
  the chain, which may be after another transport has drained (`NoNewScheduledHandlers`,
  `MCServiceLifecycle_orders.cfg`).
- `README.md:665` promises that AMQP handlers are awaited. The stop function of the
  transport closes the connection and goes on (`AmqpHandlersAwaited`, the same).
- `README.md:1112` says of the AMQP decorator that the method is "called whenever a AMQP /
  RabbitMQ message is received", and the command line takes several service files for one
  process. A handler acknowledges on `cls.channel`, the channel of the service that
  connected last. Tags count per channel, so that the first message of one
  service, handled, removes the first message of the other one, which may just have
  reached its handler and fail there with an internal service error, or be lost with
  the process (`HandledBeforeRemoved`, `MCAmqpConsumer_kinds.cfg` with two services and a
  message for each). `ImplementsAtLeastOnce` holds, and is proved, for one service per process.
- `README.md:970` says that a `filter_policy` "will be applied on the SNS subscription". Of
  the topics that a pattern matches only the first one gets it, since the first
  subscription that succeeds with attributes clears `update_attributes` (2649) for the
  others (`FilterApplied`, `MCSqsSubscription.cfg` with `Deployments <- MCFiltered`).
- `README.md:665` promises that consumers stop receiving. A re-subscription that ends after
  the stop began replaces the `close_waiter` with one nobody resolves (`ConsumersStop`,
  `MCSqsSubscription.cfg`); `StopTerminates` says when a stop does end.
- `README.md:660` says that a signal begins the graceful termination. With the file watcher a
  change that is noticed during the stop starts the services again (`SignalTerminates`,
  `MCServiceLauncher.cfg`); without it a signal always ends the process.
- `README.md:1166` says that a scheduled function is invoked on its interval. A service that
  stops ends the loop of another one of its process that is still starting
  (`RunningIsScheduled`, `MCScheduler.cfg`).
- `README.md:1900` says that requests are made in the configured region. `close()` forgets the
  settings that were recorded for the alias, so that a coroutine that is about to make a client
  meanwhile makes one without region and endpoint (`RequestsAsConfigured`, `MCAwsCalls.cfg`).
- A stamp of a uuid is set when handling starts. A handling that takes longer
  than the minute is followed by another one of the same uuid, right after it
  or beside it, although the comment at `aws_sns_sqs.py:961` speaks of messages
  "handled within last 60s". What does hold is `StartsSpaced`.
- Since Python 3.12 `server.wait_closed()` (`http.py:1472`) waits for the clients to hang up, before any grace
  period begins: with `WaitsForClients = TRUE` in `MCHttpServer.cfg` `StopTerminates` fails.

Seen while modelling, and part of the models as they are: two first calls at a time make two
clients, the second of which closes the first under its user (`aiobotocore_connector.py`
154); a cancelled publish is repeated (1729); a reconnect after `close()` raises; a
`close_client` that `close()` overtakes may leave a client open (247, `OvertakenDrop`); of a
wildcard's list of topics only the last page counts (2428); a failed reading of attributes is
swallowed (2567); a `visibility_timeout` of 0 is never applied, and a queue that has 0 keeps it
(2552, 2577); a message whose body is JSON but no object makes the loop abandon its batch (2890, 2949) and is
delivered again until its retention ends or a redrive policy removes it, and in a FIFO queue nothing behind it is
handled; a task that is cancelled in the second before it closes a replaced client (186-193) goes on
and leaves the client open; `close()` replaces the locks of the topic and queue caches with those of the clients (271), so that
two coroutines may create the same topic or queue at a time; loops that a
re-subscription creates wait for a `start_waiter` that nobody sets; a step on a single
value of a crontab field covers the whole field ("20/15" includes 5), "?" counts as a
restriction, a range that is the wrong way round is accepted, and an "L" in one element of a list applies to all;
static files are served by a server that refuses everything else.

## Proofs

All proofs assume the named assumptions of the modules: `SqsConstants`
(messages are a finite set of naturals, the numbers are naturals, batch and
attempts positive), `NoOneIsNoConsumer`, `NobodyIsNoCaller`, `LifecycleConstants`,
`AmqpConstants` (as `SqsConstants`, every message for one service),
`ChannelsOfServices` (names that are no services), `BoundsAreNatural` and `KindsOfCall`,
`HttpAssumption` (finitely many connections, numbers are naturals), `SchedulerAssumption`,
`CrontabAssumption` (a calendar of years, months, days, hours and minutes with a week that fits into
every month, and notations of well-formed parts),
`SubscriptionAssumption` (deployments, pages and attributes are of their types) and
`MarkersAssumption` (what marks an absent value is no value) of `SqsSubscription`,
and `LauncherAssumption` (there is a container).

`SqsConsumerProofs` proves `TypeOK`, `NoMessageLost`, `StoppedIsDrained`,
`FifoOrder` and the refinement of `AtLeastOnce` from one inductive invariant.
`NoMessageLost` alone is not inductive: a deletion that is under way must be
known to concern a message that was handled or never can be
(`DeleteJustified`), and for `StoppedIsDrained` the tasks that can exist at each
position of the loop (`SlotsOfLoop`). `FifoOrder` rests on `TakenInOrder`:
whatever is in a handler's hands has no predecessor left in the queue, which follows
from the limit of one message (`AtMostOne`, `OldestFirst`), and with
`NoMessageLost` a message that has left the queue was settled. The step proof is split
into the steps of the loop and of the handler; `DeletionEffect` sums up what the three
outcomes of a deletion may change, and serves the invariant and the refinement.
`InvocationsSpaced` proves `StartsSpaced` of `SqsDedup`: while an invocation is less than
a window ago its uuid is remembered, and its stamp is the age of the invocation (`StampsTell`).
That holds at every step of the consumer, which `SqsDedup` only adds a history to (`DedupIsConsumer`).

`ServiceLifecycleProofs` proves `TypeOK` and all safety properties of the `lifecycle`
run, for any units of any transports (assumption `LifecycleConstants`), from one
invariant. `ChainShape` says which units the chain of stop functions consists of,
each once; `NotYet` and `StepsInPlace` relate the phase of the container to the hooks
and to the position in the chain; `PassedUnitsStopped` says that whatever the teardown
has passed is closed and has nothing at work, which is what every one of the properties
comes down to at the end of the chain; `StartWaitersSet` and `ClientsUnused` connect
the start hook and the shared clients to the units that wait and run.

`AmqpConsumerProofs` proves `TypeOK`, `OneHandlerPerUuid` and, for a process with one
service, the refinement of `AtLeastOnce` (assumptions `AmqpConstants` and
`ChannelsOfServices`). The refinement rests on `TagsDistinct`: no handler holds the tag of
another outstanding message of its service, so an answer reaches its own message or
none, whatever channel it is sent on. `Fewer` sums up what every step but a delivery and
a restart does to tags. `OneHandlerPerUuid` is
strengthened to `CopiesApart`: the uuid of a handler at work is remembered or was purged
(also between acknowledgement and return), and the old entries are among the remembered.
`AllAnswered` proves `EveryDeliveryAnswered`, for any number of services. Its invariant follows a
delivery through the handler. `AtHand`: what is outstanding is so under the tag that its
handler holds, on a channel that consumes, and is answered once the handler has acknowledged it on the
channel of its own service. `KnownByItself`: a message without copies that is still in the queue and
whose uuid is remembered, and not purged, is being handled. `Excused` restates the exceptions of
the property in these terms.

`SqsSetupProofs` proves `TypeOK` of `SqsSubscription`, in any deployment, and `Configured`, in any of
which that can hold (`Consistent`): the functions of a queue are the same in all processes, no dead-letter
queue is the queue of a function that has a topic, no wanted visibility timeout is 0, a pattern matches some topic and
its topics are all on the last page, and a filter policy is for one topic. Each part is
needed, because what the code drops is listed above. Nothing is assumed about the number of processes, functions,
deletions or about what AWS had before. `Configured` speaks of the moment when no set-up is at work; the
invariant `Covered` says what is true meanwhile: whatever is not as a decorator
wants it, some set-up is still going to put right (`WillSet`, `WillSubscribe`). A set-up will set an attribute if it has
not read the queue's attributes yet, or if what it read differs there from what it wants.
Between reading and setting the queue may change: another process may set it, but only to what
both want, or it may be deleted and made anew, and then the set-up that made it covers it,
for it has yet to read it. `Sound` says what a set-up knows at each place of its program,
`Advance` how a step moves it on, `Owned` whose set-up it is. `StaysCoverer` shows that
a set-up stops covering only by reading or setting, `ReadSuffices` and `SettingSuffices` that these
two do what they must.

For `TopicCache` it proves `CacheTypeOK`, `OneCreator` and `NoLostWakeup`. The
strengthening says who holds each of the locks (`LocksHeld`, which `LockTaken` keeps where one is taken) and that a coroutine that
waits for a topic already in the dict is about to be notified together with all
others (`FoundIsNotified`). The second part is needed where a creator fails and
notifies a single coroutine that then finds its topic and returns in silence.

`AwsCallsProofs` proves every safety property of the `aws_calls` run, for any number of
coroutines, clients, failures and calls of `close()`. The steps are split into those that are
`Quiet`, which neither begin nor end the closing of a client, and the few that are not.
The strengthening `Retired` says that what a coroutine closes is no longer in the dict: the
client it replaces is not the current one, since the dict only ever gets newer ones, and the one
it dropped is closed. `ClosedIsNotHandedOut` and, as a property of steps, `NothingForgotten`
follow; none of it uses the locks, which is what makes it hold although
`close()` replaces them. The client that an interrupted replacement leaves open is the exception
that `NothingForgotten` names, beside the entry that an overtaken drop empties.

`HttpServerProofs` proves the types with the counter of tasks and all safety properties of the `http` run. `StagesInPlace` says for
each stage of the stop what it knows of the tasks: up to the gathering every task is in
`_http_active_requests`; while they are awaited every route is among the gathered ones, for no
route begins once nothing is accepted; and afterwards there is none, unless the wait was cut
short. `CallsInPlace` follows the close function through the places of a websocket. `StepMoves` sums up
the eleven steps of a handler as moves from one place to another.

`SchedulerProofs` proves `TypeOK`, hence the limit of tasks, and `StoppedIsDrained`
(`Settled`: a loop that has ended has no task left, and a stopped service has no loop left).
`CallsAdvance` proves `InvocationsAdvance` for any interval, under `SearchesAhead`: a search starts at most
one interval in the past, and a function that is also called at once, on the grid of whole intervals,
does not search in the past. `InOrder` relates the last call to the time that the loop waits for and to the
one it has looked ahead for; `Multiples`, `NextCallIsAhead` and `ComputedIsLater` are the arithmetic of the
grid of calls. The assumption is needed: TLC finds
`InvocationsAdvance` violated with `Behind` 7 and `Every` 5 for `stamp`.
`CallsOnTime` proves `InvokedOnTime` under `SearchesAhead` and `WokenInTime`, that no sleep ends more than a
second late. `AllOnTime` relates the end of each sleep, the time waited for and the clock at
every place of the loop: a sleep ends no later than the call (`SleepEnds`, for each way in which the code cuts
a sleep), and a loop that repeats its search, since it woke late, may find the last call again,
but its own time moves on with every wait (`Lagging`), so that the call
it finds in the end is not long overdue (`CaughtInTime`, `DueInTime`). `WokenInTime` is needed: TLC finds `InvokedOnTime` violated
when loops wake later than a second and `Behind` is above 1, since every
repetition of the search adds its own delay.

The same module proves both properties of `Crontab`, for every notation and for any calendar in which
a week fits into a month. `InOrderOfTime` shows that `Order` compares dates field by field, and
`LeastNatural` (from the well-foundedness of the naturals) that the minima of the search exist, so that
`Least` and `Earliest` are what their names say. `CalledWhenDue` then follows a date from
`ByDay` and `ByWeekday` (`TakenFrom`: it has the first value of every field that is not behind the
start) through a search (`CalculateFacts`) to the next call (`NextFacts`); the invariant `CronInv` says that the
next call is what was found for the clock. `NothingElseSkipped` goes the other way. Given a moment t that is due and ahead,
`SomeSearchReaches` picks the search that starts closest to it, on the day, in the month or in the year of t or
just after the clock, or finds one of the exceptions. `RoundReaches` is the heart: the first round that finds anything, if it is no later than
the day of t, finds t or something before it. Otherwise its fields would
have to pass over t, and then an earlier round, of the day of t in the month or year where the search then was
(`SameDayRound`) or a week before what was found (`RoundByDay`, for which `WeeksRepeat` counts the days of a
week), would have found something and ended the search. The two exceptions above are where that argument
fails; they were found by it.

`ServiceLauncherProofs` proves `UnaskedEndIsAnError`. `Undisturbed` describes a process without the watcher that nobody asked to
stop: no callback is pending, so only a failure stops a container and sets the exit code, and the
loop goes round again only from the places where `restart_services` is true.

### Only model-checked

- That each exception of `NoneSkipped` is needed, and the violation of `EveryMinute`.
- Liveness, which the prover does not do: `StopTerminates` (three modules), `EveryMessageLeaves`,
  `EveryCallReturns`, `Terminates`, `AllEnd`, `AllStop`, `Repaired`, `ProductionSignalTerminates`,
  `NoticedIsLoaded`.

## Not modelled

- Invoker decorators and the middleware chain: they compose functions when a class is defined
  and have no state of their own. What a middleware that raises late does is in the handlers of
  `SqsConsumer` and `AmqpConsumer`; one that never calls its function is not.
- Envelopes, options, validation, the helpers for dicts, logging, OpenTelemetry, credentials, the
  command line: conversion and I/O without concurrent state.
- Names, ARNs, policies as text; dead-letter queues beyond the redrive attribute that the set-up
  sets; AMQP queue and exchange declarations (idempotent requests).
- Contents of messages, headers, bodies, access logs. The parts of `http.py` that build and
  parse them make up most of what the map leaves out of that file.
- Time zones and daylight saving time in the crontab and the scheduler. What they can do to the search is
  the constant `Behind`.
- Errors between the recording of a uuid and the invocation, and the cancellation of callers
  while they wait inside the caches, while they await the `close_waiter` of the connector, or inside `close()`.
- An AMQP body that is not UTF-8: it raises before its handler (`amqp.py:660`) and stays outstanding,
  like the "unusable" messages of `AmqpConsumer`.
- With `queue_name_prefix`, a look-up of an unprefixed queue also caches the prefixed name
  (`aws_sns_sqs.py`, `_get_queue_url`); `TopicCache` has one name for a topic.

## Plan

1. Proofs: a refinement of an abstract lock by `ClientConnector`.
2. Modelling: the middleware chain and the composition of invokers as algorithms compared
   with their definitions; cancellation inside the caches.
