--------------------------- MODULE ServiceLifecycle --------------------------
(* The life of one service in ServiceContainer.run_until_complete, composed    *)
(* with what the transports hook into it.  Every SQS consumer, every scheduled *)
(* function, the HTTP server and the AMQP connection is a unit.  Starting up,  *)
(* a unit wraps the _stop_service it finds on the instance with its own; the   *)
(* wrappers form a chain, the unit installed last outermost and the user's     *)
(* _stop_service innermost, and tearing down walks it from the outside in.     *)
(* Each wrapper stops its own transport only when its turn comes.              *)
EXTENDS Integers, Sequences, FiniteSets

CONSTANTS
    Units,       \* what is wrapped around _stop_service
    Transport,   \* Units -> the transport of each
    MaxRunning   \* bound on the work a unit has under way at a time

Transports == {"sqs", "schedule", "http", "amqp"}

ASSUME LifecycleConstants ==
    /\ Transport \in [Units -> Transports]
    /\ MaxRunning \in Nat \ {0}

VARIABLES
    phase,        \* where run_until_complete is
    closeWaiter,  \* has the container's _close_waiter been set
    chain,        \* units whose stop function is installed, outermost first
    subscribing,  \* units whose start-up is under way
    failed,       \* has the start-up failed (SERVICE_EXIT_CODE is 1)
    startWaiter,  \* units whose start_waiter has been set
    closed,       \* transports that take no new work
    running,      \* the work under way in each unit: received batches of a
                  \* consumer, invocations, requests
    pos,          \* the position in the chain teardown has reached
    step,         \* the step inside the stop function at pos
    forced,       \* has the HTTP server given up waiting for requests
    connector,    \* the clients of the SQS transport
    hooks         \* the user's _started, _stopping and _stop_service

boot == <<chain, subscribing, failed>>
teardown == <<pos, step, forced, connector>>
vars == <<phase, closeWaiter, boot, startWaiter, closed, running, teardown, hooks>>

Phases == {"setup", "subscribe", "register", "initialize", "ready",
           "interrupt", "deregister", "teardown", "terminated"}
Steps  == {"enter", "drain", "grace", "await", "unwind", "returned", "raised"}
Hooks  == {"started", "stopping", "stop"}

\* Units that wait for the start_waiter and are awaited when they stop.
Awaited == {u \in Units : Transport[u] \in {"sqs", "schedule"}}
Of(t) == {u \in Units : Transport[u] = t}
InChain(u) == \E i \in DOMAIN chain : chain[i] = u

Init ==
    /\ phase = "setup"
    /\ closeWaiter = FALSE
    /\ chain = <<>>
    /\ subscribing = Units
    /\ failed = FALSE
    /\ startWaiter = {}
    /\ closed = {}
    /\ running = [u \in Units |-> 0]
    /\ pos = 1
    /\ step = "enter"
    /\ forced = FALSE
    /\ connector = "open"
    /\ hooks = [h \in Hooks |-> "no"]

-----------------------------------------------------------------------------
(* Starting up.                                                               *)

\* SIGINT, SIGTERM or tomodachi.exit: stop_service of the container.
Signal ==
    /\ ~closeWaiter
    /\ closeWaiter' = TRUE
    /\ UNCHANGED <<phase, boot, startWaiter, closed, running, teardown, hooks>>

\* The start-up fails: the container stops itself and only waits for that.
Abort ==
    /\ failed' = TRUE
    /\ closeWaiter' = TRUE
    /\ phase' = "ready"

\* _start_service runs while the AMQP transport connects, which installs its
\* stop function.  Unless one of them raises, the other transports start.
Setup(connected) ==
    /\ phase = "setup"
    /\ chain' = connected
    /\ \/ Abort
       \/ /\ Len(connected) = Cardinality(Of("amqp"))
          /\ phase' = "subscribe"
          /\ UNCHANGED <<closeWaiter, failed>>
    /\ UNCHANGED <<subscribing, startWaiter, closed, running, teardown, hooks>>

\* A unit has started and installed its stop function.
Install(u) ==
    /\ phase = "subscribe"
    /\ u \in subscribing
    /\ subscribing' = subscribing \ {u}
    /\ chain' = IF Transport[u] = "amqp" THEN chain ELSE <<u>> \o chain
    /\ UNCHANGED <<phase, closeWaiter, failed, startWaiter, closed, running,
                   teardown, hooks>>

\* A unit cannot start: a port in use, a queue that cannot be created, a bad
\* schedule.  The units of a transport start one after the other, so the rest of
\* them do not start either; schedules are validated before the first of them
\* starts, and a failing SQS start closes the clients.  The container waits for
\* the other transports before it looks at the failures.
InstallFails(u) ==
    /\ phase = "subscribe"
    /\ u \in subscribing
    /\ Transport[u] = "schedule" => Of("schedule") \subseteq subscribing
    /\ subscribing' = subscribing \ Of(Transport[u])
    /\ failed' = TRUE
    /\ connector' = IF Transport[u] = "sqs" THEN "closed" ELSE connector
    /\ UNCHANGED <<phase, closeWaiter, chain, startWaiter, closed, running,
                   pos, step, forced, hooks>>

\* Mutant of Subscribed: a failed start-up goes unnoticed.
SubscribedRegardless ==
    /\ phase = "subscribe"
    /\ subscribing = {}
    /\ phase' = IF closeWaiter THEN "ready" ELSE "register"
    /\ UNCHANGED <<closeWaiter, boot, startWaiter, closed, running, teardown, hooks>>

\* All units have started or failed.
Subscribed ==
    /\ phase = "subscribe"
    /\ subscribing = {}
    /\ closeWaiter' = (closeWaiter \/ failed)
    /\ phase' = IF closeWaiter' THEN "ready" ELSE "register"
    /\ UNCHANGED <<boot, startWaiter, closed, running, teardown, hooks>>

\* The service is registered with its discovery services.
Register ==
    /\ phase = "register"
    /\ \/ Abort
       \/ phase' = "initialize" /\ UNCHANGED <<closeWaiter, failed>>
    /\ UNCHANGED <<chain, subscribing, startWaiter, closed, running, teardown, hooks>>

\* The chain of _started_service functions: the user's, then each unit's, which
\* sets its start_waiter.  When the user's raises none of the others runs.
Initialize ==
    /\ phase = "initialize"
    /\ \/ /\ hooks' = [hooks EXCEPT !["started"] = "done"]
          /\ startWaiter' = {u \in Awaited : InChain(u)}
          /\ phase' = "ready"
          /\ UNCHANGED <<closeWaiter, failed>>
       \/ Abort /\ UNCHANGED <<hooks, startWaiter>>
    /\ UNCHANGED <<chain, subscribing, closed, running, teardown>>

-----------------------------------------------------------------------------
(* Handlers at work.                                                          *)

\* May a unit start a handler?  Consumers and scheduled functions wait for their
\* start_waiter; the HTTP server and the AMQP consumers are at work as soon as
\* they are installed.
TakesWork(u) ==
    /\ phase # "setup" /\ u \notin subscribing /\ InChain(u)
    /\ Transport[u] \notin closed
    /\ u \in Awaited => u \in startWaiter

StartHandler(u) ==
    /\ TakesWork(u)
    /\ running[u] < MaxRunning
    /\ running' = [running EXCEPT ![u] = @ + 1]
    /\ UNCHANGED <<phase, closeWaiter, boot, startWaiter, closed, teardown, hooks>>

EndHandler(u) ==
    /\ running[u] > 0
    /\ running' = [running EXCEPT ![u] = @ - 1]
    /\ UNCHANGED <<phase, closeWaiter, boot, startWaiter, closed, teardown, hooks>>

-----------------------------------------------------------------------------
(* Stopping: wait_stopped returns, _stopping_service is started and left to    *)
(* run, the service is deregistered, and the chain is walked.                  *)

Interrupt ==
    /\ phase = "ready" /\ closeWaiter
    /\ phase' = "interrupt"
    /\ hooks' = [hooks EXCEPT !["stopping"] = "running"]
    /\ UNCHANGED <<closeWaiter, boot, startWaiter, closed, running, teardown>>

StoppingHookEnds ==
    /\ hooks["stopping"] = "running"
    /\ hooks' = [hooks EXCEPT !["stopping"] = "done"]
    /\ UNCHANGED <<phase, closeWaiter, boot, startWaiter, closed, running, teardown>>

\* The discovery services are told; what they raise is logged.
Deregister ==
    /\ phase \in {"interrupt", "deregister"}
    /\ phase' = IF phase = "interrupt" THEN "deregister" ELSE "teardown"
    /\ UNCHANGED <<closeWaiter, boot, startWaiter, closed, running, teardown, hooks>>

\* The stop function under way is the one of unit u, at step s.
At(u, s) ==
    /\ phase = "teardown"
    /\ pos \in DOMAIN chain /\ chain[pos] = u
    /\ step = s

CallInner == pos' = pos + 1 /\ step' = "enter"

\* Mutant of CloseAwaited: the start_waiter is set, the close_waiter is not.
CloseNothing(u) ==
    /\ u \in Awaited
    /\ At(u, "enter")
    /\ startWaiter' = startWaiter \cup {u}
    /\ step' = "drain"
    /\ UNCHANGED <<phase, closeWaiter, boot, closed, running, pos, forced,
                   connector, hooks>>

\* Mutant of CloseAwaited: the start_waiter is left alone.
CloseUnstarted(u) ==
    /\ u \in Awaited
    /\ At(u, "enter")
    /\ closed' = closed \cup {Transport[u]}
    /\ step' = "drain"
    /\ UNCHANGED <<phase, closeWaiter, boot, startWaiter, running, pos, forced,
                   connector, hooks>>

\* Consumers and scheduled functions: the close_waiter is shared by all units of
\* the transport; each sets its own start_waiter, without which its loop would
\* never end, and waits for its loop and handlers before it goes on.
CloseAwaited(u) ==
    /\ u \in Awaited
    /\ At(u, "enter")
    /\ closed' = closed \cup {Transport[u]}
    /\ startWaiter' = startWaiter \cup {u}
    /\ step' = "drain"
    /\ UNCHANGED <<phase, closeWaiter, boot, running, pos, forced, connector, hooks>>

\* Mutant of Drain: the stop_waiter is not awaited.
DrainNothing(u) ==
    /\ u \in Awaited
    /\ At(u, "drain")
    /\ CallInner
    /\ UNCHANGED <<phase, closeWaiter, boot, startWaiter, closed, running, forced,
                   connector, hooks>>

\* The stop_waiter is set: the loop has ended, and its last handlers with it.
Drain(u) ==
    /\ u \in Awaited
    /\ At(u, "drain")
    /\ u \in startWaiter
    /\ running[u] = 0
    /\ CallInner
    /\ UNCHANGED <<phase, closeWaiter, boot, startWaiter, closed, running, forced,
                   connector, hooks>>

\* The HTTP server closes its socket; requests on kept-alive connections are
\* still served, for as long as the grace period lasts.
CloseHttp(u) ==
    /\ u \in Of("http")
    /\ At(u, "enter")
    /\ step' = "grace"
    /\ UNCHANGED <<phase, closeWaiter, boot, startWaiter, closed, running, pos,
                   forced, connector, hooks>>

RefuseRequests(u) ==
    /\ u \in Of("http")
    /\ At(u, "grace")
    /\ closed' = closed \cup {"http"}
    /\ step' = "await"
    /\ UNCHANGED <<phase, closeWaiter, boot, startWaiter, running, pos, forced,
                   connector, hooks>>

\* The requests under way have ended, or the grace period has.
AwaitRequests(u) ==
    /\ u \in Of("http")
    /\ At(u, "await")
    /\ forced' = (forced \/ running[u] > 0)
    /\ CallInner
    /\ UNCHANGED <<phase, closeWaiter, boot, startWaiter, closed, running,
                   connector, hooks>>

\* The AMQP connection is closed without a look at the handlers.  Closing a
\* connection that was lost raises, and nothing inside is called.
CloseAmqp(u) ==
    /\ u \in Of("amqp")
    /\ At(u, "enter")
    /\ closed' = closed \cup {"amqp"}
    /\ CallInner \/ (step' = "raised" /\ UNCHANGED pos)
    /\ UNCHANGED <<phase, closeWaiter, boot, startWaiter, running, forced,
                   connector, hooks>>

\* The user's _stop_service.
StopHook ==
    /\ phase = "teardown" /\ pos = Len(chain) + 1 /\ step = "enter"
    /\ hooks["stop"] = "no"
    /\ hooks' = [hooks EXCEPT !["stop"] = "running"]
    /\ UNCHANGED <<phase, closeWaiter, boot, startWaiter, closed, running, teardown>>

StopHookEnds ==
    /\ hooks["stop"] = "running"
    /\ hooks' = [hooks EXCEPT !["stop"] = "done"]
    /\ step' \in {"unwind", "raised"}
    /\ UNCHANGED <<phase, closeWaiter, boot, startWaiter, closed, running, pos,
                   forced, connector>>

\* The calls return; the SQS unit that set the close_waiter, the outermost one,
\* closes the clients.
Unwind ==
    /\ step = "unwind"
    /\ connector' = IF \E u \in Of("sqs") : InChain(u) THEN "closed" ELSE connector
    /\ step' = "returned"
    /\ UNCHANGED <<phase, closeWaiter, boot, startWaiter, closed, running, pos,
                   forced, hooks>>

\* Mutant of Terminate: only _stopping_service is awaited.
TerminateEarly ==
    /\ phase = "teardown"
    /\ hooks["stopping"] = "done"
    /\ phase' = "terminated"
    /\ UNCHANGED <<closeWaiter, boot, startWaiter, closed, running, teardown, hooks>>

\* _stopping_service and the chain are done, whatever they raised.
Terminate ==
    /\ phase = "teardown"
    /\ hooks["stopping"] = "done"
    /\ step \in {"returned", "raised"}
    /\ phase' = "terminated"
    /\ UNCHANGED <<closeWaiter, boot, startWaiter, closed, running, teardown, hooks>>

-----------------------------------------------------------------------------

\* The possible results of connecting to AMQP before the other transports start.
Connections == {<<>>} \cup {<<u>> : u \in Of("amqp")}

ContainerStep ==
    \/ \E connected \in Connections : Setup(connected)
    \/ Subscribed \/ Register \/ Initialize
    \/ Interrupt \/ StoppingHookEnds \/ Deregister
    \/ StopHook \/ StopHookEnds \/ Unwind \/ Terminate

StopStep(u) ==
    \/ CloseAwaited(u) \/ Drain(u)
    \/ CloseHttp(u) \/ RefuseRequests(u) \/ AwaitRequests(u)
    \/ CloseAmqp(u)

InstallStep(u) == Install(u) \/ InstallFails(u)

Next ==
    \/ Signal
    \/ ContainerStep
    \/ \E u \in Units : InstallStep(u) \/ StopStep(u) \/ StartHandler(u) \/ EndHandler(u)

Spec == Init /\ [][Next]_vars

\* The event loop runs what is ready; hooks, start-ups and handlers end.
FairSpec ==
    /\ Spec
    /\ WF_vars(ContainerStep)
    /\ WF_vars(StoppingHookEnds)
    /\ \A u \in Units : /\ WF_vars(InstallStep(u))
                        /\ WF_vars(StopStep(u))
                        /\ WF_vars(EndHandler(u))

-----------------------------------------------------------------------------
(* Properties.                                                                *)

\* Every variable stays within its type.
TypeOK ==
    /\ phase \in Phases
    /\ closeWaiter \in BOOLEAN /\ failed \in BOOLEAN /\ forced \in BOOLEAN
    /\ chain \in Seq(Units)
    /\ subscribing \subseteq Units
    /\ startWaiter \subseteq Units
    /\ closed \subseteq Transports
    /\ running \in [Units -> 0..MaxRunning]
    /\ pos \in 1..(Len(chain) + 1)
    /\ step \in Steps
    /\ connector \in {"open", "closed"}
    /\ hooks \in [Hooks -> {"no", "running", "done"}]

\* The README on _stop_service: it "is called after HTTP server, scheduled
\* functions and consumers have gracefully stopped", so that it may close what
\* their handlers use.  It holds for SQS consumers and scheduled functions in
\* whatever order the units were installed, and for HTTP requests unless the
\* grace period ran out.
StopHookAfterHandlers ==
    hooks["stop"] # "no" =>
        \A u \in Units : InChain(u) /\ running[u] > 0 =>
            Transport[u] = "amqp" \/ (Transport[u] = "http" /\ forced)

\* The consumers and scheduled functions invoke no handler before the user's
\* _started_service has succeeded, not even in a service that is stopped while
\* it starts, whose start_waiters are set by the teardown.
HandlersWaitForStarted ==
    \A u \in Awaited : running[u] > 0 => hooks["started"] = "done"

\* The clients of the SQS transport, which the handlers use to delete messages
\* and to publish, are closed only when no SQS handler is under way and none
\* can start any more.
ClientsClosedLast ==
    connector = "closed" =>
        \A u \in Of("sqs") : running[u] = 0 /\ ~TakesWork(u)

\* When the container has terminated no consumer and no scheduled function is at
\* work, also when the start-up failed half-way or a stop function raised.
TerminatedIsQuiet ==
    phase = "terminated" =>
        \A u \in Awaited : running[u] = 0 /\ ~TakesWork(u)

\* A service that is told to stop terminates.
Terminates == closeWaiter ~> phase = "terminated"

\* Not so: the README on termination, "No new scheduled handlers will be started."
\* It is only asked for once the first stop function of the chain has begun.
NoNewScheduledHandlers ==
    [][\A u \in Of("schedule") :
          phase = "teardown" /\ (pos > 1 \/ step # "enter")
              => running'[u] <= running[u]]_vars

\* Not so: the README on termination, AMQP "handlers already processing a received
\* message will be awaited to return their result" before _stop_service is called.
AmqpHandlersAwaited ==
    hooks["stop"] # "no" => \A u \in Of("amqp") : running[u] = 0

=============================================================================
