----------------------- MODULE ServiceLifecycleProofs ------------------------
(* Safety of ServiceLifecycle for any units, in whatever order they are       *)
(* installed.                                                                 *)
EXTENDS ServiceLifecycle, SequenceTheorems, TLAPS

(* The inductive invariant.                                                   *)

TearingDown == phase \in {"teardown", "terminated"}

\* An AMQP connection is installed first and therefore innermost; only units
\* in the chain have work.
ChainShape ==
    /\ \A i \in DOMAIN chain : Transport[chain[i]] = "amqp" => i = Len(chain)
    /\ \A u \in Units : running[u] > 0 => InChain(u)

\* What has not happened yet before the teardown, and before the start-up is done.
NotYet ==
    /\ ~TearingDown =>
          pos = 1 /\ step = "enter" /\ closed = {} /\ hooks["stop"] = "no"
    /\ phase = "setup" => chain = <<>>
    /\ phase \in {"setup", "subscribe", "register", "initialize"} => startWaiter = {}
    /\ phase \in {"setup", "register", "initialize"} => ~failed

\* Where the teardown is when its step is not to enter the next stop function.
StepsInPlace ==
    /\ step = "drain" => pos \in DOMAIN chain /\ Transport[chain[pos]] \in closed
    /\ step = "await" => pos \in DOMAIN chain /\ "http" \in closed
    /\ step \in {"unwind", "returned"} \/ hooks["stop"] # "no" => pos = Len(chain) + 1
    /\ hooks["stop"] = "running" => step = "enter"
    /\ step = "raised" =>
          pos = Len(chain) + 1 \/ Transport[chain[pos]] = "amqp"
    /\ phase = "terminated" => step \in {"returned", "raised"}

\* The units that teardown has passed take no work, and have none left unless
\* nobody waited for it.
PassedUnitsStopped ==
    \A i \in DOMAIN chain : i < pos =>
        /\ Transport[chain[i]] \in closed
        /\ running[chain[i]] > 0 =>
              Transport[chain[i]] = "amqp" \/ (Transport[chain[i]] = "http" /\ forced)

\* A unit whose start_waiter is set belongs to a service that started, or to a
\* transport that is closed.
StartWaitersSet ==
    \A u \in Awaited :
        /\ running[u] > 0 => u \in startWaiter /\ hooks["started"] = "done"
        /\ u \in startWaiter => hooks["started"] = "done" \/ Transport[u] \in closed

\* The clients are closed by a start-up that failed, which lets no consumer
\* begin, or at the end of the teardown.
ClientsUnused ==
    connector = "closed" =>
        /\ failed \/ TearingDown
        /\ \A u \in Of("sqs") :
              running[u] = 0 /\ (InChain(u) /\ u \in startWaiter => "sqs" \in closed)

IInv ==
    /\ TypeOK /\ ChainShape /\ NotYet /\ StepsInPlace
    /\ PassedUnitsStopped /\ StartWaitersSet /\ ClientsUnused

-----------------------------------------------------------------------------

\* The chain after a unit has wrapped its stop function around it.
LEMMA Wrapped ==
  ASSUME NEW u \in Units, chain \in Seq(Units), chain' = <<u>> \o chain
  PROVE  /\ chain' \in Seq(Units)
         /\ Len(chain') = Len(chain) + 1
         /\ DOMAIN chain' = 1..(Len(chain) + 1)
         /\ chain'[1] = u
         /\ \A i \in 2..(Len(chain) + 1) : chain'[i] = chain[i - 1]
         /\ \A v \in Units : InChain(v) => InChain(v)'
         /\ InChain(u)'
<1>1. <<u>> \in Seq(Units) /\ Len(<<u>>) = 1 /\ <<u>>[1] = u
  OBVIOUS
<1>2. /\ chain' \in Seq(Units)
      /\ Len(chain') = 1 + Len(chain)
      /\ \A i \in 1..(1 + Len(chain)) :
            chain'[i] = IF i <= 1 THEN u ELSE chain[i - 1]
  BY <1>1, ConcatProperties
<1>3. Len(chain) \in Nat /\ DOMAIN chain = 1..Len(chain)
  OBVIOUS
<1>4. DOMAIN chain' = 1..(Len(chain) + 1)
  BY <1>2, <1>3
<1>5. chain'[1] = u /\ \A i \in 2..(Len(chain) + 1) : chain'[i] = chain[i - 1]
  BY <1>2, <1>3
<1>6. ASSUME NEW v \in Units, InChain(v) PROVE InChain(v)'
  <2>1. PICK i \in 1..Len(chain) : chain[i] = v
    BY <1>3, <1>6 DEF InChain
  <2>2. i + 1 \in DOMAIN chain' /\ chain'[i + 1] = v
    BY <1>3, <1>4, <1>5, <2>1
  <2> QED
    BY <2>2 DEF InChain
<1>7. InChain(u)'
  BY <1>3, <1>4, <1>5 DEF InChain
<1> QED
  BY <1>2, <1>3, <1>4, <1>5, <1>6, <1>7

\* The initial state satisfies the invariant.
LEMMA InitIInv == Init => IInv
<1> SUFFICES ASSUME Init PROVE IInv
  OBVIOUS
<1> USE LifecycleConstants DEF Init, Phases, Steps, Hooks, Transports, TearingDown
<1>1. TypeOK
  <2>1. chain \in Seq(Units) /\ Len(chain) = 0
    OBVIOUS
  <2>2. hooks \in [Hooks -> {"no", "running", "done"}]
    OBVIOUS
  <2>3. running \in [Units -> 0..MaxRunning]
    OBVIOUS
  <2>4. closeWaiter \in BOOLEAN /\ failed \in BOOLEAN /\ forced \in BOOLEAN
    OBVIOUS
  <2> QED
    BY <2>1, <2>2, <2>3, <2>4 DEF TypeOK
<1>2. ChainShape
  BY DEF ChainShape, Awaited, Of, InChain
<1>3. NotYet
  BY DEF NotYet, Awaited, Of, InChain
<1>4. StepsInPlace
  BY DEF StepsInPlace, Awaited, Of, InChain
<1>5. PassedUnitsStopped
  BY DEF PassedUnitsStopped, Awaited, Of, InChain
<1>6. StartWaitersSet
  BY DEF StartWaitersSet, Awaited, Of, InChain
<1>7. ClientsUnused
  BY DEF ClientsUnused, Awaited, Of, InChain
<1> QED
  BY <1>1, <1>2, <1>3, <1>4, <1>5, <1>6, <1>7 DEF IInv

\* The steps of the start-up keep it.
LEMMA StartUpIInv ==
  ASSUME IInv,
         \/ Signal \/ Subscribed \/ Register \/ Initialize
         \/ \E connected \in Connections : Setup(connected)
         \/ \E u \in Units : InstallStep(u)
  PROVE  IInv'
<1> USE LifecycleConstants
    DEF IInv, TypeOK, Phases, Steps, Hooks, Transports, ChainShape, NotYet,
        TearingDown, StepsInPlace, PassedUnitsStopped, StartWaitersSet, Awaited,
        ClientsUnused, Of, boot, teardown
<1>1. CASE Signal
  BY <1>1 DEF Signal, InChain
<1>2. CASE Subscribed
  BY <1>2 DEF Subscribed, InChain
<1>3. CASE Register
  <2>1. TypeOK'
    BY <1>3 DEF Register, Abort, InChain
  <2>2. ChainShape'
    BY <1>3 DEF Register, Abort, InChain
  <2>3. NotYet'
    BY <1>3 DEF Register, Abort, InChain
  <2>4. StepsInPlace'
    BY <1>3 DEF Register, Abort, InChain
  <2>5. PassedUnitsStopped'
    BY <1>3 DEF Register, Abort, InChain
  <2>6. StartWaitersSet'
    BY <1>3 DEF Register, Abort, InChain
  <2>7. ClientsUnused'
    BY <1>3 DEF Register, Abort, InChain
  <2> QED
    BY <2>1, <2>2, <2>3, <2>4, <2>5, <2>6, <2>7
<1>4. CASE Initialize
  <2>1. TypeOK'
    <3>1. hooks' \in [Hooks -> {"no", "running", "done"}]
      BY <1>4 DEF Initialize
    <3>2. startWaiter' \subseteq Units
      BY <1>4 DEF Initialize
    <3> QED
      BY <1>4, <3>1, <3>2 DEF Initialize, Abort
  <2>2. ChainShape'
    BY <1>4 DEF Initialize, Abort, InChain
  <2>3. NotYet'
    BY <1>4 DEF Initialize, Abort, InChain
  <2>4. StepsInPlace'
    BY <1>4 DEF Initialize, Abort, InChain
  <2>5. PassedUnitsStopped'
    BY <1>4 DEF Initialize, Abort, InChain
  <2>6. StartWaitersSet'
    BY <1>4 DEF Initialize, Abort, InChain
  <2>7. ClientsUnused'
    BY <1>4 DEF Initialize, Abort, InChain
  <2> QED
    BY <2>1, <2>2, <2>3, <2>4, <2>5, <2>6, <2>7
<1>5. ASSUME NEW connected \in Connections, Setup(connected) PROVE IInv'
  <2>1. connected = <<>> \/ \E u \in Units : Transport[u] = "amqp" /\ connected = <<u>>
    BY DEF Connections
  <2>2. connected \in Seq(Units) /\ \A i \in DOMAIN connected : i = Len(connected)
    <3>1. CASE connected = <<>>
      BY <3>1
    <3>2. ASSUME NEW u \in Units, connected = <<u>>
          PROVE  connected \in Seq(Units) /\ \A i \in DOMAIN connected : i = Len(connected)
      BY <3>2
    <3> QED
      BY <2>1, <3>1, <3>2
  <2>3. phase = "setup" /\ \A u \in Units : running[u] = 0
    BY <1>5 DEF Setup, InChain
  <2>4. /\ chain' = connected
        /\ UNCHANGED <<subscribing, startWaiter, closed, running, teardown, hooks>>
        /\ phase' \in {"ready", "subscribe"}
        /\ phase' = "subscribe" => UNCHANGED <<closeWaiter, failed>>
        /\ closeWaiter' \in BOOLEAN /\ failed' \in BOOLEAN
    BY <1>5 DEF Setup, Abort
  <2>5. Len(chain') \in Nat
    BY <2>2, <2>4
  <2> QED
    BY <2>2, <2>3, <2>4, <2>5 DEF InChain
<1>6. ASSUME NEW u \in Units, Install(u) PROVE IInv'
  <2>1. TypeOK'
    BY <1>6, Wrapped DEF Install
  <2>2. ChainShape'
    <3>1. CASE Transport[u] = "amqp"
      BY <1>6, <3>1 DEF Install, InChain
    <3>2. CASE Transport[u] # "amqp"
      <4>1. chain' = <<u>> \o chain /\ running' = running
        BY <1>6, <3>2 DEF Install
      <4>2. ASSUME NEW i \in DOMAIN chain', Transport[chain'[i]] = "amqp"
            PROVE  i = Len(chain')
        <5>1. i \in 2..(Len(chain) + 1)
          BY <3>2, <4>1, <4>2, Wrapped
        <5>2. i - 1 \in DOMAIN chain /\ chain'[i] = chain[i - 1]
          BY <4>1, <5>1, Wrapped
        <5>3. i - 1 = Len(chain)
          BY <4>2, <5>2
        <5> QED
          BY <4>1, <5>1, <5>3, Wrapped
      <4>3. \A v \in Units : running'[v] > 0 => InChain(v)'
        BY <4>1, Wrapped
      <4> QED
        BY <4>2, <4>3
    <3> QED
      BY <3>1, <3>2
  <2>3. NotYet'
    BY <1>6, Wrapped DEF Install
  <2>4. StepsInPlace'
    BY <1>6, Wrapped DEF Install
  <2>5. PassedUnitsStopped'
    BY <1>6, Wrapped DEF Install
  <2>6. StartWaitersSet'
    BY <1>6, Wrapped DEF Install
  <2>7. ClientsUnused'
    BY <1>6, Wrapped DEF Install
  <2> QED
    BY <2>1, <2>2, <2>3, <2>4, <2>5, <2>6, <2>7
<1>7. ASSUME NEW u \in Units, InstallFails(u) PROVE IInv'
  BY <1>7 DEF InstallFails, InChain
<1> QED
  BY <1>1, <1>2, <1>3, <1>4, <1>5, <1>6, <1>7 DEF InstallStep

\* Handlers that start or end keep it.
LEMMA HandlerIInv ==
  ASSUME IInv, NEW u \in Units, StartHandler(u) \/ EndHandler(u)
  PROVE  IInv'
<1> USE LifecycleConstants
    DEF IInv, TypeOK, Phases, Steps, Hooks, Transports, ChainShape, NotYet,
        TearingDown, StepsInPlace, PassedUnitsStopped, StartWaitersSet, Awaited,
        ClientsUnused, Of, boot, teardown, InChain
<1>1. CASE StartHandler(u)
  BY <1>1 DEF StartHandler, TakesWork
<1>2. CASE EndHandler(u)
  BY <1>2 DEF EndHandler
<1> QED
  BY <1>1, <1>2

\* The stop functions of the units keep it.
LEMMA StopIInv ==
  ASSUME IInv, NEW u \in Units, StopStep(u)
  PROVE  IInv'
<1> USE LifecycleConstants
    DEF IInv, TypeOK, Phases, Steps, Hooks, Transports, ChainShape, NotYet,
        TearingDown, StepsInPlace, PassedUnitsStopped, StartWaitersSet, Awaited,
        ClientsUnused, Of, boot, teardown, InChain, At, CallInner
<1>1. CASE CloseAwaited(u)
  <2>1. hooks["stop"] = "no" /\ pos # Len(chain) + 1
    BY <1>1 DEF CloseAwaited
  <2>2. TypeOK'
    BY <1>1, <2>1 DEF CloseAwaited
  <2>3. ChainShape'
    BY <1>1, <2>1 DEF CloseAwaited
  <2>4. NotYet'
    BY <1>1, <2>1 DEF CloseAwaited
  <2>5. StepsInPlace'
    BY <1>1, <2>1 DEF CloseAwaited
  <2>6. PassedUnitsStopped'
    BY <1>1, <2>1 DEF CloseAwaited
  <2>7. StartWaitersSet'
    BY <1>1, <2>1 DEF CloseAwaited
  <2>8. ClientsUnused'
    BY <1>1, <2>1 DEF CloseAwaited
  <2> QED
    BY <2>2, <2>3, <2>4, <2>5, <2>6, <2>7, <2>8
<1>2. CASE Drain(u)
  BY <1>2 DEF Drain
<1>3. CASE CloseHttp(u)
  BY <1>3 DEF CloseHttp
<1>4. CASE RefuseRequests(u)
  BY <1>4 DEF RefuseRequests
<1>5. CASE AwaitRequests(u)
  <2>1. TypeOK'
    BY <1>5 DEF AwaitRequests
  <2>2. ChainShape'
    BY <1>5 DEF AwaitRequests
  <2>3. NotYet'
    BY <1>5 DEF AwaitRequests
  <2>4. StepsInPlace'
    BY <1>5 DEF AwaitRequests
  <2>5. PassedUnitsStopped'
    <3>1. /\ chain[pos] = u /\ Transport[u] = "http" /\ "http" \in closed
          /\ pos' = pos + 1
          /\ UNCHANGED <<chain, closed, running>>
      BY <1>5 DEF AwaitRequests
    <3>2. forced => forced'
      BY <1>5 DEF AwaitRequests
    <3>3. running[u] > 0 => forced'
      BY <1>5 DEF AwaitRequests
    <3> QED
      BY <3>1, <3>2, <3>3
  <2>6. StartWaitersSet'
    BY <1>5 DEF AwaitRequests
  <2>7. ClientsUnused'
    BY <1>5 DEF AwaitRequests
  <2> QED
    BY <2>1, <2>2, <2>3, <2>4, <2>5, <2>6, <2>7
<1>6. CASE CloseAmqp(u)
  BY <1>6 DEF CloseAmqp
<1> QED
  BY <1>1, <1>2, <1>3, <1>4, <1>5, <1>6 DEF StopStep

\* The container's own steps of the stop keep it.
LEMMA ContainerStopIInv ==
  ASSUME IInv,
         \/ Interrupt \/ StoppingHookEnds \/ Deregister
         \/ StopHook \/ StopHookEnds \/ Unwind \/ Terminate
  PROVE  IInv'
<1> USE LifecycleConstants
    DEF IInv, TypeOK, Phases, Steps, Hooks, Transports, ChainShape, NotYet,
        TearingDown, StepsInPlace, PassedUnitsStopped, StartWaitersSet, Awaited,
        ClientsUnused, Of, boot, teardown, InChain
<1>1. CASE Interrupt
  BY <1>1 DEF Interrupt
<1>2. CASE StoppingHookEnds
  BY <1>2 DEF StoppingHookEnds
<1>3. CASE Deregister
  BY <1>3 DEF Deregister
<1>4. CASE StopHook
  BY <1>4 DEF StopHook
<1>5. CASE StopHookEnds
  <2>1. TypeOK'
    BY <1>5 DEF StopHookEnds
  <2>2. ChainShape'
    BY <1>5 DEF StopHookEnds
  <2>3. NotYet'
    BY <1>5 DEF StopHookEnds
  <2>4. StepsInPlace'
    BY <1>5 DEF StopHookEnds
  <2>5. PassedUnitsStopped'
    BY <1>5 DEF StopHookEnds
  <2>6. StartWaitersSet'
    BY <1>5 DEF StopHookEnds
  <2>7. ClientsUnused'
    BY <1>5 DEF StopHookEnds
  <2> QED
    BY <2>1, <2>2, <2>3, <2>4, <2>5, <2>6, <2>7
<1>6. CASE Unwind
  BY <1>6 DEF Unwind
<1>7. CASE Terminate
  BY <1>7 DEF Terminate
<1> QED
  BY <1>1, <1>2, <1>3, <1>4, <1>5, <1>6, <1>7

\* Every step, and stuttering, keeps the invariant.
LEMMA NextIInv == IInv /\ [Next]_vars => IInv'
<1> SUFFICES ASSUME IInv, [Next]_vars PROVE IInv'
  OBVIOUS
<1>1. CASE UNCHANGED vars
  BY <1>1
     DEF vars, boot, teardown, IInv, TypeOK, ChainShape, NotYet, TearingDown,
         StepsInPlace, PassedUnitsStopped, StartWaitersSet, ClientsUnused, InChain
<1>2. CASE Next
  BY <1>2, StartUpIInv, HandlerIInv, StopIInv, ContainerStopIInv
     DEF Next, ContainerStep
<1> QED
  BY <1>1, <1>2

\* The invariant holds in every state.
LEMMA Invariance == Spec => []IInv
BY InitIInv, NextIInv, PTL DEF Spec

-----------------------------------------------------------------------------

\* Every variable of the lifecycle of a service stays within its type.
THEOREM TypeCorrect == Spec => []TypeOK
<1>1. IInv => TypeOK
  BY DEF IInv
<1> QED
  BY <1>1, Invariance, PTL

\* The user's _stop_service runs after the handlers of consumers and scheduled
\* functions, and after the requests that the grace period allows for, whatever
\* the number of units and the order in which they wrapped each other.
THEOREM StopHookRunsLast == Spec => []StopHookAfterHandlers
<1>1. IInv => StopHookAfterHandlers
  BY DEF IInv, TypeOK, StepsInPlace, PassedUnitsStopped, StopHookAfterHandlers,
         InChain
<1> QED
  BY <1>1, Invariance, PTL

\* Consumers and scheduled functions wait for the user's _started_service.
THEOREM StartedFirst == Spec => []HandlersWaitForStarted
<1>1. IInv => HandlersWaitForStarted
  BY DEF IInv, StartWaitersSet, HandlersWaitForStarted
<1> QED
  BY <1>1, Invariance, PTL

\* The clients are closed when no SQS handler needs them any more.
THEOREM ClientsOutliveHandlers == Spec => []ClientsClosedLast
<1>1. IInv => ClientsClosedLast
  BY DEF IInv, ClientsUnused, ClientsClosedLast, TakesWork, Awaited, Of
<1> QED
  BY <1>1, Invariance, PTL

\* A terminated container leaves no consumer and no scheduled function at work.
THEOREM QuietAfterTermination == Spec => []TerminatedIsQuiet
<1>1. ASSUME IInv PROVE TerminatedIsQuiet
  <2> SUFFICES ASSUME phase = "terminated", NEW u \in Awaited
               PROVE  running[u] = 0 /\ ~TakesWork(u)
    BY DEF TerminatedIsQuiet
  <2>1. CASE InChain(u)
    <3>1. PICK i \in DOMAIN chain : chain[i] = u
      BY <2>1 DEF InChain
    <3>2. i < pos
      BY <1>1, <3>1
         DEF IInv, TypeOK, ChainShape, StepsInPlace, Awaited
    <3> QED
      BY <1>1, <3>1, <3>2
         DEF IInv, TypeOK, PassedUnitsStopped, Awaited, TakesWork
  <2>2. CASE ~InChain(u)
    BY <1>1, <2>2 DEF IInv, TypeOK, ChainShape, Awaited, TakesWork
  <2> QED
    BY <2>1, <2>2
<1> QED
  BY <1>1, Invariance, PTL
=============================================================================
