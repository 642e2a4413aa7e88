-------------------------- MODULE HttpServerProofs ---------------------------
(* Safety of HttpServer for any number of connections, any error handlers, any *)
(* limits of keep-alive and of the grace period.                               *)
EXTENDS HttpServer, FiniteSetTheorems, TLAPS

Places == Routes \cup {"idle", "reading", "handling", "fallback", "done"}
Stages == {"serving", "closing", "closed", "sockets", "draining", "waiting", "shutdown", "stopped"}

\* The types, without the counter of tasks.
Typed ==
  /\ enabled \in BOOLEAN /\ keepalive \in BOOLEAN /\ accepting \in BOOLEAN /\ expired \in BOOLEAN
  /\ conn \in [Connections -> {"none", "open", "closed"}]
  /\ served \in [Connections -> 0..MaxRequests]
  /\ at \in [Connections -> Places]
  /\ active \subseteq Connections /\ sockets \subseteq Connections
  /\ closing \subseteq Connections /\ awaited \subseteq Connections
  /\ closes \in [Connections -> BOOLEAN]
  /\ hasClose \in [Connections -> BOOLEAN] /\ closeCalls \in [Connections -> 0..1]
  /\ stop \in Stages
  /\ waited \in Nat /\ left \in Int /\ slept \in 0..1

Busy == {c \in Connections : at[c] # "idle"}
Routing == {c \in Connections : at[c] \in Routes}

Counted == current = Cardinality(Busy)

\* How often the close function of a websocket was called, by the place of its
\* task: there is one only between opening and response.
CallsInPlace ==
  \A c \in Connections :
    IF hasClose[c]
    THEN \/ at[c] \in {"listening", "receiving"} /\ closeCalls[c] = 0
         \/ at[c] \in {"ending", "done"} /\ closeCalls[c] = 1
    ELSE closeCalls[c] = 0

\* What each stage of the stop knows of the tasks: all are known until they are
\* gathered, routes are among the gathered ones while those are awaited, and
\* there are none afterwards unless the wait was cut short.
StagesInPlace ==
  /\ stop # "serving" => ~keepalive
  /\ stop \notin {"shutdown", "stopped"} => Busy \subseteq active
  /\ stop \in {"waiting", "shutdown", "stopped"} => ~accepting
  /\ stop = "waiting" => Routing \subseteq awaited
  /\ stop \in {"shutdown", "stopped"} /\ ~expired => Routing = {}

IndInv == Typed /\ Counted /\ CallsInPlace /\ StagesInPlace

LEMMA InitInv == Init => IndInv
<1> SUFFICES ASSUME Init PROVE IndInv
  OBVIOUS
<1>1. Busy = {} /\ Routing = {}
  BY DEF Init, Busy, Routing, Routes
<1>2. Typed
  <2> USE HttpAssumption DEF Init
  <2>1. /\ conn \in [Connections -> {"none", "open", "closed"}]
        /\ served \in [Connections -> 0..MaxRequests]
        /\ at \in [Connections -> Places]
    BY DEF Places
  <2>2. /\ closes \in [Connections -> BOOLEAN]
        /\ hasClose \in [Connections -> BOOLEAN] /\ closeCalls \in [Connections -> 0..1]
    OBVIOUS
  <2>3. enabled \in BOOLEAN /\ keepalive \in BOOLEAN /\ accepting \in BOOLEAN /\ expired \in BOOLEAN
    BY Zenon
  <2>4. /\ stop \in Stages /\ waited \in Nat /\ left \in Int /\ slept \in 0..1
    BY DEF Stages
  <2>5. /\ active \subseteq Connections /\ sockets \subseteq Connections
        /\ closing \subseteq Connections /\ awaited \subseteq Connections
    OBVIOUS
  <2> QED
    BY <2>1, <2>2, <2>3, <2>4, <2>5 DEF Typed
<1>3. Counted
  BY <1>1, FS_EmptySet DEF Init, Counted
<1>4. CallsInPlace /\ StagesInPlace
  BY <1>1 DEF Init, CallsInPlace, StagesInPlace
<1> QED
  BY <1>2, <1>3, <1>4 DEF IndInv

-----------------------------------------------------------------------------
(* Types.                                                                     *)

LEMMA TypeStep == Typed /\ CallsInPlace /\ [Next]_vars => Typed'
<1> SUFFICES ASSUME Typed, CallsInPlace, [Next]_vars PROVE Typed'
  OBVIOUS
<1> USE HttpAssumption DEF Typed, Places, Stages, Routes, stopping, task, callbacks, clients
<1>1. ASSUME NEW c \in Connections, Connect(c) PROVE Typed'
  BY <1>1 DEF Connect
<1>2. ASSUME NEW c \in Connections, Disconnect(c) PROVE Typed'
  BY <1>2 DEF Disconnect, Forget
<1>3. ASSUME NEW c \in Connections, HandleError(c) PROVE Typed'
  BY <1>3 DEF HandleError, Forget
<1>4. ASSUME NEW c \in Connections, Request(c) PROVE Typed'
  BY <1>4 DEF Request
<1>5. ASSUME NEW c \in Connections, Unreadable(c) PROVE Typed'
  BY <1>5 DEF Unreadable, Finish, Done, KeepsAlive
<1>6. ASSUME NEW c \in Connections, Dispatch(c) PROVE Typed'
  BY <1>6 DEF Dispatch, Fail, Finish, Done, KeepsAlive
<1>7. ASSUME NEW c \in Connections, StaticFile(c) PROVE Typed'
  BY <1>7 DEF StaticFile, Fail, Finish, Done, KeepsAlive
<1>8. ASSUME NEW c \in Connections, Route(c) PROVE Typed'
  BY <1>8 DEF Route, Unencodable, Crash, Fail, Finish, Done, KeepsAlive
<1>9. ASSUME NEW c \in Connections, Handle(c) PROVE Typed'
  BY <1>9 DEF Handle, Crash, Finish, Done, KeepsAlive
<1>10. ASSUME NEW c \in Connections, Fallback(c) PROVE Typed'
  BY <1>10 DEF Fallback, Finish, Done, KeepsAlive
<1>11. ASSUME NEW c \in Connections, Reply(c) PROVE Typed'
  BY <1>11 DEF Reply, Forget
<1>12. ASSUME NEW c \in Connections, Prepare(c) PROVE Typed'
  BY <1>12 DEF Prepare, Done
<1>13. ASSUME NEW c \in Connections, Opened(c) PROVE Typed'
  BY <1>13 DEF Opened, Done
<1>14. ASSUME NEW c \in Connections, Receive(c) PROVE Typed'
  BY <1>14 DEF Receive
<1>15. ASSUME NEW c \in Connections, HangUp(c) PROVE Typed'
  BY <1>15 DEF HangUp, CallsInPlace
<1>16. ASSUME NEW c \in Connections, Closed(c) PROVE Typed'
  BY <1>16 DEF Closed, Done
<1>17. CASE Stop
  BY <1>17 DEF Stop
<1>18. CASE StopServer
  <2>1. CASE WaitClosed
    BY <2>1 DEF WaitClosed
  <2>2. CASE CloseSockets
    BY <2>2 DEF CloseSockets
  <2>3. CASE SocketsClosed
    BY <2>3 DEF SocketsClosed
  <2>4. CASE Drained
    <3>1. left' \in Int /\ awaited' \subseteq Connections /\ stop' \in Stages
      BY <2>4 DEF Drained
    <3>2. UNCHANGED <<enabled, keepalive, conn, served, at, active, sockets, closing, closes,
                      hasClose, closeCalls, slept, expired>>
          /\ waited' = 0 /\ accepting' = FALSE
      BY <2>4 DEF Drained
    <3> QED
      BY <3>1, <3>2
  <2>5. CASE Awaited
    BY <2>5, Zenon DEF Awaited
  <2>6. CASE Shutdown
    BY <2>6 DEF Shutdown
  <2> QED
    BY <1>18, <2>1, <2>2, <2>3, <2>4, <2>5, <2>6 DEF StopServer
<1>19. CASE Tick
  BY <1>19 DEF Tick
<1>20. CASE UNCHANGED vars
  BY <1>20 DEF vars
<1> QED
  BY <1>1, <1>2, <1>3, <1>4, <1>5, <1>6, <1>7, <1>8, <1>9, <1>10, <1>11, <1>12, <1>13, <1>14,
     <1>15, <1>16, <1>17, <1>18, <1>19, <1>20 DEF Next

-----------------------------------------------------------------------------
(* What a step may do to a task.  Everything but a request, a response and    *)
(* the stop itself moves a single task on, from one place to another.         *)

\* The task of c moves from p to q, and the counters stay.
Moves(c, p, q) ==
  /\ at[c] = p /\ at' = [at EXCEPT ![c] = q]
  /\ UNCHANGED <<active, current, keepalive, accepting, stop, expired>>
  /\ \/ UNCHANGED awaited
     \/ q = "done" /\ awaited' = awaited \ {c}

\* The places that a step of the handler leads to from each.
Leads ==
  {<<"reading", q>> : q \in {"route", "preparing", "handling", "fallback", "done"}}
  \cup {<<"route", q>> : q \in {"handling", "fallback", "done"}}
  \cup {<<"handling", q>> : q \in {"fallback", "done"}}
  \cup {<<"fallback", "done">>, <<"preparing", "opening">>, <<"preparing", "done">>,
        <<"opening", "listening">>, <<"opening", "done">>, <<"listening", "receiving">>,
        <<"receiving", "listening">>, <<"listening", "ending">>, <<"ending", "done">>}

HandlerStep(c) ==
  \/ Unreadable(c) \/ Dispatch(c) \/ StaticFile(c) \/ Route(c) \/ Handle(c) \/ Fallback(c)
  \/ Prepare(c) \/ Opened(c) \/ Receive(c) \/ HangUp(c) \/ Closed(c)

\* Routes are only entered while the server accepts.
LEMMA StepMoves ==
  ASSUME Typed, NEW c \in Connections, HandlerStep(c)
  PROVE  \E p, q \in Places :
            /\ Moves(c, p, q) /\ <<p, q>> \in Leads
            /\ p = "reading" /\ q \in Routes => accepting
<1> USE DEF Typed, Places, Routes, Moves, Leads, stopping, task, callbacks
<1>1. CASE Unreadable(c)
  BY <1>1 DEF Unreadable, Finish, Done
<1>2. CASE Dispatch(c)
  BY <1>2 DEF Dispatch, Fail, Finish, Done
<1>3. CASE StaticFile(c)
  BY <1>3 DEF StaticFile, Fail, Finish, Done
<1>4. CASE Route(c)
  BY <1>4 DEF Route, Unencodable, Crash, Fail, Finish, Done
<1>5. CASE Handle(c)
  BY <1>5 DEF Handle, Crash, Finish, Done
<1>6. CASE Fallback(c)
  BY <1>6 DEF Fallback, Finish, Done
<1>7. CASE Prepare(c)
  BY <1>7 DEF Prepare, Done
<1>8. CASE Opened(c)
  BY <1>8 DEF Opened, Done
<1>9. CASE Receive(c)
  BY <1>9 DEF Receive
<1>10. CASE HangUp(c)
  BY <1>10 DEF HangUp
<1>11. CASE Closed(c)
  BY <1>11 DEF Closed, Done
<1> QED
  BY <1>1, <1>2, <1>3, <1>4, <1>5, <1>6, <1>7, <1>8, <1>9, <1>10, <1>11 DEF HandlerStep

-----------------------------------------------------------------------------
(* The counter of tasks.                                                      *)

LEMMA CountStep == Typed /\ Counted /\ [Next]_vars => Counted'
<1> SUFFICES ASSUME Typed, Counted, [Next]_vars PROVE Counted'
  OBVIOUS
<1> USE DEF Typed, Counted
<1>0. IsFiniteSet(Busy) /\ Cardinality(Busy) \in Nat
  BY HttpAssumption, FS_Subset, FS_CardinalityType DEF Busy
<1>1. ASSUME UNCHANGED <<at, current>> PROVE Counted'
  BY <1>1 DEF Busy
<1>2. ASSUME NEW c \in Connections, HandlerStep(c) PROVE Counted'
  <2>1. PICK p, q \in Places : Moves(c, p, q) /\ <<p, q>> \in Leads
    BY <1>2, StepMoves
  <2>2. p # "idle" /\ q # "idle"
    BY <2>1 DEF Leads
  <2>3. Busy' = Busy
    BY <2>1, <2>2 DEF Busy, Moves
  <2> QED
    BY <2>1, <2>3 DEF Moves
<1>3. ASSUME NEW c \in Connections, Request(c) PROVE Counted'
  <2>1. c \notin Busy /\ Busy' = Busy \cup {c} /\ current' = current + 1
    BY <1>3 DEF Request, Busy
  <2> QED
    BY <1>0, <2>1, FS_AddElement
<1>4. ASSUME NEW c \in Connections, Reply(c) PROVE Counted'
  <2>1. c \in Busy /\ Busy' = Busy \ {c} /\ current' = current - 1
    BY <1>4 DEF Reply, Busy
  <2> QED
    BY <1>0, <2>1, FS_RemoveElement
<1>5. ASSUME NEW c \in Connections, Connect(c) \/ Disconnect(c) \/ HandleError(c)
      PROVE  UNCHANGED <<at, current>>
  BY <1>5 DEF Connect, Disconnect, HandleError
<1>6. ASSUME Stop \/ StopServer \/ Tick \/ UNCHANGED vars PROVE UNCHANGED <<at, current>>
  BY <1>6 DEF Stop, StopServer, WaitClosed, CloseSockets, SocketsClosed, Drained, Awaited,
              Shutdown, Tick, clients, vars
<1> QED
  BY <1>1, <1>2, <1>3, <1>4, <1>5, <1>6 DEF Next, HandlerStep

-----------------------------------------------------------------------------
(* Close functions.                                                           *)

LEMMA CallsStep == Typed /\ CallsInPlace /\ [Next]_vars => CallsInPlace'
<1> SUFFICES ASSUME Typed, CallsInPlace, [Next]_vars PROVE CallsInPlace'
  OBVIOUS
<1> USE DEF Typed, CallsInPlace
<1>1. ASSUME UNCHANGED <<at, callbacks>> PROVE CallsInPlace'
  BY <1>1 DEF callbacks
<1>2. ASSUME NEW c \in Connections, HandlerStep(c), ~Opened(c), ~HangUp(c) PROVE CallsInPlace'
  <2>1. UNCHANGED callbacks
    BY <1>2 DEF HandlerStep, Unreadable, Dispatch, StaticFile, Route, Handle, Fallback, Prepare,
                Receive, Closed, task, callbacks
  <2>2. PICK p, q \in Places : Moves(c, p, q) /\ <<p, q>> \in Leads
    BY <1>2, StepMoves
  <2>3. ~(p = "opening" /\ q = "listening") /\ ~(p = "listening" /\ q = "ending")
    BY <1>2, <2>2 DEF HandlerStep, Unreadable, Dispatch, StaticFile, Route, Handle, Fallback,
                Prepare, Receive, Closed, Moves
  <2> QED
    BY <2>1, <2>2, <2>3 DEF Moves, Leads, callbacks
<1>3. ASSUME NEW c \in Connections, Opened(c) PROVE CallsInPlace'
  BY <1>3 DEF Opened, Done
<1>4. ASSUME NEW c \in Connections, HangUp(c) PROVE CallsInPlace'
  BY <1>4 DEF HangUp
<1>5. ASSUME NEW c \in Connections, Request(c) PROVE CallsInPlace'
  BY <1>5 DEF Request, task, callbacks
<1>6. ASSUME NEW c \in Connections, Reply(c) PROVE CallsInPlace'
  BY <1>6 DEF Reply
<1>7. ASSUME NEW c \in Connections, Connect(c) \/ Disconnect(c) \/ HandleError(c)
      PROVE  UNCHANGED <<at, callbacks>>
  BY <1>7 DEF Connect, Disconnect, HandleError, task, callbacks
<1>8. ASSUME Stop \/ StopServer \/ Tick \/ UNCHANGED vars PROVE UNCHANGED <<at, callbacks>>
  BY <1>8 DEF Stop, StopServer, WaitClosed, CloseSockets, SocketsClosed, Drained, Awaited,
              Shutdown, Tick, clients, vars, task, callbacks
<1> QED
  BY <1>1, <1>2, <1>3, <1>4, <1>5, <1>6, <1>7, <1>8 DEF Next, HandlerStep

-----------------------------------------------------------------------------
(* The stages of the stop.                                                    *)

LEMMA StagesStep == Typed /\ StagesInPlace /\ [Next]_vars => StagesInPlace'
<1> SUFFICES ASSUME Typed, StagesInPlace, [Next]_vars PROVE StagesInPlace'
  OBVIOUS
<1> USE DEF Typed, StagesInPlace, Busy, Routing
<1>1. ASSUME NEW c \in Connections, HandlerStep(c) PROVE StagesInPlace'
  <2>1. PICK p, q \in Places : /\ Moves(c, p, q) /\ <<p, q>> \in Leads
                               /\ p = "reading" /\ q \in Routes => accepting
    BY <1>1, StepMoves
  <2>2. p # "idle" /\ (q \in Routes => p = "reading" \/ p \in Routes) /\ ("done" \notin Routes)
    BY <2>1 DEF Leads, Routes
  <2>3. Busy' \subseteq Busy
    BY <2>1, <2>2 DEF Moves
  <2>4. ~accepting => Routing' \subseteq Routing
    BY <2>1, <2>2 DEF Moves
  <2>5. \A d \in Routing' : d \in awaited => d \in awaited'
    BY <2>1, <2>2 DEF Moves
  <2>6. UNCHANGED <<active, keepalive, accepting, stop, expired>>
    BY <2>1 DEF Moves
  <2> QED
    BY <2>3, <2>4, <2>5, <2>6
<1>2. ASSUME NEW c \in Connections, Request(c) PROVE StagesInPlace'
  BY <1>2 DEF Request, stopping, Routes
<1>3. ASSUME NEW c \in Connections, Reply(c) PROVE StagesInPlace'
  BY <1>3 DEF Reply, stopping, Routes
<1>4. ASSUME NEW c \in Connections, Connect(c) \/ Disconnect(c) \/ HandleError(c)
      PROVE  StagesInPlace'
  BY <1>4 DEF Connect, Disconnect, HandleError, stopping
<1>5. CASE Stop
  BY <1>5 DEF Stop, clients
<1>6. CASE WaitClosed
  BY <1>6 DEF WaitClosed, clients
<1>7. CASE CloseSockets
  BY <1>7 DEF CloseSockets, clients
<1>8. CASE SocketsClosed
  BY <1>8 DEF SocketsClosed, clients
<1>9. CASE Drained
  <2>1. UNCHANGED <<at, active, keepalive>> /\ Busy \subseteq active /\ ~keepalive /\ ~accepting'
    BY <1>9 DEF Drained, clients
  <2>2. Routing \subseteq {c \in active : at[c] # "done"}
    BY <2>1 DEF Routes
  <2>3. CASE active = {}
    BY <1>9, <2>1, <2>2, <2>3 DEF Drained
  <2>4. CASE active # {}
    BY <1>9, <2>1, <2>2, <2>4 DEF Drained
  <2> QED
    BY <2>3, <2>4
<1>10. CASE Awaited
  <2>1. stop = "waiting" /\ Routing \subseteq awaited /\ expired' = (awaited # {}) /\ stop' = "shutdown"
        /\ UNCHANGED <<at, keepalive, accepting>>
    BY <1>10 DEF Awaited, clients
  <2>2. ~expired' => Routing = {}
    BY <2>1
  <2> QED
    BY <2>1, <2>2
<1>11. CASE Shutdown
  BY <1>11 DEF Shutdown, clients
<1>12. CASE Tick
  BY <1>12 DEF Tick, clients
<1>13. CASE UNCHANGED vars
  BY <1>13 DEF vars
<1> QED
  BY <1>1, <1>2, <1>3, <1>4, <1>5, <1>6, <1>7, <1>8, <1>9, <1>10, <1>11, <1>12, <1>13
     DEF Next, StopServer, HandlerStep

LEMMA InvStep == IndInv /\ [Next]_vars => IndInv'
  BY TypeStep, CountStep, CallsStep, StagesStep DEF IndInv

LEMMA Invariance == Spec => []IndInv
  BY InitInv, InvStep, PTL DEF Spec

-----------------------------------------------------------------------------
(* Theorems.                                                                  *)

\* The types hold; http_current_tasks counts the requests whose task has not
\* given its response to aiohttp (transport/http.py 1190-1241), whatever became of them.
THEOREM TypeCorrect == Spec => []TypeOK
<1>1. IndInv => TypeOK
  BY DEF IndInv, Typed, Counted, Busy, TypeOK, Places, Stages
<1> QED
  BY Invariance, <1>1, PTL

\* The user's _stop_service finds no route and no websocket function under way,
\* unless the grace period ran out (http.py 1462-1600).
THEOREM StopsLast == Spec => []StopsAfterRoutes
<1>1. IndInv => StopsAfterRoutes
  BY DEF IndInv, StagesInPlace, Routing, StopsAfterRoutes
<1> QED
  BY Invariance, <1>1, PTL

\* A websocket whose request is over had its close function called, once
\* (http.py 1129-1159).
THEOREM CloseCalled == Spec => []CloseFunctionCalled
<1>1. IndInv => CloseFunctionCalled
  BY DEF IndInv, CallsInPlace, CloseFunctionCalled
<1> QED
  BY Invariance, <1>1, PTL

\* Responses made during the stop close their connections: the flag that the
\* finally clause looks at is cleared before anything else is (transport/http.py 1469).
THEOREM KeepAliveEnds == Spec => StopEndsKeepAlive
<1>1. ASSUME IndInv, [Next]_vars, NEW c \in Connections, stop # "serving",
             at[c] # "done", at'[c] = "done"
      PROVE  closes'[c]
  <2>1. closes \in [Connections -> BOOLEAN] /\ at \in [Connections -> Places] /\ ~keepalive
    BY <1>1 DEF IndInv, Typed, StagesInPlace
  <2>2. PICK d \in Connections : HandlerStep(d)
    BY <1>1, <2>1 DEF Next, HandlerStep, Connect, Disconnect, HandleError, Request, Reply, Stop,
       StopServer, WaitClosed, CloseSockets, SocketsClosed, Drained, Awaited, Shutdown, Tick,
       clients, vars
  <2>3. Done(d, TRUE)
    BY <1>1, <2>1, <2>2 DEF HandlerStep, Unreadable, Dispatch, StaticFile, Route, Handle,
       Fallback, Prepare, Opened, Receive, HangUp, Closed, Unencodable, Crash, Fail, Finish, KeepsAlive, Done
  <2> QED
    BY <1>1, <2>1, <2>3 DEF Done
<1>2. IndInv /\ [Next]_vars
      => [\A c \in Connections : stop # "serving" /\ at[c] # "done" /\ at'[c] = "done" => closes'[c]]_vars
  BY <1>1
<1> QED
  BY Invariance, <1>2, PTL DEF Spec, StopEndsKeepAlive
=============================================================================
