------------------------------ MODULE HttpServer ------------------------------
(***************************************************************************)
(* The HTTP server of a service (tomodachi/transport/http.py): requests on *)
(* connections that may be kept alive, websockets, error handlers, and the *)
(* stopping of the server beside all of these.                             *)
(*                                                                         *)
(* A request is a task (request_handler_func) behind the middleware of     *)
(* aiohttp.  A connection carries one request at a time, so the task is    *)
(* named by its connection; one that is closed and has no task left is     *)
(* forgotten, and its name may be used for the next one.  Clients connect, *)
(* send, and go away when they like.  Time passes in ticks of a second;    *)
(* only the stopping server measures it.                                   *)
(***************************************************************************)
EXTENDS Integers, FiniteSets

CONSTANTS Connections,
          ErrorHandlers,      \* the statuses that have an @http_error function
          MaxKeepAlive,       \* max_keepalive_requests; 0: no such limit
          Grace,              \* termination_grace_period_seconds
          SocketWait,         \* seconds that the closing of websockets may take
          WaitsForClients,    \* Server.wait_closed() waits for open connections
          MaxRequests         \* bound: requests per connection

Statuses == {"bad", "missing", "forbidden", "unavailable", "error"}

ASSUME HttpAssumption ==
  /\ IsFiniteSet(Connections) /\ ErrorHandlers \subseteq Statuses
  /\ MaxKeepAlive \in Nat /\ Grace \in Nat /\ SocketWait \in Nat
  /\ WaitsForClients \in BOOLEAN /\ MaxRequests \in Nat

VARIABLES
  enabled,      \* keepalive_timeout is positive (tcp_keepalive)
  keepalive,    \* _http_tcp_keepalive
  accepting,    \* _http_accept_new_requests
  conn,         \* the transport of each connection: "none", "open", "closed"
  served,       \* request.protocol._request_count
  at,           \* where its task is
  closes,       \* the response of the task closes the connection
  active,       \* _http_active_requests
  current,      \* http_current_tasks
  sockets,      \* _http_open_websockets
  closing,      \* websockets that the server asked to close
  hasClose,     \* the websocket function returned a close function
  closeCalls,   \* how often that one was called
  stop,         \* where stop_service is
  waited, left, \* seconds of its current wait, and of the grace period
  slept,        \* shutdown_sleep
  awaited,      \* the tasks it gathered and that are still running
  expired       \* the grace period ran out

vars == <<enabled, keepalive, accepting, conn, served, at, closes, active, current,
          sockets, closing, hasClose, closeCalls, stop, waited, left, slept, awaited, expired>>
callbacks == <<hasClose, closeCalls>>
task == <<closes, callbacks>>
stopping == <<enabled, keepalive, accepting, closing, stop, waited, left, slept, expired>>

Routes == {"route", "preparing", "opening", "listening", "receiving", "ending"}
Open == {c \in Connections : conn[c] = "open"}

Init ==
  /\ enabled \in BOOLEAN /\ keepalive = enabled /\ accepting = TRUE
  /\ conn = [c \in Connections |-> "none"] /\ served = [c \in Connections |-> 0]
  /\ at = [c \in Connections |-> "idle"] /\ closes = [c \in Connections |-> FALSE]
  /\ active = {} /\ current = 0 /\ sockets = {} /\ closing = {}
  /\ hasClose = [c \in Connections |-> FALSE] /\ closeCalls = [c \in Connections |-> 0]
  /\ stop = "serving" /\ waited = 0 /\ left = Grace /\ slept = 0 /\ awaited = {} /\ expired = FALSE

-----------------------------------------------------------------------------
(* Clients *)

Forget(c) == conn' = [conn EXCEPT ![c] = "none"] /\ served' = [served EXCEPT ![c] = 0]

Connect(c) ==
  /\ conn[c] = "none" /\ stop = "serving"
  /\ conn' = [conn EXCEPT ![c] = "open"]
  /\ UNCHANGED <<served, at, task, active, current, sockets, awaited, stopping>>

Disconnect(c) ==
  /\ conn[c] = "open"
  /\ IF at[c] = "idle" THEN Forget(c) ELSE conn' = [conn EXCEPT ![c] = "closed"] /\ UNCHANGED served
  /\ UNCHANGED <<at, task, active, current, sockets, awaited, stopping>>

(* What cannot be parsed as a request is answered without a task, and its
   connection is closed.                                                   *)
HandleError(c) ==
  /\ conn[c] = "open" /\ at[c] = "idle"
  /\ Forget(c)
  /\ UNCHANGED <<at, task, active, current, sockets, awaited, stopping>>

(* The middleware of the server starts a task for the request. *)
Request(c) ==
  /\ conn[c] = "open" /\ at[c] = "idle" /\ served[c] < MaxRequests
  /\ served' = [served EXCEPT ![c] = @ + 1]
  /\ at' = [at EXCEPT ![c] = "reading"]
  /\ active' = active \cup {c} /\ current' = current + 1
  /\ UNCHANGED <<conn, task, sockets, awaited, stopping>>

-----------------------------------------------------------------------------
(* The end of a task *)

(* Mutant: the option is looked at instead of the flag that stopping clears. *)
KeepsAliveByOption(c, old) ==
  enabled /\ ~old /\ (MaxKeepAlive = 0 \/ served[c] < MaxKeepAlive)

(* A response of a request that is no websocket leaves the connection open. *)
KeepsAlive(c, old) ==
  keepalive /\ ~old /\ (MaxKeepAlive = 0 \/ served[c] < MaxKeepAlive)

Done(c, close) ==
  /\ at' = [at EXCEPT ![c] = "done"] /\ awaited' = awaited \ {c}
  /\ closes' = [closes EXCEPT ![c] = close]

(* The finally clause, whatever the response; a connection may be older than
   max_keepalive_time.                                                     *)
Finish(c) == \E old \in BOOLEAN : Done(c, ~KeepsAlive(c, old))

(* The middleware gives the response to aiohttp, which sends it. *)
Reply(c) ==
  /\ at[c] = "done"
  /\ at' = [at EXCEPT ![c] = "idle"]
  /\ active' = active \ {c} /\ current' = current - 1
  /\ IF closes[c] \/ conn[c] = "closed" THEN Forget(c) ELSE UNCHANGED <<conn, served>>
  /\ closes' = [closes EXCEPT ![c] = FALSE]
  /\ hasClose' = [hasClose EXCEPT ![c] = FALSE] /\ closeCalls' = [closeCalls EXCEPT ![c] = 0]
  /\ UNCHANGED <<sockets, awaited, stopping>>

(* An HTTPException: the function for its status, if there is one. *)
Fail(c, status) ==
  IF status \in ErrorHandlers
  THEN at' = [at EXCEPT ![c] = "handling"] /\ UNCHANGED <<closes, awaited>>
  ELSE Finish(c)

(* Any other exception: the function for 500, and nothing if that one fails. *)
Crash(c) ==
  IF "error" \in ErrorHandlers
  THEN at' = [at EXCEPT ![c] = "fallback"] /\ UNCHANGED <<closes, awaited>>
  ELSE Finish(c)

-----------------------------------------------------------------------------
(* request_handler_func *)

(* The body is too large, or does not arrive. *)
Unreadable(c) ==
  /\ at[c] = "reading"
  /\ Finish(c) \/ (conn[c] = "closed" /\ Done(c, TRUE))
  /\ UNCHANGED <<conn, served, callbacks, active, current, sockets, stopping>>

(* Mutant: the handler does not look whether the server still accepts. *)
DispatchAlways(c) ==
  /\ at[c] = "reading"
  /\ \/ Fail(c, "missing")
     \/ \E target \in {"route", "preparing"} :
          at' = [at EXCEPT ![c] = target] /\ UNCHANGED <<closes, awaited>>
  /\ UNCHANGED <<conn, served, callbacks, active, current, sockets, stopping>>

(* The body is read and the request routed: there is no such route, or it is
   a route or websocket of a server that accepts requests or of one that does
   not.                                                                    *)
Dispatch(c) ==
  /\ at[c] = "reading"
  /\ \/ Fail(c, "missing")
     \/ ~accepting /\ Fail(c, "unavailable")
     \/ /\ accepting
        /\ \E target \in {"route", "preparing"} : at' = [at EXCEPT ![c] = target]
        /\ UNCHANGED <<closes, awaited>>
  /\ UNCHANGED <<conn, served, callbacks, active, current, sockets, stopping>>

(* A static file is served as long as there are connections: the handler of
   such a route does not look at the flag that stopping clears.            *)
StaticFile(c) ==
  /\ at[c] = "reading"
  /\ Finish(c) \/ Fail(c, "missing") \/ Fail(c, "forbidden")
  /\ UNCHANGED <<conn, served, callbacks, active, current, sockets, stopping>>

(* What the function returned has a body that its charset cannot encode. *)
Unencodable(c) == Fail(c, "error")

(* The user's function returns, or raises. *)
Route(c) ==
  /\ at[c] = "route"
  /\ Finish(c) \/ Unencodable(c) \/ Fail(c, "bad") \/ Crash(c)
  /\ UNCHANGED <<conn, served, callbacks, active, current, sockets, stopping>>

(* The @http_error function returns a response of its status, or raises. *)
Handle(c) ==
  /\ at[c] = "handling"
  /\ Finish(c) \/ Crash(c)
  /\ UNCHANGED <<conn, served, callbacks, active, current, sockets, stopping>>

Fallback(c) ==
  /\ at[c] = "fallback"
  /\ Finish(c)
  /\ UNCHANGED <<conn, served, callbacks, active, current, sockets, stopping>>

-----------------------------------------------------------------------------
(* Websockets *)

(* websocket.prepare() *)
Prepare(c) ==
  /\ at[c] = "preparing"
  /\ \/ /\ conn[c] = "open"
        /\ at' = [at EXCEPT ![c] = "opening"] /\ sockets' = sockets \cup {c}
        /\ UNCHANGED <<closes, awaited>>
     \/ conn[c] = "closed" /\ Done(c, TRUE) /\ UNCHANGED sockets
  /\ UNCHANGED <<conn, served, callbacks, active, current, stopping>>

(* The websocket function returns its callbacks, or raises. *)
Opened(c) ==
  /\ at[c] = "opening"
  /\ \/ /\ at' = [at EXCEPT ![c] = "listening"]
        /\ \E withClose \in BOOLEAN : hasClose' = [hasClose EXCEPT ![c] = withClose]
        /\ UNCHANGED <<closes, awaited, sockets>>
     \/ Done(c, TRUE) /\ sockets' = sockets \ {c} /\ UNCHANGED hasClose
  /\ UNCHANGED <<conn, served, closeCalls, active, current, stopping>>

(* A message, and the return of the receive function. *)
Receive(c) ==
  /\ \/ /\ at[c] = "listening" /\ conn[c] = "open" /\ c \notin closing
        /\ at' = [at EXCEPT ![c] = "receiving"]
     \/ at[c] = "receiving" /\ at' = [at EXCEPT ![c] = "listening"]
  /\ UNCHANGED <<conn, served, task, active, current, sockets, awaited, stopping>>

(* Mutant: the server's own closing does not reach the close function. *)
HangUpByClient(c) ==
  /\ at[c] = "listening" /\ (conn[c] = "closed" \/ c \in closing)
  /\ at' = [at EXCEPT ![c] = "ending"]
  /\ closeCalls' = IF hasClose[c] /\ c \notin closing THEN [closeCalls EXCEPT ![c] = @ + 1]
                   ELSE closeCalls
  /\ UNCHANGED <<conn, served, closes, hasClose, active, current, sockets, awaited, stopping>>

(* The loop over the messages ends, and the close function is called. *)
HangUp(c) ==
  /\ at[c] = "listening" /\ (conn[c] = "closed" \/ c \in closing)
  /\ at' = [at EXCEPT ![c] = "ending"]
  /\ closeCalls' = IF hasClose[c] THEN [closeCalls EXCEPT ![c] = @ + 1] ELSE closeCalls
  /\ UNCHANGED <<conn, served, closes, hasClose, active, current, sockets, awaited, stopping>>

(* The close function returns; the websocket is closed and forgotten. *)
Closed(c) ==
  /\ at[c] = "ending"
  /\ Done(c, TRUE) /\ sockets' = sockets \ {c}
  /\ UNCHANGED <<conn, served, callbacks, active, current, stopping>>

-----------------------------------------------------------------------------
(* stop_service *)

clients == <<conn, served, at, task, current>>
Longer(m, n) == IF m > n THEN m ELSE n

(* _http_tcp_keepalive = False; server.close() *)
Stop ==
  /\ stop = "serving"
  /\ stop' = "closing" /\ keepalive' = FALSE
  /\ UNCHANGED <<enabled, accepting, clients, active, sockets, closing, waited, left, slept, awaited, expired>>

(* await server.wait_closed(), and a second of sleep if there are clients. *)
WaitClosed ==
  /\ stop = "closing" /\ (WaitsForClients => Open = {})
  /\ stop' = "closed" /\ waited' = 0
  /\ slept' = IF Open = {} THEN 0 ELSE 1
  /\ UNCHANGED <<enabled, keepalive, accepting, clients, active, sockets, closing, left, awaited, expired>>

(* A server without keep-alive accepts nothing any more; the websockets that
   are open now are asked to close.                                        *)
CloseSockets ==
  /\ stop = "closed" /\ waited >= slept
  /\ stop' = "sockets" /\ waited' = 0
  /\ accepting' = enabled /\ closing' = sockets
  /\ UNCHANGED <<enabled, keepalive, clients, active, sockets, left, slept, awaited, expired>>

(* They are closed, or the wait for them timed out. *)
SocketsClosed ==
  /\ stop = "sockets"
  /\ (\A c \in closing : c \notin sockets) \/ waited >= SocketWait
  /\ stop' = "draining" /\ waited' = 0
  /\ sockets' = IF closing = {} THEN sockets ELSE {}
  /\ UNCHANGED <<enabled, keepalive, accepting, clients, active, closing, left, slept, awaited, expired>>

(* Mutant: the wait for kept-alive connections has no end of its own. *)
DrainedOnly ==
  /\ stop = "draining" /\ (~enabled \/ (active = {} /\ Open = {}))
  /\ left' = left - waited
  /\ waited' = 0 /\ accepting' = FALSE /\ awaited' = {c \in active : at[c] # "done"}
  /\ stop' = IF active = {} THEN "shutdown" ELSE "waiting"
  /\ UNCHANGED <<enabled, keepalive, clients, active, sockets, closing, slept, expired>>

(* The wait for kept-alive connections ends; nothing is accepted any more and
   the requests under way are gathered.                                    *)
Drained ==
  /\ stop = "draining"
  /\ ~enabled \/ (active = {} /\ Open = {}) \/ waited >= Longer(2, left)
  /\ left' = left - waited
  /\ waited' = 0 /\ accepting' = FALSE /\ awaited' = {c \in active : at[c] # "done"}
  /\ stop' = IF active = {} THEN "shutdown" ELSE "waiting"
  /\ UNCHANGED <<enabled, keepalive, clients, active, sockets, closing, slept, expired>>

(* All gathered requests are done, or the grace period is over. *)
Awaited ==
  /\ stop = "waiting" /\ (awaited = {} \/ waited >= Longer(2, left))
  /\ expired' = (awaited # {})
  /\ stop' = "shutdown" /\ waited' = 0 /\ active' = {} /\ awaited' = {}
  /\ UNCHANGED <<enabled, keepalive, accepting, clients, sockets, closing, left, slept>>

(* app.shutdown(), app.cleanup(), and the user's _stop_service. *)
Shutdown ==
  /\ stop = "shutdown" /\ waited >= slept
  /\ stop' = "stopped"
  /\ UNCHANGED <<enabled, keepalive, accepting, clients, active, sockets, closing, waited, left,
                 slept, awaited, expired>>

Tick ==
  /\ stop \in {"closed", "sockets", "draining", "waiting", "shutdown"}
  /\ waited < Longer(2, Longer(Grace, SocketWait))
  /\ waited' = waited + 1
  /\ UNCHANGED <<enabled, keepalive, accepting, clients, active, sockets, closing, stop, left,
                 slept, awaited, expired>>

StopServer ==
  WaitClosed \/ CloseSockets \/ SocketsClosed \/ Drained \/ Awaited \/ Shutdown

Next ==
  \/ \E c \in Connections :
       \/ Connect(c) \/ Disconnect(c) \/ HandleError(c) \/ Request(c) \/ Unreadable(c)
       \/ Dispatch(c) \/ StaticFile(c) \/ Route(c) \/ Handle(c) \/ Fallback(c) \/ Reply(c)
       \/ Prepare(c) \/ Opened(c) \/ Receive(c) \/ HangUp(c) \/ Closed(c)
  \/ Stop \/ StopServer \/ Tick

Spec == Init /\ [][Next]_vars

(* stop_service runs and time passes; clients and the user's functions may
   take for ever.                                                          *)
FairSpec == Spec /\ WF_vars(StopServer) /\ WF_vars(Tick)

-----------------------------------------------------------------------------
(* Properties *)

(* Type invariant.  http_current_tasks counts the requests under way. *)
TypeOK ==
  /\ enabled \in BOOLEAN /\ keepalive \in BOOLEAN /\ accepting \in BOOLEAN /\ expired \in BOOLEAN
  /\ conn \in [Connections -> {"none", "open", "closed"}]
  /\ served \in [Connections -> 0..MaxRequests]
  /\ at \in [Connections -> Routes \cup {"idle", "reading", "handling", "fallback", "done"}]
  /\ active \subseteq Connections /\ sockets \subseteq Connections
  /\ closing \subseteq Connections /\ awaited \subseteq Connections
  /\ current = Cardinality({c \in Connections : at[c] # "idle"})
  /\ closes \in [Connections -> BOOLEAN]
  /\ hasClose \in [Connections -> BOOLEAN] /\ closeCalls \in [Connections -> 0..1]
  /\ stop \in {"serving", "closing", "closed", "sockets", "draining", "waiting", "shutdown", "stopped"}
  /\ waited \in Nat /\ left \in Int /\ slept \in 0..1

(* When the user's _stop_service is called no route and no websocket function
   is under way, unless the grace period ran out: what was accepted before is
   awaited, and what comes later is refused.                               *)
StopsAfterRoutes ==
  stop = "stopped" /\ ~expired => \A c \in Connections : at[c] \notin Routes

(* A response that is made once the server is stopping closes its connection,
   also of a request that began before.                                    *)
StopEndsKeepAlive ==
  [][\A c \in Connections :
       stop # "serving" /\ at[c] # "done" /\ at'[c] = "done" => closes'[c]]_vars

(* The close function of a websocket has been called once when its request is
   over, whoever closed the connection.                                    *)
CloseFunctionCalled ==
  \A c \in Connections : at[c] = "done" /\ hasClose[c] => closeCalls[c] = 1

(* A server that is told to stop does, whatever clients and functions do. *)
StopTerminates == (stop # "serving") ~> (stop = "stopped")
=============================================================================
