--------------------------- MODULE ClientConnector ---------------------------
(* ClientConnector of tomodachi/helpers/aiobotocore_connector.py, for one     *)
(* alias: the AWS client that all coroutines of the process share, how it is  *)
(* made, replaced after a lost connection, dropped when AWS refuses its       *)
(* credentials, and closed when the service stops.  asyncio switches          *)
(* coroutines only where they await, so a step runs from one await to the     *)
(* next one that may block.                                                   *)
EXTENDS Naturals, FiniteSets

CONSTANTS Callers,     \* coroutines that use the client
          MaxClients,  \* bound: clients made
          MaxCloses    \* bound: calls of close()

ASSUME BoundsAreNatural == MaxClients \in Nat /\ MaxCloses \in Nat

None == 0              \* no client; the clients are 1, 2, ... as they are made
Clients == 1..MaxClients

VARIABLES
    pc,         \* where each coroutine is
    then,       \* where it goes when create_client or close_client returns
    client,     \* the client it has in its hands
    gen,        \* which lock it awaits or holds: close() replaces the locks
    current,    \* self.clients[alias]
    made,       \* clients made so far
    open,       \* those not closed yet
    default,    \* those made without region and endpoint of the service's options
    settings,   \* does self.credentials hold region and endpoint of the options
    known,      \* is the alias in self.aliases
    recent,     \* client_creation_lock_time is less than 45 seconds ago
    closes,     \* calls of close() so far
    closing     \* the clients close() is about to close; the close_waiter is
                \* pending while there are any

connector == <<current, made, open, default, settings, known, recent, closes, closing>>
caller == <<then, client, gen>>

ConnectorInit ==
    /\ pc = [p \in Callers |-> "new"]
    /\ then = [p \in Callers |-> "ready"]
    /\ client = [p \in Callers |-> None]
    /\ gen = [p \in Callers |-> 0]
    /\ current = None /\ made = 0 /\ open = {} /\ default = {}
    /\ settings = FALSE /\ known = FALSE /\ recent = FALSE
    /\ closes = 0 /\ closing = {}

Goto(p, place) == pc' = [pc EXCEPT ![p] = place]
Hold(p, c) == client' = [client EXCEPT ![p] = c]

Holding == {"making", "makingDefault", "replacing", "dropping", "dropped"}
LockFree(g) == \A q \in Callers : pc[q] \in Holding => gen[q] # g

\* create_client or close_client is called, to go on at the place next.
Calls(p, what, next) == Goto(p, what) /\ then' = [then EXCEPT ![p] = next]

\* It returns, the lock is released, and the coroutine goes on with the client c.
Returns(p, c) ==
    /\ Goto(p, then[p])
    /\ Hold(p, IF then[p] = "request" THEN c ELSE None)
    /\ then' = [then EXCEPT ![p] = "ready"]
    /\ gen' = [gen EXCEPT ![p] = 0]

\* Anything else that ends an attempt or the call: nothing is kept.
Leaves(p, place) ==
    /\ Goto(p, place)
    /\ Hold(p, None)
    /\ then' = [then EXCEPT ![p] = "ready"]
    /\ gen' = [gen EXCEPT ![p] = 0]

-----------------------------------------------------------------------------
(* create_client                                                              *)

\* create_client returns at once in the 45 seconds after a replacement began:
\* those who lost the same connection share the new client.
Shares == current # None /\ recent

\* The lock (of the generation g) is acquired: the present client is good
\* enough, or one is made with the credentials the connector has for the alias.
Acquired(p, g) ==
    IF Shares
    THEN Returns(p, current) /\ UNCHANGED <<known, recent>>
    ELSE /\ recent' = (current # None)
         /\ known' = TRUE
         /\ gen' = [gen EXCEPT ![p] = g]
         /\ Goto(p, IF settings THEN "making" ELSE "makingDefault")
         /\ UNCHANGED <<then, client>>

\* The close_waiter is awaited, then the lock of the alias.
EnterCreate(p) ==
    /\ pc[p] = "create" /\ closing = {}
    /\ IF LockFree(closes)
       THEN Acquired(p, closes)
       ELSE /\ Goto(p, "lockCreate")
            /\ gen' = [gen EXCEPT ![p] = closes]
            /\ UNCHANGED <<then, client, known, recent>>
    /\ UNCHANGED <<current, made, open, default, settings, closes, closing>>

LockCreate(p) ==
    /\ pc[p] = "lockCreate" /\ LockFree(gen[p])
    /\ Acquired(p, gen[p])
    /\ UNCHANGED <<current, made, open, default, settings, closes, closing>>

\* The new client is in the dict.
Installed(p) ==
    /\ pc[p] \in {"making", "makingDefault"} /\ made < MaxClients
    /\ made' = made + 1
    /\ current' = made'
    /\ open' = open \cup {made'}
    /\ default' = IF pc[p] = "making" THEN default ELSE default \cup {made'}
    /\ UNCHANGED <<settings, known, recent, closes, closing>>

\* Mutant of Made: the old client is read before the new one is made, so that a
\* client which another coroutine put there meanwhile is not closed.
MadeForgetting(p) ==
    /\ Installed(p)
    /\ IF current # None /\ gen[p] = closes
       THEN Hold(p, current) /\ Goto(p, "replacing") /\ UNCHANGED <<then, gen>>
       ELSE Returns(p, made')

\* The session has made the client.  One that was there is closed a second
\* later; the coroutine holds the lock until then.
Made(p) ==
    /\ Installed(p)
    /\ IF current # None
       THEN Hold(p, current) /\ Goto(p, "replacing") /\ UNCHANGED <<then, gen>>
       ELSE Returns(p, made')

\* The session raises: no region, or only half of the credentials.
MakeFails(p) ==
    /\ pc[p] \in {"making", "makingDefault"}
    /\ Leaves(p, "raised")
    /\ UNCHANGED connector

\* The replaced client is closed, in use or not.  When close() has emptied the
\* dict meanwhile, the coroutine returns the client it made, which is closed.
CloseOld(p) ==
    /\ pc[p] = "replacing"
    /\ open' = open \ {client[p]}
    /\ Returns(p, IF current # None THEN current ELSE made)
    /\ UNCHANGED <<current, made, default, settings, known, recent, closes, closing>>

\* The task is cancelled in that second.  The cancellation is swallowed, so the
\* coroutine goes on as if it had closed the old client, which nobody does now.
CancelledReplacing(p) ==
    /\ pc[p] = "replacing"
    /\ Returns(p, IF current # None THEN current ELSE made)
    /\ UNCHANGED connector

\* The task is cancelled while it awaits the lock or the session.  A creation
\* that no attempt asked for is outside of the loop of attempts.
CancelledWaiting(p) ==
    /\ pc[p] \in {"lockCreate", "making", "makingDefault", "lockDrop"}
    /\ Leaves(p, IF then[p] = "ready" THEN "raised" ELSE "failed")
    /\ UNCHANGED connector

-----------------------------------------------------------------------------
(* close_client, for a client whose credentials AWS refuses                   *)

\* The lock is acquired: the client that is now in the dict is dropped.
Drops(p, g) ==
    IF current = None
    THEN Returns(p, None)
    ELSE /\ Goto(p, "dropping") /\ Hold(p, current)
         /\ gen' = [gen EXCEPT ![p] = g] /\ UNCHANGED then

\* A client that is no longer in the dict is left alone.
EnterDrop(p) ==
    /\ pc[p] = "drop" /\ closing = {}
    /\ IF client[p] # current THEN Returns(p, None)
       ELSE IF LockFree(closes) THEN Drops(p, closes)
       ELSE /\ Goto(p, "lockDrop")
            /\ gen' = [gen EXCEPT ![p] = closes]
            /\ UNCHANGED <<then, client>>
    /\ UNCHANGED connector

LockDrop(p) ==
    /\ pc[p] = "lockDrop" /\ LockFree(gen[p])
    /\ Drops(p, gen[p])
    /\ UNCHANGED connector

\* The client is closed, and is still in the dict for those who come meanwhile.  A
\* cancellation changes nothing: its closing is a task of its own.
Drop(p) ==
    /\ pc[p] = "dropping"
    /\ open' = open \ {client[p]}
    /\ Goto(p, "dropped")
    /\ UNCHANGED <<caller, current, made, default, settings, known, recent, closes, closing>>

\* Mutant of Dropped: the dict keeps the closed client.
DroppedKept(p) ==
    /\ pc[p] = "dropped"
    /\ Returns(p, None)
    /\ UNCHANGED connector

\* The dict's entry is emptied, whatever client it names by now.
Dropped(p) ==
    /\ pc[p] = "dropped"
    /\ current' = None
    /\ Returns(p, None)
    /\ UNCHANGED <<made, open, default, settings, known, recent, closes, closing>>

-----------------------------------------------------------------------------
(* close, when the service stops or one of its queues cannot be set up        *)

\* Everything the connector knows of the alias goes, the lock and the settings
\* too.  (A close() that finds no client returns at once or has nothing to do.)
\* While no close() is under way a coroutine goes from a failed request to the
\* next one, or to the lock, without a switch.
Close ==
    /\ closes < MaxCloses /\ closing = {}
    /\ \A p \in Callers : pc[p] \notin {"create", "drop", "failed", "ready"}
    /\ closes' = closes + 1
    /\ closing' = {current} \ {None}
    /\ current' = None
    /\ settings' = FALSE /\ known' = FALSE /\ recent' = FALSE
    /\ UNCHANGED <<pc, caller, made, open, default>>

\* Mutant of Closed: the close_waiter is not resolved.
ClosedUnresolved ==
    /\ closing # {}
    /\ open' = open \ closing
    /\ UNCHANGED <<pc, caller, current, made, default, settings, known, recent, closes, closing>>

\* The clients are closed (or not, after three seconds), and the close_waiter is
\* resolved.
Closed ==
    /\ closing # {}
    /\ open' = open \ closing
    /\ closing' = {}
    /\ UNCHANGED <<pc, caller, current, made, default, settings, known, recent, closes>>

\* 45 seconds pass after a replacement.
Age ==
    /\ recent
    /\ recent' = FALSE
    /\ UNCHANGED <<pc, caller, current, made, open, default, settings, known, closes, closing>>

=============================================================================
