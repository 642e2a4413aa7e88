------------------------------ MODULE AwsCalls -------------------------------
(* The calls of tomodachi/transport/aws_sns_sqs.py that publish a message on a *)
(* topic, send one to a queue or delete one, each retried while the connector  *)
(* of ClientConnector replaces, drops or closes the client under their feet.   *)
EXTENDS ClientConnector

CONSTANTS Kinds,     \* what the coroutines may call: functions from Callers to
                     \* "publish", "send" and "delete"
          MaxFaults, \* bound: failures of requests that are not the connector's doing
          BadTokens  \* BOOLEAN: may AWS refuse the credentials of a client

ASSUME KindsOfCall == Kinds \subseteq [Callers -> {"publish", "send", "delete"}]
ASSUME FaultsBounded == MaxFaults \in Nat /\ BadTokens \in BOOLEAN

VARIABLES
    kind,     \* what each coroutine calls
    try,      \* which attempt each coroutine is at
    faults    \* failures so far

callVars == <<kind, try, faults>>
vars == <<pc, caller, connector, callVars>>

Init ==
    /\ ConnectorInit
    /\ kind \in Kinds
    /\ try = [p \in Callers |-> 1]
    /\ faults = 0

Tries(p) == IF kind[p] = "delete" THEN 4 ELSE 3

\* The connector's steps leave the calls alone.
Connector(step) == step /\ UNCHANGED callVars

-----------------------------------------------------------------------------
(* A call                                                                     *)

\* The queue to send to does not exist (publish creates its topic).
NoQueue(p) ==
    /\ pc[p] = "new" /\ kind[p] = "send"
    /\ Goto(p, "raised")
    /\ UNCHANGED <<caller, connector, callVars>>

\* The transport asks for a client with the settings of the service's options
\* when there is none.
WantsClient(p) ==
    IF current # None
    THEN Goto(p, "ready") /\ UNCHANGED <<then, settings>>
    ELSE settings' = TRUE /\ Calls(p, "create", "ready")

\* A call: the message is built and the topic or queue known; it asks for a
\* client before the first attempt only.
Start(p) ==
    /\ pc[p] = "new"
    /\ WantsClient(p)
    /\ UNCHANGED <<client, gen, current, made, open, default, known, recent,
                   closes, closing, callVars>>

\* An attempt: the connector hands out the client of the alias, or makes one.
Attempt(p) ==
    /\ pc[p] = "ready" /\ closing = {}
    /\ IF current # None
       THEN Hold(p, current) /\ Goto(p, "request") /\ UNCHANGED then
       ELSE Calls(p, "create", "request") /\ UNCHANGED client
    /\ UNCHANGED <<gen, connector, callVars>>

\* AWS answers: the message is published, sent or deleted.
Answered(p) ==
    /\ pc[p] = "request" /\ client[p] \in open
    /\ Leaves(p, "returned")
    /\ UNCHANGED <<connector, kind, try, faults>>

Fault == faults < MaxFaults /\ faults' = faults + 1

\* The error that sends the call to reconnect_client: a lost connection, or
\* nothing heard of AWS for 40 seconds.  The alias must still be known.
Reconnects(p) ==
    /\ IF known
       THEN Calls(p, "create", "failed") /\ UNCHANGED <<client, gen>>
       ELSE Leaves(p, "raised")
    /\ UNCHANGED <<connector, kind, try>>

Disconnected(p) ==
    /\ pc[p] = "request" /\ Fault
    /\ Reconnects(p)

\* The session of the client was closed before the answer came.
SessionClosed(p) ==
    /\ pc[p] = "request" /\ client[p] \notin open
    /\ UNCHANGED faults
    /\ Reconnects(p)

\* A request that AWS refuses, or that never reached it.  delete_message logs a
\* refusal and leaves it at that.
Refused(p) ==
    /\ pc[p] = "request" /\ Fault
    /\ Leaves(p, "failed")
    /\ UNCHANGED <<connector, kind, try>>

DeleteRefused(p) ==
    /\ pc[p] = "request" /\ Fault /\ kind[p] = "delete"
    /\ Leaves(p, "returned")
    /\ UNCHANGED <<connector, kind, try>>

\* The answer is an error page no retry can help, or one without a message id.
Unreadable(p) ==
    /\ pc[p] = "request" /\ Fault
    /\ Leaves(p, "raised")
    /\ UNCHANGED <<connector, kind, try>>

\* The task is cancelled: the loop takes that for one more lost connection.
Cancelled(p) ==
    /\ pc[p] = "request" /\ Fault
    /\ Leaves(p, "failed")
    /\ UNCHANGED <<connector, kind, try>>

\* It is cancelled where the connector waits for the lock or for a new client.
Interrupted(p) ==
    /\ Fault
    /\ CancelledReplacing(p) \/ CancelledWaiting(p)
    /\ UNCHANGED <<kind, try>>

\* AWS refuses the token of the client, or the client finds no credentials,
\* which is not retried.  (A refusal ends a deletion.)
BadToken(p) ==
    /\ BadTokens
    /\ pc[p] = "request" /\ Fault
    /\ \/ Calls(p, "drop", IF kind[p] = "delete" THEN "returned" ELSE "failed")
       \/ Calls(p, "drop", "raised")
    /\ UNCHANGED <<client, gen, connector, kind, try>>

\* The error reaches the loop: three attempts (four to delete), then it is raised.
Retry(p) ==
    /\ pc[p] = "failed"
    /\ IF try[p] >= Tries(p)
       THEN Goto(p, "raised") /\ UNCHANGED try
       ELSE try' = [try EXCEPT ![p] = @ + 1] /\ Goto(p, "ready")
    /\ UNCHANGED <<caller, connector, kind, faults>>

-----------------------------------------------------------------------------
Progress(p) ==
    \/ Start(p) \/ Attempt(p) \/ Retry(p) \/ SessionClosed(p)
    \/ Answered(p) \/ Connector(CloseOld(p))
    \/ Connector(EnterCreate(p)) \/ Connector(LockCreate(p))
    \/ Connector(Made(p)) \/ Connector(MakeFails(p))
    \/ Connector(EnterDrop(p)) \/ Connector(LockDrop(p))
    \/ Connector(Drop(p)) \/ Connector(Dropped(p))

Failure(p) ==
    \/ NoQueue(p) \/ Disconnected(p) \/ Refused(p) \/ DeleteRefused(p)
    \/ Unreadable(p) \/ Cancelled(p) \/ Interrupted(p) \/ BadToken(p)

Next ==
    \/ \E p \in Callers : Progress(p) \/ Failure(p)
    \/ Connector(Close) \/ Connector(Closed) \/ Connector(Age)

Spec == Init /\ [][Next]_vars

\* Locks are served in the order they were asked for, requests time out, and
\* close() closes its clients or gives up after three seconds.
FairSpec ==
    /\ Spec
    /\ \A p \in Callers : SF_vars(Progress(p))
    /\ WF_vars(Connector(Closed))

-----------------------------------------------------------------------------
(* Properties.                                                                *)

\* Every variable stays within its type.
TypeOK ==
    /\ current \in 0..made /\ made <= MaxClients
    /\ open \subseteq 1..made /\ default \subseteq 1..made
    /\ closing \subseteq 1..made
    /\ \A p \in Callers : try[p] \in 1..Tries(p) /\ gen[p] \in 0..closes /\ client[p] \in 0..made

\* A client that was closed does not stay the one that is handed out: it is in
\* the dict only while the coroutine that drops it is about to take it out.
ClosedIsNotHandedOut ==
    current # None /\ current \notin open => \E p \in Callers : pc[p] = "dropped"

\* Someone is bound to close the client.
WillBeClosed(c) ==
    \/ c \in closing
    \/ \E p \in Callers : client[p] = c /\ pc[p] \in {"replacing", "dropping"}

\* An entry is emptied by a coroutine that closed another client than this one.
OvertakenDrop(c) == \E p \in Callers : pc[p] = "dropped" /\ client[p] # c

\* The coroutine that replaced the client is cancelled before it closes it.
ReplacingInterrupted(c) ==
    /\ faults' # faults
    /\ \E p \in Callers : client[p] = c /\ pc[p] = "replacing" /\ pc'[p] # "replacing"

\* No client is forgotten with its connections open: one that leaves the dict is
\* closed by the coroutine that replaced or dropped it, or by close().  The
\* locks are not enough for that, since close() replaces them while a creation
\* holds one; the old client is the one found after the new one was made.  There
\* are two exceptions: a close_client that close() overtook empties the entry of
\* a client that is not the one it closed, and a cancellation in the second
\* before a replaced client is closed is swallowed together with the closing.
NothingForgotten ==
    [][\A c \in open : (c = current \/ WillBeClosed(c)) =>
          (\/ c = current' \/ c \notin open' \/ WillBeClosed(c)'
           \/ OvertakenDrop(c) /\ current' = None
           \/ ReplacingInterrupted(c))]_vars

\* Every call ends, whatever the other coroutines, AWS and close() do.
AllEnd == <>(\A p \in Callers : pc[p] \in {"returned", "raised"})

\* Not so: what README.md says of the options, that a request is made with their
\* region and endpoint.  close() forgets what was recorded of them, and a client
\* that a coroutine is about to make meanwhile has neither.
RequestsAsConfigured ==
    \A p \in Callers : pc[p] = "request" => client[p] \notin default

=============================================================================
