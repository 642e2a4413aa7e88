--------------------------- MODULE AwsCallsProofs ---------------------------
(* Safety of AwsCalls, and of the ClientConnector in it, for any number of    *)
(* coroutines, clients and failures.                                          *)
EXTENDS AwsCalls, TLAPS

\* Where create_client and close_client may return to.
Places == {"ready", "request", "failed", "returned", "raised"}

Steps == Holding \cup Places \cup {"new", "create", "lockCreate", "drop", "lockDrop"}

CallerTyped ==
    /\ pc \in [Callers -> Steps] /\ then \in [Callers -> Places]
    /\ client \in [Callers -> 0..made] /\ gen \in [Callers -> 0..closes]

ConnectorTyped ==
    /\ made \in 0..MaxClients /\ current \in 0..made
    /\ open \subseteq 1..made /\ default \subseteq 1..made /\ closing \subseteq 1..made
    /\ closes \in Nat

CallTyped ==
    /\ kind \in Kinds
    /\ try \in [Callers -> Nat] /\ faults \in Nat
    /\ \A p \in Callers : try[p] \in 1..Tries(p)

Typed == CallerTyped /\ ConnectorTyped /\ CallTyped

\* What is closed is no longer the client that is handed out.
Retired ==
    /\ current \notin closing
    /\ \A p \in Callers : pc[p] = "replacing" => client[p] \notin {None, current}
    /\ \A p \in Callers : pc[p] = "dropped" => client[p] \notin open

IndInv == Typed /\ Retired /\ ClosedIsNotHandedOut

LEMMA InitInv == Init => IndInv
<1> SUFFICES ASSUME Init PROVE IndInv
  OBVIOUS
<1>1. Typed
  <2> USE DEF CallerTyped, ConnectorTyped, CallTyped
  <2>1. /\ pc \in [Callers -> Steps] /\ then \in [Callers -> Places]
        /\ client \in [Callers -> 0..made] /\ gen \in [Callers -> 0..closes]
    BY DEF Init, ConnectorInit, Steps, Holding, Places, None
  <2>2. /\ made \in 0..MaxClients /\ current \in 0..made /\ closes \in Nat
        /\ open \subseteq 1..made /\ default \subseteq 1..made /\ closing \subseteq 1..made
    BY BoundsAreNatural DEF Init, ConnectorInit, None
  <2>3. /\ try \in [Callers -> Nat] /\ faults \in Nat
        /\ kind \in Kinds /\ \A p \in Callers : try[p] \in 1..Tries(p)
    BY DEF Init, Tries
  <2> QED
    BY <2>1, <2>2, <2>3 DEF Typed
<1>2. Retired /\ ClosedIsNotHandedOut
  BY DEF Init, ConnectorInit, Retired, ClosedIsNotHandedOut, None
<1> QED
  BY <1>1, <1>2 DEF IndInv

-----------------------------------------------------------------------------
(* Types.                                                                     *)

\* What the ways in and out of create_client and close_client do to a coroutine.
LEMMA CallerTypes ==
    ASSUME Typed, NEW p \in Callers
    PROVE  /\ \A what \in Steps, next \in Places :
                Calls(p, what, next) => pc' \in [Callers -> Steps] /\ then' \in [Callers -> Places]
           /\ \A c \in 0..made' : made' \in made..(made + 1) /\ Returns(p, c) =>
                /\ pc' \in [Callers -> Steps] /\ then' \in [Callers -> Places]
                /\ client' \in [Callers -> 0..made'] /\ gen' \in [Callers -> 0..closes]
           /\ \A place \in Places : Leaves(p, place) =>
                /\ pc' \in [Callers -> Steps] /\ then' \in [Callers -> Places]
                /\ client' \in [Callers -> 0..made] /\ gen' \in [Callers -> 0..closes]
<1> USE DEF Typed, CallerTyped, ConnectorTyped, Steps, Places, Goto, Hold, None
<1>1. ASSUME NEW what \in Steps, NEW next \in Places, Calls(p, what, next)
      PROVE  pc' \in [Callers -> Steps] /\ then' \in [Callers -> Places]
    BY <1>1 DEF Calls
<1>2. ASSUME NEW c \in 0..made', made' \in made..(made + 1), Returns(p, c)
      PROVE  /\ pc' \in [Callers -> Steps] /\ then' \in [Callers -> Places]
             /\ client' \in [Callers -> 0..made'] /\ gen' \in [Callers -> 0..closes]
    BY <1>2 DEF Returns
<1>3. ASSUME NEW place \in Places, Leaves(p, place)
      PROVE  /\ pc' \in [Callers -> Steps] /\ then' \in [Callers -> Places]
             /\ client' \in [Callers -> 0..made] /\ gen' \in [Callers -> 0..closes]
    BY <1>3 DEF Leaves
<1> QED
    BY <1>1, <1>2, <1>3

\* The three ways in and out, and the steps made of them, by what they leave alone.
Requesting(p) ==
    \/ Attempt(p) \/ NoQueue(p) \/ SessionClosed(p) \/ Answered(p) \/ Disconnected(p)
    \/ Refused(p) \/ DeleteRefused(p) \/ Unreadable(p) \/ Cancelled(p) \/ BadToken(p)
    \/ (CancelledWaiting(p) /\ Fault /\ UNCHANGED <<kind, try>>)

LEMMA RequestTypes ==
    ASSUME Typed, NEW p \in Callers, Requesting(p)
    PROVE  CallerTyped' /\ UNCHANGED <<connector, kind, try>> /\ (Fault \/ UNCHANGED faults)
<1> USE CallerTypes DEF Typed, CallerTyped, Steps, Places, callVars, caller, connector
<1>1. CASE Attempt(p)
    BY <1>1 DEF Attempt, Hold, Goto, ConnectorTyped
<1>2. CASE NoQueue(p)
    BY <1>2 DEF NoQueue, Goto
<1>3. CASE SessionClosed(p) \/ Disconnected(p)
    BY <1>3 DEF SessionClosed, Disconnected, Reconnects
<1>4. CASE Answered(p)
    BY <1>4 DEF Answered
<1>5. CASE Refused(p) \/ DeleteRefused(p) \/ Unreadable(p) \/ Cancelled(p)
    BY <1>5 DEF Refused, DeleteRefused, Unreadable, Cancelled
<1>6. CASE BadToken(p)
    BY <1>6 DEF BadToken
<1>7. CASE CancelledWaiting(p) /\ Fault /\ UNCHANGED <<kind, try>>
    BY <1>7 DEF CancelledWaiting
<1> QED
    BY <1>1, <1>2, <1>3, <1>4, <1>5, <1>6, <1>7 DEF Requesting

LEMMA TypeStep == Typed /\ [Next]_vars => Typed'
<1> SUFFICES ASSUME Typed, [Next]_vars PROVE Typed'
    OBVIOUS
<1> USE DEF Typed, ConnectorTyped, CallTyped
<1>1. ASSUME NEW p \in Callers, Requesting(p) PROVE Typed'
  <2>1. CallerTyped' /\ UNCHANGED <<connector, kind, try>> /\ (Fault \/ UNCHANGED faults)
    BY <1>1, RequestTypes
  <2> QED
    BY <2>1 DEF connector, Tries, Fault
<1>2. ASSUME NEW p \in Callers, Start(p) PROVE Typed'
  <2>1. CallerTyped'
    BY <1>2, CallerTypes DEF Start, WantsClient, CallerTyped, Goto, Steps, Places
  <2> QED
    BY <1>2, <2>1 DEF Start, callVars, Tries
<1>3. ASSUME NEW p \in Callers, Retry(p) PROVE Typed'
  <2>1. CallerTyped'
    BY <1>3 DEF Retry, CallerTyped, Goto, Steps, Places, caller, connector
  <2>2. try' \in [Callers -> Nat] /\ \A q \in Callers : try'[q] \in 1..Tries(q)
    BY <1>3 DEF Retry, Tries
  <2> QED
    BY <1>3, <2>1, <2>2 DEF Retry, connector, Tries
<1>4. ASSUME NEW p \in Callers, EnterCreate(p) \/ LockCreate(p) PROVE CallerTyped' /\ ConnectorTyped'
  <2>1. PICK g \in 0..closes : \/ Acquired(p, g)
                               \/ /\ Goto(p, "lockCreate") /\ gen' = [gen EXCEPT ![p] = g]
                                  /\ UNCHANGED <<then, client>>
    BY <1>4 DEF EnterCreate, LockCreate, CallerTyped
  <2>2. UNCHANGED <<current, made, open, default, closes, closing>>
    BY <1>4 DEF EnterCreate, LockCreate
  <2>3. CASE Acquired(p, g) /\ Shares
    BY <2>1, <2>2, <2>3, CallerTypes DEF Acquired, CallerTyped
  <2>4. CASE ~(Acquired(p, g) /\ Shares)
    BY <2>1, <2>2, <2>4 DEF Acquired, CallerTyped, Goto, Steps, Holding
  <2> QED
    BY <2>2, <2>3, <2>4
<1>5. ASSUME NEW p \in Callers, Made(p) PROVE CallerTyped' /\ ConnectorTyped'
  <2>1. ConnectorTyped' /\ made' = made + 1 /\ UNCHANGED closes
    <3>1. made < MaxClients /\ made' = made + 1 /\ current' = made' /\ open' = open \cup {made'}
          /\ default' \subseteq default \cup {made'} /\ UNCHANGED <<closes, closing>>
      BY <1>5 DEF Made, Installed
    <3>2. made' \in 0..MaxClients /\ current' \in 0..made' /\ 1..made \subseteq 1..made' /\ made' \in 1..made'
      BY <3>1, BoundsAreNatural
    <3> QED
      BY <3>1, <3>2
  <2>2. CASE current # None
    BY <1>5, <2>1, <2>2 DEF Made, Hold, Goto, CallerTyped, Steps, Holding
  <2>3. CASE current = None
    BY <1>5, <2>1, <2>3, CallerTypes DEF Made, CallerTyped
  <2> QED
    BY <2>1, <2>2, <2>3
<1>6. ASSUME NEW p \in Callers, MakeFails(p) PROVE CallerTyped' /\ ConnectorTyped'
    BY <1>6, CallerTypes DEF MakeFails, CallerTyped, connector, Places
<1>7. ASSUME NEW p \in Callers, CloseOld(p) PROVE CallerTyped' /\ ConnectorTyped'
  <2>1. UNCHANGED <<current, made, default, closes, closing>> /\ open' \subseteq open
    BY <1>7 DEF CloseOld
  <2>2. PICK c \in 0..made : Returns(p, c)
    BY <1>7 DEF CloseOld
  <2>3. CallerTyped'
    BY <2>1, <2>2, CallerTypes DEF CallerTyped
  <2> QED
    BY <2>1, <2>3
<1>8. ASSUME NEW p \in Callers, EnterDrop(p) \/ LockDrop(p) PROVE CallerTyped' /\ ConnectorTyped'
  <2>1. UNCHANGED connector
    BY <1>8 DEF EnterDrop, LockDrop
  <2>2. CASE Returns(p, None)
    BY <2>1, <2>2, CallerTypes DEF CallerTyped, connector, None
  <2>3. CASE ~Returns(p, None)
    BY <1>8, <2>1, <2>3 DEF EnterDrop, LockDrop, Drops, CallerTyped, Goto, Hold, Steps, Holding, connector
  <2> QED
    BY <2>1, <2>2, <2>3 DEF connector
<1>9. ASSUME NEW p \in Callers, Drop(p) PROVE CallerTyped' /\ ConnectorTyped'
    BY <1>9 DEF Drop, CallerTyped, Goto, Steps, Holding, caller
<1>10. ASSUME NEW p \in Callers, Dropped(p) PROVE CallerTyped' /\ ConnectorTyped'
    BY <1>10, CallerTypes DEF Dropped, CallerTyped, None
<1>11. ASSUME Close \/ Closed \/ Age PROVE CallerTyped' /\ ConnectorTyped'
  <2>1. UNCHANGED <<pc, then, client, gen, made, default>>
    BY <1>11 DEF Close, Closed, Age, caller
  <2>2. closes' \in Nat /\ closes <= closes'
    BY <1>11 DEF Close, Closed, Age
  <2>3. CallerTyped'
    BY <2>1, <2>2 DEF CallerTyped
  <2>4. current' \in 0..made
    BY <1>11 DEF Close, Closed, Age, None
  <2>5. open' \subseteq 1..made
    BY <1>11 DEF Close, Closed, Age
  <2>6. closing' \subseteq 1..made
    <3>1. {current} \ {None} \subseteq 1..made
      BY DEF None
    <3> QED
      BY <1>11, <3>1 DEF Close, Closed, Age
  <2>7. ConnectorTyped'
    BY <2>1, <2>2, <2>4, <2>5, <2>6
  <2> QED
    BY <2>3, <2>7
<1>12. ASSUME NEW p \in Callers, CancelledReplacing(p), Fault, UNCHANGED <<kind, try>> PROVE Typed'
  <2>1. UNCHANGED connector
    BY <1>12 DEF CancelledReplacing
  <2>2. PICK c \in 0..made : Returns(p, c)
    BY <1>12 DEF CancelledReplacing
  <2>3. CallerTyped'
    BY <2>1, <2>2, CallerTypes DEF CallerTyped, connector
  <2> QED
    BY <1>12, <2>1, <2>3 DEF connector, Tries, Fault
<1>13. CASE UNCHANGED vars
    BY <1>13 DEF vars, caller, connector, callVars, CallerTyped, Tries
<1>14. ASSUME CallerTyped', ConnectorTyped', UNCHANGED callVars PROVE Typed'
    BY <1>14 DEF callVars, Tries
<1> QED
    BY <1>1, <1>2, <1>3, <1>4, <1>5, <1>6, <1>7, <1>8, <1>9, <1>10, <1>11, <1>13, <1>14, <1>12
       DEF Next, Progress, Failure, Interrupted, Connector, Requesting
-----------------------------------------------------------------------------
(* Clients that are replaced, dropped or closed.                              *)

\* Coroutines that have a client in their hands to close it, or just did.
Engaged == {"replacing", "dropping", "dropped"}

\* Nobody begins or ends such a task, and the connector's clients stay.
Quiet ==
    /\ \A q \in Callers : pc[q] \in Engaged \/ pc'[q] \in Engaged
                           => pc'[q] = pc[q] /\ client'[q] = client[q]
    /\ UNCHANGED <<current, made, open, closing>>

\* A coroutine that returns, or goes anywhere else but there, is quiet.
LEMMA QuietMoves ==
    ASSUME Typed, NEW p \in Callers, pc[p] \notin Engaged, UNCHANGED <<current, made, open, closing>>
    PROVE  /\ \A c \in 0..made : Returns(p, c) => Quiet
           /\ \A place \in Steps \ Engaged :
                /\ Goto(p, place) /\ UNCHANGED client => Quiet
                /\ Goto(p, place) /\ (\E c \in 0..made : Hold(p, c)) => Quiet
<1> USE DEF Typed, CallerTyped, Quiet, Engaged, Places, Goto, Hold
<1>1. ASSUME NEW c \in 0..made, Returns(p, c) PROVE Quiet
    BY <1>1 DEF Returns
<1>2. ASSUME NEW place \in Steps \ Engaged, Goto(p, place) /\ UNCHANGED client PROVE Quiet
    BY <1>2
<1>3. ASSUME NEW place \in Steps \ Engaged, NEW c \in 0..made, Goto(p, place) /\ Hold(p, c) PROVE Quiet
    BY <1>3
<1> QED
    BY <1>1, <1>2, <1>3

LEMMA QuietSteps ==
    ASSUME Typed, NEW p \in Callers,
           \/ Requesting(p) \/ Start(p) \/ Retry(p)
           \/ EnterCreate(p) \/ LockCreate(p) \/ MakeFails(p)
    PROVE  Quiet
<1>0. None \in 0..made /\ current \in 0..made
    BY DEF Typed, ConnectorTyped, None
<1>1. UNCHANGED <<current, made, open, closing>> /\ pc[p] \notin Engaged
    BY DEF Requesting, Attempt, NoQueue, SessionClosed, Answered, Disconnected, Refused,
           DeleteRefused, Unreadable, Cancelled, CancelledWaiting, BadToken, Reconnects, Start, Retry, EnterCreate,
           LockCreate, MakeFails, connector, Engaged
<1>2. \/ \E c \in 0..made : Returns(p, c)
      \/ \E place \in Steps \ Engaged :
           Goto(p, place) /\ (UNCHANGED client \/ \E c \in 0..made : Hold(p, c))
  <2> USE <1>0 DEF Steps, Engaged, Places, Holding
  <2>1. CASE Attempt(p) \/ NoQueue(p) \/ Start(p) \/ Retry(p)
    BY <2>1 DEF Attempt, NoQueue, Start, WantsClient, Retry, Calls, caller
  <2>2. CASE SessionClosed(p) \/ Disconnected(p)
    BY <2>2 DEF SessionClosed, Disconnected, Reconnects, Calls, Leaves
  <2>3. CASE Answered(p) \/ Refused(p) \/ DeleteRefused(p) \/ Unreadable(p) \/ Cancelled(p) \/ MakeFails(p)
             \/ CancelledWaiting(p)
    BY <2>3 DEF Answered, Refused, DeleteRefused, Unreadable, Cancelled, MakeFails, CancelledWaiting, Leaves
  <2>4. CASE BadToken(p)
    BY <2>4 DEF BadToken, Calls
  <2>5. CASE EnterCreate(p) \/ LockCreate(p)
    BY <2>5 DEF EnterCreate, LockCreate, Acquired
  <2> QED
    BY <2>1, <2>2, <2>3, <2>4, <2>5 DEF Requesting
<1> QED
    BY <1>1, <1>2, QuietMoves

\* The steps that are not quiet.
Turn(p) == \/ Made(p) \/ CloseOld(p) \/ (CancelledReplacing(p) /\ faults' # faults)
           \/ EnterDrop(p) \/ LockDrop(p) \/ Drop(p) \/ Dropped(p)

LEMMA StepCases ==
    ASSUME Typed, [Next]_vars
    PROVE  Quiet \/ (\E p \in Callers : Turn(p)) \/ Close \/ Closed
<1>1. CASE Age \/ UNCHANGED vars
    BY <1>1 DEF Age, vars, caller, connector, Quiet
<1> QED
  <2>1. Fault => faults' # faults
    BY DEF Fault, Typed, CallTyped
  <2> QED
    BY <1>1, <2>1, QuietSteps DEF Next, Progress, Failure, Interrupted, Connector, Requesting, Turn

Safe == Retired /\ ClosedIsNotHandedOut

LEMMA SafeStep == Typed /\ Safe /\ [Next]_vars => Safe'
<1> SUFFICES ASSUME Typed, Safe, [Next]_vars PROVE Safe'
    OBVIOUS
<1> USE DEF Safe, Retired, ClosedIsNotHandedOut, Typed, CallerTyped, ConnectorTyped
<1>1. CASE Quiet
    BY <1>1 DEF Quiet, Engaged
<1>2. ASSUME NEW p \in Callers, Made(p) PROVE Safe'
  <2>1. made' = made + 1 /\ current' = made + 1 /\ open' = open \cup {made + 1} /\ closing' = closing
        /\ pc[p] \in {"making", "makingDefault"}
    BY <1>2 DEF Made, Installed
  <2>2. \A q \in Callers \ {p} : pc'[q] = pc[q] /\ client'[q] = client[q]
    BY <1>2 DEF Made, Returns, Goto, Hold
  <2>3. pc'[p] # "dropped" /\ (pc'[p] = "replacing" => client'[p] = current /\ current # None)
    BY <1>2 DEF Made, Returns, Goto, Hold, Places
  <2>4. made + 1 \notin 0..made /\ current \in 0..made /\ \A q \in Callers : client[q] \in 0..made
    OBVIOUS
  <2>5. current' \in open' /\ current' \notin closing'
    BY <2>1, <2>4
  <2>6. \A q \in Callers : pc'[q] = "replacing" => client'[q] \notin {None, current'}
    BY <2>1, <2>2, <2>3, <2>4
  <2>7. \A q \in Callers : pc'[q] = "dropped" => client'[q] \notin open'
    BY <2>1, <2>2, <2>3, <2>4
  <2> QED
    BY <2>5, <2>6, <2>7
<1>3. ASSUME NEW p \in Callers, CloseOld(p) PROVE Safe'
  <2>1. pc[p] = "replacing" /\ open' = open \ {client[p]} /\ UNCHANGED <<current, closing>>
    BY <1>3 DEF CloseOld
  <2>2. \A q \in Callers \ {p} : pc'[q] = pc[q] /\ client'[q] = client[q]
    BY <1>3 DEF CloseOld, Returns, Goto, Hold
  <2>3. pc'[p] \in Places
    BY <1>3 DEF CloseOld, Returns, Goto
  <2> QED
    BY <2>1, <2>2, <2>3 DEF Places
<1>4. ASSUME NEW p \in Callers, CancelledReplacing(p) PROVE Safe'
  <2>1. UNCHANGED <<current, open, closing>>
    BY <1>4 DEF CancelledReplacing, connector
  <2>2. \A q \in Callers \ {p} : pc'[q] = pc[q] /\ client'[q] = client[q]
    BY <1>4 DEF CancelledReplacing, Returns, Goto, Hold
  <2>3. pc[p] = "replacing" /\ pc'[p] \in Places
    BY <1>4 DEF CancelledReplacing, Returns, Goto
  <2> QED
    BY <2>1, <2>2, <2>3 DEF Places
<1>5. ASSUME NEW p \in Callers, EnterDrop(p) \/ LockDrop(p) PROVE Safe'
  <2>1. UNCHANGED <<current, open, closing>> /\ pc[p] \in {"drop", "lockDrop"}
    BY <1>5 DEF EnterDrop, LockDrop, connector
  <2>2. \A q \in Callers \ {p} : pc'[q] = pc[q] /\ client'[q] = client[q]
    BY <1>5 DEF EnterDrop, LockDrop, Drops, Returns, Goto, Hold
  <2>3. pc'[p] \notin {"replacing", "dropped"}
    BY <1>5 DEF EnterDrop, LockDrop, Drops, Returns, Goto, Hold, Places
  <2> QED
    BY <2>1, <2>2, <2>3
<1>6. ASSUME NEW p \in Callers, Drop(p) PROVE Safe'
    BY <1>6 DEF Drop, Goto, caller
<1>7. ASSUME NEW p \in Callers, Dropped(p) PROVE Safe'
  <2>1. current' = None /\ UNCHANGED <<open, closing, made>>
    BY <1>7 DEF Dropped
  <2>2. \A q \in Callers \ {p} : pc'[q] = pc[q] /\ client'[q] = client[q]
    BY <1>7 DEF Dropped, Returns, Goto, Hold
  <2>3. pc'[p] \in Places /\ None \notin closing
    BY <1>7 DEF Dropped, Returns, Goto, None
  <2> QED
    BY <2>1, <2>2, <2>3 DEF Places
<1>8. CASE Close
  <2>1. current' = None /\ closing' = {current} \ {None} /\ UNCHANGED <<pc, client, open>>
    BY <1>8 DEF Close, caller
  <2> QED
    BY <2>1
<1>9. CASE Closed
  <2>1. open' = open \ closing /\ closing' = {} /\ UNCHANGED <<pc, client, current>>
    BY <1>9 DEF Closed, caller
  <2> QED
    BY <2>1
<1> QED
    BY <1>1, <1>2, <1>3, <1>5, <1>6, <1>7, <1>8, <1>9, <1>4, StepCases DEF Turn

LEMMA Invariance == Spec => []IndInv
<1>1. IndInv /\ [Next]_vars => IndInv'
    BY TypeStep, SafeStep DEF IndInv, Safe
<1> QED
    BY InitInv, <1>1, PTL DEF Spec

\* A client that somebody is bound to close, or that is handed out, stays so until
\* it is closed, unless close_client empties the entry of another one than it closed,
\* or the coroutine that is to close it is cancelled.
LEMMA KeptInMind ==
    ASSUME IndInv, [Next]_vars, NEW c \in open, c = current \/ WillBeClosed(c)
    PROVE  \/ c = current' \/ c \notin open' \/ WillBeClosed(c)'
           \/ OvertakenDrop(c) /\ current' = None
           \/ ReplacingInterrupted(c)
<1> USE DEF IndInv, Typed, CallerTyped, ConnectorTyped, WillBeClosed
<1>1. CASE Quiet
    BY <1>1 DEF Quiet, Engaged
<1>2. ASSUME NEW p \in Callers, Made(p) PROVE WillBeClosed(c)'
  <2>1. closing' = closing /\ pc[p] \in {"making", "makingDefault"}
    BY <1>2 DEF Made, Installed
  <2>2. \A q \in Callers \ {p} : pc'[q] = pc[q] /\ client'[q] = client[q]
    BY <1>2 DEF Made, Returns, Goto, Hold
  <2>3. c = current => pc'[p] = "replacing" /\ client'[p] = c
    BY <1>2 DEF Made, Goto, Hold, None
  <2> QED
    BY <2>1, <2>2, <2>3
<1>3. ASSUME NEW p \in Callers, CloseOld(p) PROVE c = current' \/ c \notin open' \/ WillBeClosed(c)'
  <2>1. open' = open \ {client[p]} /\ UNCHANGED <<current, closing>>
    BY <1>3 DEF CloseOld
  <2>2. \A q \in Callers \ {p} : pc'[q] = pc[q] /\ client'[q] = client[q]
    BY <1>3 DEF CloseOld, Returns, Goto, Hold
  <2> QED
    BY <2>1, <2>2
<1>4. ASSUME NEW p \in Callers, CancelledReplacing(p) /\ faults' # faults
      PROVE  c = current' \/ WillBeClosed(c)' \/ ReplacingInterrupted(c)
  <2>1. UNCHANGED <<current, closing>>
    BY <1>4 DEF CancelledReplacing, connector
  <2>2. \A q \in Callers \ {p} : pc'[q] = pc[q] /\ client'[q] = client[q]
    BY <1>4 DEF CancelledReplacing, Returns, Goto, Hold
  <2>3. pc[p] = "replacing" /\ pc'[p] # "replacing"
    BY <1>4 DEF CancelledReplacing, Returns, Goto, Places
  <2>4. CASE client[p] = c
    BY <1>4, <2>3, <2>4 DEF ReplacingInterrupted
  <2>5. CASE client[p] # c
    BY <2>1, <2>2, <2>3, <2>5
  <2> QED
    BY <2>4, <2>5
<1>5. ASSUME NEW p \in Callers, EnterDrop(p) \/ LockDrop(p) PROVE c = current' \/ WillBeClosed(c)'
  <2>1. UNCHANGED <<current, closing>> /\ pc[p] \in {"drop", "lockDrop"}
    BY <1>5 DEF EnterDrop, LockDrop, connector
  <2>2. \A q \in Callers \ {p} : pc'[q] = pc[q] /\ client'[q] = client[q]
    BY <1>5 DEF EnterDrop, LockDrop, Drops, Returns, Goto, Hold
  <2> QED
    BY <2>1, <2>2
<1>6. ASSUME NEW p \in Callers, Drop(p) PROVE c = current' \/ c \notin open' \/ WillBeClosed(c)'
    BY <1>6 DEF Drop, Goto, caller
<1>7. ASSUME NEW p \in Callers, Dropped(p)
      PROVE  WillBeClosed(c)' \/ (OvertakenDrop(c) /\ current' = None)
  <2>1. current' = None /\ closing' = closing /\ pc[p] = "dropped"
    BY <1>7 DEF Dropped
  <2>2. \A q \in Callers \ {p} : pc'[q] = pc[q] /\ client'[q] = client[q]
    BY <1>7 DEF Dropped, Returns, Goto, Hold
  <2>3. OvertakenDrop(c)
    BY <2>1 DEF OvertakenDrop, Retired
  <2> QED
    BY <2>1, <2>3
<1>8. CASE Close
    BY <1>8 DEF Close, caller, None
<1>9. CASE Closed
    BY <1>9 DEF Closed, caller
<1> QED
    BY <1>1, <1>2, <1>3, <1>5, <1>6, <1>7, <1>8, <1>9, <1>4, StepCases DEF Turn

-----------------------------------------------------------------------------
(* Theorems.                                                                  *)

\* The types, for the connector and the calls that use it.
THEOREM TypeCorrect == Spec => []TypeOK
<1>1. IndInv => TypeOK
    BY BoundsAreNatural DEF IndInv, Typed, CallerTyped, ConnectorTyped, CallTyped, TypeOK
<1> QED
    BY Invariance, <1>1, PTL

\* Whoever asks for the client of the alias gets one that is open, or one that is
\* being dropped at this moment (aiobotocore_connector.py 125-198, 200-247).
THEOREM OpenIsHandedOut == Spec => []ClosedIsNotHandedOut
<1>1. IndInv => ClosedIsNotHandedOut
    BY DEF IndInv
<1> QED
    BY Invariance, <1>1, PTL

\* A client leaves the dict with somebody bound to close it, though close()
\* replaces the locks under those who create and replace clients; a swallowed
\* cancellation is what may still leave it open (aiobotocore_connector.py 184-193).
THEOREM NoneForgotten == Spec => NothingForgotten
<1>1. IndInv /\ [Next]_vars
      => [\A c \in open : (c = current \/ WillBeClosed(c)) =>
            (\/ c = current' \/ c \notin open' \/ WillBeClosed(c)'
             \/ OvertakenDrop(c) /\ current' = None
             \/ ReplacingInterrupted(c))]_vars
    BY KeptInMind
<1> QED
    BY Invariance, <1>1, PTL DEF Spec, NothingForgotten
=============================================================================
