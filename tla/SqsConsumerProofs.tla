-------------------------- MODULE SqsConsumerProofs --------------------------
(* Safety of SqsConsumer, and of SqsDedup that adds a history to it, for any   *)
(* number of processes and messages, any batch size, window, visibility timeout *)
(* and number of attempts.                                                     *)
EXTENDS SqsDedup, FiniteSetTheorems, TLAPS

\* Stamping a uuid and purging the old entries yields a table of stamps.
LEMMA RememberType ==
  ASSUME NEW f \in [Messages -> {Absent} \cup 0..Window], NEW u \in Messages
  PROVE  Remember(f, u) \in [Messages -> {Absent} \cup 0..Window]
BY SqsConstants DEF Remember, Absent

\* Every step keeps the variables within their types.
LEMMA TypeStep == TypeOK /\ [Next]_vars => TypeOK'
<1> SUFFICES ASSUME TypeOK, [Next]_vars PROVE TypeOK'
  OBVIOUS
<1> USE SqsConstants, NoOneIsNoConsumer DEF TypeOK, Loops, Slots, NoOne, Absent
<1>1. CASE Tick
  BY <1>1 DEF Tick
<1>2. ASSUME NEW c \in Consumers, Begin(c) PROVE TypeOK'
  BY <1>2 DEF Begin, NextIteration, external
<1>3. ASSUME NEW c \in Consumers, Dispatch(c) PROVE TypeOK'
  BY <1>3 DEF Dispatch, external
<1>4. ASSUME NEW c \in Consumers, BatchDone(c) PROVE TypeOK'
  BY <1>4 DEF BatchDone, NextIteration, external
<1>5. ASSUME NEW c \in Consumers, NEW S \in SUBSET queue, Receive(c, S) PROVE TypeOK'
  BY <1>5 DEF Receive, HandOut
<1>6. ASSUME NEW c \in Consumers, NEW S \in SUBSET queue, ReceiveFails(c, S) PROVE TypeOK'
  BY <1>6 DEF ReceiveFails, HandOut, NextIteration
<1>7. ASSUME NEW c \in Consumers, Close(c) PROVE TypeOK'
  BY <1>7 DEF Close, external
<1>8. ASSUME NEW c \in Consumers, Crash(c) PROVE TypeOK'
  BY <1>8 DEF Crash, Idle, FirstTry, Forgotten
<1>9. ASSUME NEW c \in Consumers, Restart(c) PROVE TypeOK'
  BY <1>9 DEF Restart, external
<1>10. ASSUME NEW c \in Consumers, NEW m \in Messages, Discard(c, m) PROVE TypeOK'
  BY <1>10 DEF Discard, external
<1>11. ASSUME NEW c \in Consumers, NEW m \in Messages, IgnoreDuplicate(c, m) PROVE TypeOK'
  BY <1>11 DEF IgnoreDuplicate, external
<1>12. ASSUME NEW c \in Consumers, NEW m \in Messages, Invoke(c, m) PROVE TypeOK'
  <2>1. Remember(stamp[c], Uuid[m]) \in [Messages -> {Absent} \cup 0..Window]
    <3>1. stamp[c] \in [Messages -> {Absent} \cup 0..Window] /\ Uuid[m] \in Messages
      OBVIOUS
    <3> HIDE SqsConstants, NoOneIsNoConsumer DEF TypeOK, Loops, Slots, NoOne, Absent
    <3> QED
      BY <3>1, RememberType
  <2>2. stamp' \in [Consumers -> [Messages -> {Absent} \cup 0..Window]]
    BY <1>12, <2>1 DEF Invoke
  <2> QED
    BY <1>12, <2>2 DEF Invoke, external
<1>13. ASSUME NEW c \in Consumers, NEW m \in Messages, Return(c, m) PROVE TypeOK'
  BY <1>13 DEF Return, external
<1>14. ASSUME NEW c \in Consumers, NEW m \in Messages, InternalServiceError(c, m) PROVE TypeOK'
  <2>1. stamp' \in [Consumers -> [Messages -> {Absent} \cup 0..Window]]
    <3>1. CASE Kind[m] = "uuid"
      <4>1. stamp' = [stamp EXCEPT ![c][Uuid[m]] = Absent]
        BY <1>14, <3>1 DEF InternalServiceError
      <4> QED
        BY <4>1
    <3>2. CASE Kind[m] # "uuid"
      BY <1>14, <3>2 DEF InternalServiceError
    <3> QED
      BY <3>1, <3>2
  <2> QED
    BY <1>14, <2>1 DEF InternalServiceError, external
<1>15. ASSUME NEW c \in Consumers, NEW m \in Messages, DeleteConfirmed(c, m) PROVE TypeOK'
  <2>1. queue' \subseteq Messages /\ UNCHANGED <<hidden, holder>>
    BY <1>15 DEF DeleteConfirmed, Forget
  <2> QED
    BY <1>15, <2>1 DEF DeleteConfirmed, EndDeletion
<1>16. ASSUME NEW c \in Consumers, NEW m \in Messages, DeleteRefused(c, m) PROVE TypeOK'
  BY <1>16 DEF DeleteRefused, EndDeletion, external
<1>17. ASSUME NEW c \in Consumers, NEW m \in Messages, DeleteUnanswered(c, m) PROVE TypeOK'
  <2>1. queue' \subseteq Messages
    BY <1>17 DEF DeleteUnanswered
  <2>2. CASE UNCHANGED <<slot, loop>> /\ tries[c][m] < Attempts
             /\ tries' = [tries EXCEPT ![c][m] = tries[c][m] + 1]
    <3>1. tries[c][m] + 1 \in 1..Attempts
      BY <2>2
    <3>2. tries' \in [Consumers -> [Messages -> 1..Attempts]]
      BY <2>2, <3>1
    <3> QED
      BY <1>17, <2>1, <2>2, <3>2 DEF DeleteUnanswered
  <2>3. CASE DeletionRaises(c, m)
    <3>1. tries' = [tries EXCEPT ![c][m] = 1]
      BY <2>3 DEF DeletionRaises, EndDeletion
    <3>2. tries' \in [Consumers -> [Messages -> 1..Attempts]]
      BY <3>1
    <3>3. slot' \in [Consumers -> [Messages -> Slots]]
      <4>1. CASE slot' = [slot EXCEPT ![c][m] = "ended"]
        BY <4>1
      <4>2. CASE slot' = [slot EXCEPT ![c] = Idle]
        BY <4>2 DEF Idle
      <4> QED
        BY <2>3, <4>1, <4>2 DEF DeletionRaises, EndDeletion
    <3>4. loop' \in [Consumers -> Loops]
      BY <2>3 DEF DeletionRaises, EndDeletion, NextIteration
    <3> QED
      BY <1>17, <2>1, <3>2, <3>3, <3>4 DEF DeleteUnanswered
  <2> QED
    BY <1>17, <2>2, <2>3 DEF DeleteUnanswered
<1>18. ASSUME NEW c \in Consumers, Abandon(c) PROVE TypeOK'
  BY <1>18 DEF Abandon, NextIteration, Idle, external
<1>19. CASE UNCHANGED vars
  BY <1>19 DEF vars
<1> QED
  BY <1>1, <1>2, <1>3, <1>4, <1>5, <1>6, <1>7, <1>8, <1>9, <1>10, <1>11, <1>12, <1>13,
     <1>14, <1>15, <1>16, <1>17, <1>18, <1>19 DEF Next, LoopStep, HandlerStep

-----------------------------------------------------------------------------
(* The inductive invariant: NoMessageLost and StoppedIsDrained need to know    *)
(* why a deletion is under way and which handler tasks may exist at each point *)
(* of the receive loop; FifoOrder, that the messages before one that has been  *)
(* taken have left the queue.                                                  *)

\* A handler task deletes only what it has handled or can never handle.
DeleteJustified ==
    \A c \in Consumers, m \in Messages :
        slot[c][m] = "delete" => m \in settled \cup Discardable

\* Which handler tasks there are, by the position of the receive loop.
SlotsOfLoop ==
    \A c \in Consumers, m \in Messages :
        /\ loop[c] = "decode" => slot[c][m] \in {"none", "raw", "ended"}
        /\ loop[c] = "batch" => slot[c][m] # "raw"
        /\ loop[c] \notin {"decode", "batch"} => slot[c][m] = "none"

\* A message of a FIFO queue is taken when all earlier ones are gone.
TakenInOrder ==
    Fifo => \A c \in Consumers, m, n \in Messages :
               slot[c][m] # "none" /\ n < m => n \notin queue

Inv == TypeOK /\ DeleteJustified /\ NoMessageLost /\ SlotsOfLoop /\ TakenInOrder

\* The initial states satisfy the invariant.
LEMMA InitInv == Init => Inv
BY SqsConstants, NoOneIsNoConsumer
   DEF Init, Inv, TypeOK, Loops, Slots, NoOne, Absent, Idle, FirstTry, Forgotten,
       DeleteJustified, NoMessageLost, SlotsOfLoop, TakenInOrder

\* A set of at most one message has at most one element.
LEMMA AtMostOne ==
  ASSUME NEW S \in SUBSET Messages, Cardinality(S) <= 1, NEW x \in S, NEW y \in S
  PROVE  x = y
<1>1. IsFiniteSet(S)
  BY SqsConstants, FS_Subset
<1>2. SUFFICES ASSUME x # y PROVE FALSE
  OBVIOUS
<1>3. IsFiniteSet(S \ {x}) /\ Cardinality(S \ {x}) = Cardinality(S) - 1
  BY <1>1, FS_RemoveElement
<1>4. Cardinality(S) \in Nat /\ Cardinality(S \ {x}) \in Nat
  BY <1>1, <1>3, FS_CardinalityType
<1>5. Cardinality(S \ {x}) = 0
  BY <1>3, <1>4
<1>6. S \ {x} = {}
  BY <1>3, <1>5, FS_EmptySet
<1> QED
  BY <1>2, <1>6

\* What a receive_message call may return of a FIFO queue: a message with no
\* earlier one left in the queue.
LEMMA OldestFirst ==
  ASSUME TypeOK, Fifo, NEW S \in SUBSET queue, Deliverable(S),
         NEW m \in S, NEW n \in queue, n < m
  PROVE  FALSE
<1>1. n \in S
  BY DEF Deliverable
<1>2. S \in SUBSET Messages
  BY DEF TypeOK
<1>3. Cardinality(S) <= 1
  BY DEF Deliverable, Limit
<1>4. n = m
  BY <1>1, <1>2, <1>3, AtMostOne
<1>5. m \in Nat
  BY <1>2, SqsConstants
<1> QED
  BY <1>4, <1>5

-----------------------------------------------------------------------------
(* Every step keeps the invariant: first the steps of the receive loop and of  *)
(* the processes, then those of the handler tasks.                             *)

\* The steps of the receive loop, and stopping, crashing and restarting a
\* process, keep the invariant.
LEMMA LoopStepInv ==
  ASSUME Inv, TypeOK', NEW c \in Consumers,
         LoopStep(c) \/ Close(c) \/ Crash(c) \/ Restart(c)
  PROVE  Inv'
<1> USE DEF Inv, TypeOK, Loops, Slots, DeleteJustified, NoMessageLost, SlotsOfLoop,
            TakenInOrder
<1>1. CASE Begin(c)
  BY <1>1 DEF Begin, NextIteration, external
<1>2. CASE Dispatch(c)
  BY <1>2 DEF Dispatch, external
<1>3. CASE BatchDone(c)
  BY <1>3 DEF BatchDone, NextIteration, external
<1>4. ASSUME NEW S \in SUBSET queue, Receive(c, S) PROVE Inv'
  <2>1. TakenInOrder'
    <3> SUFFICES ASSUME Fifo, NEW d \in Consumers, NEW m \in Messages, NEW n \in Messages,
                        slot'[d][m] # "none", n < m, n \in queue'
                 PROVE  FALSE
      OBVIOUS
    <3>1. UNCHANGED queue /\ Deliverable(S)
      BY <1>4 DEF Receive, HandOut
    <3>2. slot[d][m] = "none" /\ m \in S
      BY <1>4, <3>1 DEF Receive
    <3> QED
      BY <3>1, <3>2, OldestFirst
  <2> QED
    BY <1>4, <2>1 DEF Receive, HandOut
<1>5. ASSUME NEW S \in SUBSET queue, ReceiveFails(c, S) PROVE Inv'
  BY <1>5 DEF ReceiveFails, HandOut, NextIteration
<1>6. CASE Close(c)
  BY <1>6 DEF Close, external
<1>7. CASE Crash(c)
  BY <1>7 DEF Crash, Idle
<1>8. CASE Restart(c)
  BY <1>8 DEF Restart, external
<1>9. CASE Abandon(c)
  BY <1>9 DEF Abandon, NextIteration, Idle, external
<1> QED
  BY <1>1, <1>2, <1>3, <1>4, <1>5, <1>6, <1>7, <1>8, <1>9 DEF LoopStep

\* What a step of delete_message may change: its own message may leave the
\* queue, its task or its batch may end.
LEMMA DeletionEffect ==
  ASSUME Inv, NEW c \in Consumers, NEW m \in Messages,
         DeleteConfirmed(c, m) \/ DeleteRefused(c, m) \/ DeleteUnanswered(c, m)
  PROVE  /\ m \in settled \cup Discardable
         /\ queue' \in {queue, queue \ {m}}
         /\ slot[c][m] \in {"raw", "delete"}
         /\ \/ UNCHANGED <<slot, loop>>
            \/ slot' = [slot EXCEPT ![c][m] = "ended"] /\ UNCHANGED loop
            \/ /\ loop[c] = "decode"
               /\ slot' = [slot EXCEPT ![c] = Idle]
               /\ loop' = [loop EXCEPT ![c] = NextIteration(c)]
         /\ UNCHANGED settled
<1>1. Deleting(c, m)
  BY DEF DeleteConfirmed, DeleteRefused, DeleteUnanswered
<1>2. m \in settled \cup Discardable /\ slot[c][m] \in {"raw", "delete"}
  BY <1>1 DEF Deleting, Malformed, Undecoded, Discardable, Inv, DeleteJustified
<1>3. CASE DeleteConfirmed(c, m)
  BY <1>2, <1>3 DEF DeleteConfirmed, Forget, EndDeletion
<1>4. CASE DeleteRefused(c, m)
  BY <1>2, <1>4 DEF DeleteRefused, EndDeletion, external
<1>5. CASE DeleteUnanswered(c, m)
  <2>1. CASE UNCHANGED <<slot, loop>>
    BY <1>2, <1>5, <2>1 DEF DeleteUnanswered
  <2>2. CASE DeletionRaises(c, m) /\ slot[c][m] = "delete"
    BY <1>2, <1>5, <2>2 DEF DeleteUnanswered, DeletionRaises, EndDeletion
  <2>3. CASE DeletionRaises(c, m) /\ slot[c][m] # "delete"
    BY <1>1, <1>2, <1>5, <2>3 DEF DeleteUnanswered, DeletionRaises, Deleting
  <2> QED
    BY <1>5, <2>1, <2>2, <2>3 DEF DeleteUnanswered
<1> QED
  BY <1>3, <1>4, <1>5

\* The steps of the handler tasks keep the invariant.
LEMMA HandlerStepInv ==
  ASSUME Inv, TypeOK', NEW c \in Consumers, NEW m \in Messages, HandlerStep(c, m)
  PROVE  Inv'
<1> USE DEF Inv, TypeOK, Loops, Slots, DeleteJustified, NoMessageLost, SlotsOfLoop,
            TakenInOrder
<1>1. CASE Discard(c, m)
  BY <1>1 DEF Discard, Discardable, external
<1>2. CASE IgnoreDuplicate(c, m)
  BY <1>2 DEF IgnoreDuplicate, external
<1>3. CASE Invoke(c, m)
  BY <1>3 DEF Invoke, external
<1>4. CASE Return(c, m)
  BY <1>4 DEF Return, external
<1>5. CASE InternalServiceError(c, m)
  BY <1>5 DEF InternalServiceError, external
<1>6. CASE DeleteConfirmed(c, m) \/ DeleteRefused(c, m) \/ DeleteUnanswered(c, m)
  <2>1. /\ m \in settled \cup Discardable
        /\ queue' \in {queue, queue \ {m}}
        /\ UNCHANGED settled
    BY <1>6, DeletionEffect
  <2>2. NoMessageLost'
    BY <2>1
  <2>3. CASE UNCHANGED <<slot, loop>>
    BY <1>6, <2>1, <2>2, <2>3
  <2>4. CASE slot' = [slot EXCEPT ![c][m] = "ended"] /\ UNCHANGED loop
    <3>1. slot[c][m] \in {"raw", "delete"}
      BY <1>6, DeletionEffect
    <3> QED
      BY <1>6, <2>1, <2>2, <2>4, <3>1
  <2>5. CASE /\ loop[c] = "decode"
             /\ slot' = [slot EXCEPT ![c] = Idle]
             /\ loop' = [loop EXCEPT ![c] = NextIteration(c)]
    BY <2>1, <2>2, <2>5 DEF Idle, NextIteration
  <2> QED
    BY <1>6, <2>3, <2>4, <2>5, DeletionEffect
<1> QED
  BY <1>1, <1>2, <1>3, <1>4, <1>5, <1>6 DEF HandlerStep

\* The invariant is inductive.
LEMMA StepInv == Inv /\ [Next]_vars => Inv'
<1> SUFFICES ASSUME Inv, [Next]_vars PROVE Inv'
  OBVIOUS
<1>1. TypeOK'
  BY TypeStep DEF Inv
<1>2. CASE Tick
  BY <1>1, <1>2 DEF Tick, Inv, DeleteJustified, NoMessageLost, SlotsOfLoop, TakenInOrder
<1>3. CASE UNCHANGED vars
  BY <1>1, <1>3 DEF vars, Inv, DeleteJustified, NoMessageLost, SlotsOfLoop, TakenInOrder
<1> QED
  BY <1>1, <1>2, <1>3, LoopStepInv, HandlerStepInv DEF Next

-----------------------------------------------------------------------------

\* The inductive invariant holds in every reachable state.
THEOREM Invariance == Spec => []Inv
BY InitInv, StepInv, PTL DEF Spec

\* The variables of the consumer stay within their types.
THEOREM TypeCorrect == Spec => []TypeOK
BY Invariance, PTL DEF Inv

\* A message leaves the queue only when it was handled to the end or can never
\* be handled.
THEOREM NothingLost == Spec => []NoMessageLost
BY Invariance, PTL DEF Inv

\* A loop that is between two batches or has stopped has no handler task left.
THEOREM Drained == Spec => []StoppedIsDrained
<1>1. Inv => StoppedIsDrained
  BY DEF Inv, TypeOK, SlotsOfLoop, StoppedIsDrained, Idle
<1> QED
  BY <1>1, Invariance, PTL

\* The messages of a FIFO group are handled in order.
THEOREM HandledInOrder == Spec => []FifoOrder
<1>1. Inv => FifoOrder
  BY DEF Inv, TakenInOrder, NoMessageLost, FifoOrder
<1> QED
  BY <1>1, Invariance, PTL

\* The consumer implements the promise of a queue transport.
THEOREM Refinement == Spec => ImplementsAtLeastOnce
<1>1. Init => Promise!Init
  BY DEF Init, Promise!Init
<1>2. Inv /\ [Next]_vars => [Promise!Next]_Promise!vars
  <2> SUFFICES ASSUME Inv, [Next]_vars PROVE [Promise!Next]_Promise!vars
    OBVIOUS
  <2> USE DEF Promise!vars
  <2>1. CASE Tick \/ UNCHANGED vars
    BY <2>1 DEF Tick, vars
  <2>2. ASSUME NEW c \in Consumers,
               LoopStep(c) \/ Close(c) \/ Crash(c) \/ Restart(c)
        PROVE  UNCHANGED <<queue, settled>>
    BY <2>2 DEF LoopStep, Begin, Abandon, Dispatch, BatchDone, Receive, ReceiveFails, HandOut,
                Close, Crash, Restart, external
  <2>3. ASSUME NEW c \in Consumers, NEW m \in Messages, HandlerStep(c, m)
        PROVE  [Promise!Next]_Promise!vars
    <3>1. CASE Discard(c, m) \/ IgnoreDuplicate(c, m) \/ Invoke(c, m)
               \/ InternalServiceError(c, m)
      BY <3>1 DEF Discard, IgnoreDuplicate, Invoke, InternalServiceError, external
    <3>2. CASE Return(c, m)
      BY <3>2 DEF Return, external, Promise!Next, Promise!Handle
    <3>3. CASE DeleteConfirmed(c, m) \/ DeleteRefused(c, m) \/ DeleteUnanswered(c, m)
      <4>1. /\ m \in settled \cup Discardable
            /\ queue' \in {queue, queue \ {m}}
            /\ UNCHANGED settled
        BY <3>3, DeletionEffect
      <4> QED
        BY <4>1 DEF Promise!Next, Promise!Remove
    <3> QED
      BY <2>3, <3>1, <3>2, <3>3 DEF HandlerStep
  <2> QED
    BY <2>1, <2>2, <2>3 DEF Next
<1> QED
  BY <1>1, <1>2, Invariance, PTL DEF Spec, ImplementsAtLeastOnce, Promise!Spec

-----------------------------------------------------------------------------
(* The stamps of the remembered uuids, compared with the history of SqsDedup.  *)

\* While an invocation is less than a window ago its uuid is remembered, with
\* the age of the invocation.
StampsTell ==
    /\ started \in [Consumers -> [Messages -> 0..Window]]
    /\ \A c \in Consumers, u \in Messages :
          started[c][u] < Window => stamp[c][u] = started[c][u]

\* A step that stamps nothing and forgets no more than the history does.
LEMMA StampsKept ==
  ASSUME StampsTell, started' \in [Consumers -> [Messages -> 0..Window]],
         \A c \in Consumers, u \in Messages :
            \/ stamp'[c][u] = stamp[c][u] /\ started'[c][u] \in {started[c][u], Window}
            \/ started'[c][u] = Window
  PROVE  StampsTell'
<1>1. Window \in Nat
  BY SqsConstants
<1>2. ASSUME NEW c \in Consumers, NEW u \in Messages, started'[c][u] < Window
      PROVE  stamp'[c][u] = started'[c][u]
  <2>1. started'[c][u] # Window
    BY <1>1, <1>2
  <2>2. stamp'[c][u] = stamp[c][u] /\ started'[c][u] = started[c][u]
    BY <2>1
  <2> QED
    BY <1>2, <2>2 DEF StampsTell
<1> QED
  BY <1>2 DEF StampsTell

\* A uuid that is stamped is remembered, and so are the recent ones, whatever
\* a purge drops.
LEMMA RememberKeepsRecent ==
  ASSUME NEW f \in [Messages -> {Absent} \cup 0..Window], NEW u \in Messages, NEW k \in Messages
  PROVE  /\ 0 < Window => Remember(f, u)[u] = 0
         /\ k # u /\ f[k] # Window => Remember(f, u)[k] = f[k]
BY SqsConstants DEF Remember, Absent

LEMMA InvokeStamps ==
  ASSUME TypeOK, StampsTell, NEW c \in Consumers, NEW m \in Messages, Invoke(c, m),
         started' = IF Kind[m] = "uuid" THEN [started EXCEPT ![c][Uuid[m]] = 0] ELSE started
  PROVE  StampsTell'
<1>1. Window \in Nat /\ Uuid[m] \in Messages
  BY SqsConstants
<1>2. CASE Kind[m] # "uuid"
  BY <1>2 DEF Invoke, StampsTell
<1>3. CASE Kind[m] = "uuid"
  <2>1. /\ stamp' = [stamp EXCEPT ![c] = Remember(stamp[c], Uuid[m])]
        /\ started' = [started EXCEPT ![c][Uuid[m]] = 0]
    BY <1>3 DEF Invoke
  <2>2. started' \in [Consumers -> [Messages -> 0..Window]]
    BY <1>1, <2>1 DEF StampsTell
  <2>3. ASSUME NEW d \in Consumers, NEW u \in Messages, started'[d][u] < Window
        PROVE  stamp'[d][u] = started'[d][u]
    <3>1. CASE d # c
      BY <2>1, <2>3, <3>1 DEF StampsTell, TypeOK
    <3>2. CASE d = c /\ u # Uuid[m]
      <4>1. started'[d][u] = started[d][u] /\ stamp[d][u] = started[d][u] /\ stamp[d][u] # Window
        BY <1>1, <2>1, <2>3, <3>2 DEF StampsTell
      <4>2. stamp'[d] = Remember(stamp[c], Uuid[m]) /\ stamp[c] \in [Messages -> {Absent} \cup 0..Window]
        BY <2>1, <3>2 DEF TypeOK
      <4> QED
        BY <1>1, <3>2, <4>1, <4>2, RememberKeepsRecent
    <3>3. CASE d = c /\ u = Uuid[m]
      <4>1. started'[d][u] = 0 /\ 0 < Window
        BY <1>1, <2>1, <2>3, <3>3 DEF StampsTell
      <4>2. stamp'[d] = Remember(stamp[c], Uuid[m]) /\ stamp[c] \in [Messages -> {Absent} \cup 0..Window]
        BY <2>1, <3>3 DEF TypeOK
      <4> QED
        BY <1>1, <3>3, <4>1, <4>2, RememberKeepsRecent
    <3> QED
      BY <3>1, <3>2, <3>3
  <2> QED
    BY <2>2, <2>3 DEF StampsTell
<1> QED
  BY <1>2, <1>3

LEMMA StampsStep == TypeOK /\ StampsTell /\ [DedupNext]_dedupVars => StampsTell'
<1> SUFFICES ASSUME TypeOK, StampsTell, [DedupNext]_dedupVars PROVE StampsTell'
  OBVIOUS
<1>1. Window \in Nat /\ \A m \in Messages : Uuid[m] \in Messages
  BY SqsConstants
<1>2. ASSUME UNCHANGED <<stamp, started>> PROVE StampsTell'
  BY <1>2 DEF StampsTell
<1>3. CASE UNCHANGED dedupVars
  BY <1>2, <1>3 DEF dedupVars, vars
<1>4. ASSUME Tick,
             started' = [c \in Consumers |-> [u \in Messages |->
                           IF started[c][u] < Window THEN started[c][u] + 1 ELSE Window]]
      PROVE  StampsTell'
  <2>1. started' \in [Consumers -> [Messages -> 0..Window]]
    BY <1>1, <1>4 DEF StampsTell
  <2>2. ASSUME NEW c \in Consumers, NEW u \in Messages, started'[c][u] < Window
        PROVE  stamp'[c][u] = started'[c][u]
    <3>1. started[c][u] \in 0..Window /\ started[c][u] < Window /\ started'[c][u] = started[c][u] + 1
      BY <1>1, <1>4, <2>2 DEF StampsTell
    <3>2. stamp[c][u] = started[c][u] /\ stamp[c][u] # Absent
      BY <1>1, <3>1 DEF StampsTell, Absent
    <3> QED
      BY <1>4, <3>1, <3>2 DEF Tick
  <2> QED
    BY <2>1, <2>2 DEF StampsTell
<1>5. ASSUME NEW c \in Consumers, NEW m \in Messages, InternalServiceError(c, m),
             started' = [started EXCEPT ![c][Uuid[m]] = Window]
      PROVE  StampsTell'
  <2>1. started' \in [Consumers -> [Messages -> 0..Window]]
    BY <1>1, <1>5 DEF StampsTell
  <2>2. \A d \in Consumers, u \in Messages :
          \/ stamp'[d][u] = stamp[d][u] /\ started'[d][u] = started[d][u]
          \/ started'[d][u] = Window
    BY <1>1, <1>5 DEF InternalServiceError, StampsTell, TypeOK
  <2> QED
    BY <2>1, <2>2, StampsKept
<1>6. ASSUME NEW c \in Consumers, NEW m \in Messages, DedupHandlerStep(c, m) PROVE StampsTell'
  <2>1. CASE /\ \/ Discard(c, m) \/ IgnoreDuplicate(c, m) \/ Return(c, m)
                \/ DeleteConfirmed(c, m) \/ DeleteRefused(c, m) \/ DeleteUnanswered(c, m)
             /\ UNCHANGED started
    BY <1>2, <2>1 DEF Discard, IgnoreDuplicate, Return, DeleteConfirmed, DeleteRefused,
                      DeleteUnanswered
  <2> QED
    BY <1>5, <1>6, <2>1, InvokeStamps DEF DedupHandlerStep
<1>7. ASSUME NEW c \in Consumers, LoopStep(c) \/ Close(c), UNCHANGED started PROVE StampsTell'
  BY <1>2, <1>7 DEF LoopStep, Begin, Abandon, Dispatch, BatchDone, Receive, ReceiveFails, Close
<1> QED
  BY <1>3, <1>4, <1>6, <1>7 DEF DedupNext

\* The history adds nothing to what the consumer does: every theorem about Spec
\* holds for DedupSpec.
LEMMA DedupIsConsumer == DedupSpec => Spec
<1>1. DedupInit => Init
  BY DEF DedupInit
<1>2. [DedupNext]_dedupVars => [Next]_vars
  BY DEF DedupNext, DedupHandlerStep, dedupVars, Next, HandlerStep
<1> QED
  BY <1>1, <1>2, PTL DEF DedupSpec, Spec

\* Within a process the function is invoked for a uuid at most once in a window,
\* unless an internal service error freed the uuid: through batches, redeliveries,
\* long invocations and purges.
THEOREM InvocationsSpaced == DedupSpec => StartsSpaced
<1>1. DedupInit => StampsTell
  BY SqsConstants DEF DedupInit, StampsTell
<1>2. TypeOK /\ StampsTell /\ [DedupNext]_dedupVars =>
        [\A c \in Consumers, m \in Messages :
            Invoked(c, m) => started[c][Uuid[m]] = Window]_dedupVars
  <2> SUFFICES ASSUME TypeOK, StampsTell, DedupNext,
                      NEW c \in Consumers, NEW m \in Messages, Invoked(c, m)
               PROVE  started[c][Uuid[m]] = Window
    OBVIOUS
  <2>1. Window \in Nat /\ Uuid[m] \in Messages
    BY SqsConstants
  <2>2. slot[c][m] = "parse" /\ slot'[c][m] = "run" /\ Kind[m] = "uuid"
    BY DEF Invoked
  <2>3. slot' # slot
    BY <2>2
  <2>4. PICK d \in Consumers : LoopStep(d) \/ Close(d) \/ \E n \in Messages : HandlerStep(d, n)
    BY <2>3 DEF DedupNext, DedupHandlerStep, HandlerStep, Tick
  <2>5. PICK n \in Messages : Invoke(d, n)
    BY <2>2, <2>4 DEF LoopStep, Begin, Abandon, Dispatch, BatchDone, Receive, ReceiveFails, Close,
                      HandlerStep, Discard, IgnoreDuplicate, Return, InternalServiceError,
                      DeleteConfirmed, DeleteRefused, DeleteUnanswered, DeletionRaises,
                      EndDeletion, Idle, TypeOK
  <2>6. Invoke(c, m)
    BY <2>2, <2>5 DEF Invoke, TypeOK
  <2>7. stamp[c][Uuid[m]] = Absent \/ ~(stamp[c][Uuid[m]] < Window)
    BY <2>2, <2>6 DEF Invoke, Fresh
  <2>8. started[c][Uuid[m]] \in 0..Window
    BY <2>1 DEF StampsTell
  <2>9. started[c][Uuid[m]] < Window => stamp[c][Uuid[m]] = started[c][Uuid[m]]
    BY <2>1 DEF StampsTell
  <2>10. ~(started[c][Uuid[m]] < Window)
    BY <2>1, <2>7, <2>8, <2>9 DEF Absent
  <2> QED
    BY <2>1, <2>8, <2>10
<1> QED
  BY <1>1, <1>2, StampsStep, DedupIsConsumer, TypeCorrect, PTL DEF DedupSpec, StartsSpaced

=============================================================================
