----------------------------- MODULE SqsConsumer -----------------------------
(* The receiving side of tomodachi/transport/aws_sns_sqs.py: processes of the  *)
(* same service compete for one SQS queue.  Each runs the receive loop of      *)
(* consume_queue, which gives every message of a received batch to a handler   *)
(* task and waits for the whole batch, and the handler of subscribe_handler,   *)
(* which ignores recent duplicates, invokes the decorated function and deletes *)
(* the message unless the function asked to keep it.                           *)
(*                                                                             *)
(* The queue, its visibility timeout and its receipt handles are external: SQS *)
(* hides a received message for Visibility ticks and then delivers it again.   *)
(* Time is counted in ticks; every age saturates, so no clock is needed.       *)
EXTENDS Integers, FiniteSets

CONSTANTS
    Consumers,   \* the processes
    Messages,    \* the messages of the queue, numbered in the order of sending
    Kind,        \* Messages -> the way the handler can treat each of them
    Uuid,        \* Messages -> the message_uuid of its envelope
    Fifo,        \* is the queue a .fifo queue (one message group)
    Batch,       \* max_number_of_consumed_messages
    Window,      \* ticks for which a handled uuid is remembered: 60 s
    Visibility,  \* ticks for which a received message is hidden
    Attempts,    \* attempts of delete_message at most: 4
    CacheLimit,  \* size at which the remembered uuids are purged: 100000
    MaxCrashes   \* bound on the crashes of all processes together

Kinds == {"malformed",  \* body is not JSON: deleted by the receive loop
          "unusable",   \* body is JSON but no object: the receive loop fails at it
          "discard",    \* empty, drain message, or the envelope fails to parse
          "plain",      \* no envelope or no uuid: handled, never deduplicated
          "uuid"}       \* handled and deduplicated by its uuid

ASSUME SqsConstants ==
    /\ Messages \subseteq Nat /\ IsFiniteSet(Messages)
    /\ Kind \in [Messages -> Kinds]
    /\ Uuid \in [Messages -> Messages]
    /\ Fifo \in BOOLEAN
    /\ {Batch, Attempts} \subseteq Nat \ {0}
    /\ {Window, Visibility, CacheLimit, MaxCrashes} \subseteq Nat

ASSUME NoOneIsNoConsumer == "none" \notin Consumers

VARIABLES
    queue,    \* messages SQS has not deleted
    hidden,   \* ticks until a message in flight is visible again
    holder,   \* process whose receipt handle is the latest one of a message
    loop,     \* where the receive loop of a process is
    closing,  \* has the close_waiter of a process been set
    slot,     \* where the handler task of a message is, in each process
    tries,    \* the attempt the deletion of a message is at
    stamp,    \* age of a uuid in _aws_sns_sqs_received_messages
    crashes,  \* crashes so far
    settled   \* history: messages a handler has ended for, other than with
              \* an internal service error

external == <<queue, hidden, holder>>
vars == <<queue, hidden, holder, loop, closing, slot, tries, stamp, crashes, settled>>

NoOne  == "none"
Absent == -1
Loops  == {"waiting", "receive", "decode", "batch", "stopped", "down"}
Slots  == {"none", "raw", "parse", "run", "delete", "ended"}

Idle       == [m \in Messages |-> "none"]
FirstTry   == [m \in Messages |-> 1]
Forgotten  == [m \in Messages |-> Absent]

Discardable == {m \in Messages : Kind[m] \in {"malformed", "discard"}}

\* Mutant of Limit: the limit of a FIFO queue is forgotten.
LimitOfBatch == Batch

\* Only one message at a time is taken from a FIFO queue.
Limit == IF Fifo THEN 1 ELSE Batch

Init ==
    /\ queue = Messages
    /\ hidden = [m \in Messages |-> 0]
    /\ holder = [m \in Messages |-> NoOne]
    /\ loop = [c \in Consumers |-> "waiting"]
    /\ closing = [c \in Consumers |-> FALSE]
    /\ slot = [c \in Consumers |-> Idle]
    /\ tries = [c \in Consumers |-> FirstTry]
    /\ stamp = [c \in Consumers |-> Forgotten]
    /\ crashes = 0
    /\ settled = {}

-----------------------------------------------------------------------------
(* SQS, as the code uses it.                                                  *)

\* The sets of messages one receive_message call may return: visible ones; of a
\* FIFO group only the oldest ones, and none while one of them is in flight.
Deliverable(S) ==
    /\ S \subseteq {m \in queue : hidden[m] = 0}
    /\ Cardinality(S) <= Limit
    /\ Fifo => /\ \A m \in queue : hidden[m] = 0
               /\ \A m \in S, n \in queue : n < m => n \in S

\* SQS hands the messages S out, with receipt handles that only c may know.
HandOut(S, c) ==
    /\ hidden' = [m \in Messages |-> IF m \in S THEN Visibility ELSE hidden[m]]
    /\ holder' = [m \in Messages |-> IF m \in S THEN c ELSE holder[m]]
    /\ UNCHANGED queue

\* SQS answers a DeleteMessage call: the latest receipt handle of a message
\* deletes it, an older one may be accepted without effect.
Forget(c, m) ==
    /\ \/ queue' = queue \ {m}
       \/ holder[m] # c /\ queue' = queue
    /\ UNCHANGED <<hidden, holder>>

\* Time passes: hidden messages come closer to redelivery, stamps get older.
Tick ==
    /\ \/ \E m \in Messages : hidden[m] > 0
       \/ \E c \in Consumers, u \in Messages :
             stamp[c][u] # Absent /\ stamp[c][u] < Window
    /\ hidden' = [m \in Messages |-> IF hidden[m] > 0 THEN hidden[m] - 1 ELSE 0]
    /\ stamp' = [c \in Consumers |-> [u \in Messages |->
                   IF stamp[c][u] # Absent /\ stamp[c][u] < Window
                   THEN stamp[c][u] + 1 ELSE stamp[c][u]]]
    /\ UNCHANGED <<queue, holder, loop, closing, slot, tries, crashes, settled>>

-----------------------------------------------------------------------------
(* The receive loop of a process.                                             *)

\* Mutant of NextIteration: the loop does not look at the close_waiter.
NextIterationForever(c) == "receive"

\* The condition of the while loop of _receive_wrapper, evaluated when an
\* iteration ends; leaving the loop sets the stop_waiter.
NextIteration(c) == IF closing[c] THEN "stopped" ELSE "receive"

\* started_service, or stop_service, sets the start_waiter.
Begin(c) ==
    /\ loop[c] = "waiting"
    /\ loop' = [loop EXCEPT ![c] = NextIteration(c)]
    /\ UNCHANGED <<external, closing, slot, tries, stamp, crashes, settled>>

\* receive_message returns a batch.
Receive(c, S) ==
    /\ loop[c] = "receive"
    /\ S # {} /\ Deliverable(S)
    /\ HandOut(S, c)
    /\ slot' = [slot EXCEPT ![c] = [m \in Messages |->
                  IF m \in S THEN "raw" ELSE slot[c][m]]]
    /\ loop' = [loop EXCEPT ![c] = "decode"]
    /\ UNCHANGED <<closing, tries, stamp, crashes, settled>>

\* receive_message returns nothing, fails, times out or is cancelled because
\* the process is closing.  SQS may have handed messages out all the same.
ReceiveFails(c, S) ==
    /\ loop[c] = "receive"
    /\ Deliverable(S)
    /\ HandOut(S, NoOne)
    /\ loop' = [loop EXCEPT ![c] = NextIteration(c)]
    /\ UNCHANGED <<closing, slot, tries, stamp, crashes, settled>>

Undecoded(c, kind) == {m \in Messages : slot[c][m] = "raw" /\ Kind[m] = kind}
Malformed(c) == Undecoded(c, "malformed")

\* The loop comes to a body that is no object, in whatever order SQS returned the
\* messages, and abandons the whole batch: no handler task is created for it.
Abandon(c) ==
    /\ loop[c] = "decode"
    /\ Undecoded(c, "unusable") # {}
    /\ \A m \in Malformed(c) : tries[c][m] = 1
    /\ slot' = [slot EXCEPT ![c] = Idle]
    /\ loop' = [loop EXCEPT ![c] = NextIteration(c)]
    /\ UNCHANGED <<external, closing, tries, stamp, crashes, settled>>

\* The batch is decoded: a handler task is created for each of its messages.
Dispatch(c) ==
    /\ loop[c] = "decode"
    /\ Malformed(c) = {} /\ Undecoded(c, "unusable") = {}
    /\ slot' = [slot EXCEPT ![c] = [m \in Messages |->
                  IF slot[c][m] = "raw" THEN "parse" ELSE slot[c][m]]]
    /\ loop' = [loop EXCEPT ![c] = "batch"]
    /\ UNCHANGED <<external, closing, tries, stamp, crashes, settled>>

\* Mutant of BatchDone: a cancelled wait for the batch is not repeated.
BatchDoneOrCancelled(c) ==
    /\ loop[c] = "batch"
    /\ closing[c] \/ \A m \in Messages : slot[c][m] \in {"none", "ended"}
    /\ slot' = [slot EXCEPT ![c] = [m \in Messages |->
                  IF slot[c][m] = "ended" THEN "none" ELSE slot[c][m]]]
    /\ loop' = [loop EXCEPT ![c] = NextIteration(c)]
    /\ UNCHANGED <<external, closing, tries, stamp, crashes, settled>>

\* All handler tasks of the batch are done.
BatchDone(c) ==
    /\ loop[c] = "batch"
    /\ \A m \in Messages : slot[c][m] \in {"none", "ended"}
    /\ slot' = [slot EXCEPT ![c] = [m \in Messages |->
                  IF slot[c][m] = "ended" THEN "none" ELSE slot[c][m]]]
    /\ loop' = [loop EXCEPT ![c] = NextIteration(c)]
    /\ UNCHANGED <<external, closing, tries, stamp, crashes, settled>>

-----------------------------------------------------------------------------
(* The handler task of a message.                                             *)

\* Mutant of Fresh: a stamp counts however old it is, as in releases before 0.28.2.
FreshForever(c, m) == Kind[m] = "uuid" /\ stamp[c][Uuid[m]] # Absent

\* The uuid was stamped less than a minute ago.
Fresh(c, m) ==
    /\ Kind[m] = "uuid"
    /\ stamp[c][Uuid[m]] # Absent
    /\ stamp[c][Uuid[m]] < Window

\* Mutant of Remember: the purge drops recent entries too.
RememberOnly(f, u) ==
    LET g == [f EXCEPT ![u] = 0]
    IN  IF Cardinality({k \in Messages : g[k] # Absent}) > CacheLimit
        THEN [Forgotten EXCEPT ![u] = 0]
        ELSE g

\* Stamp u; a dict that has grown over the limit is rebuilt without its old
\* entries.
Remember(f, u) ==
    LET g == [f EXCEPT ![u] = 0]
    IN  IF Cardinality({k \in Messages : g[k] # Absent}) > CacheLimit
        THEN [k \in Messages |-> IF g[k] = Window THEN Absent ELSE g[k]]
        ELSE g

\* An empty or drain message, or one its envelope cannot parse, is deleted.
Discard(c, m) ==
    /\ slot[c][m] = "parse"
    /\ Kind[m] = "discard"
    /\ slot' = [slot EXCEPT ![c][m] = "delete"]
    /\ UNCHANGED <<external, loop, closing, tries, stamp, crashes, settled>>

\* A recent duplicate is ignored: it is neither handled nor deleted.
IgnoreDuplicate(c, m) ==
    /\ slot[c][m] = "parse"
    /\ Fresh(c, m)
    /\ slot' = [slot EXCEPT ![c][m] = "ended"]
    /\ UNCHANGED <<external, loop, closing, tries, stamp, crashes, settled>>

\* Mutant of Invoke: the message is deleted first.
DeleteAndInvoke(c, m) ==
    /\ slot[c][m] = "parse"
    /\ Kind[m] \in {"plain", "uuid"}
    /\ ~Fresh(c, m)
    /\ slot' = [slot EXCEPT ![c][m] = "run"]
    /\ stamp' = IF Kind[m] = "uuid"
                THEN [stamp EXCEPT ![c] = Remember(stamp[c], Uuid[m])]
                ELSE stamp
    /\ queue' = queue \ {m}
    /\ UNCHANGED <<hidden, holder, loop, closing, tries, crashes, settled>>

\* The message is stamped and given to the decorated function.
Invoke(c, m) ==
    /\ slot[c][m] = "parse"
    /\ Kind[m] \in {"plain", "uuid"}
    /\ ~Fresh(c, m)
    /\ slot' = [slot EXCEPT ![c][m] = "run"]
    /\ stamp' = IF Kind[m] = "uuid"
                THEN [stamp EXCEPT ![c] = Remember(stamp[c], Uuid[m])]
                ELSE stamp
    /\ UNCHANGED <<external, loop, closing, tries, crashes, settled>>

\* The function returns, or raises anything but an internal service error.
Return(c, m) ==
    /\ slot[c][m] = "run"
    /\ slot' = [slot EXCEPT ![c][m] = "delete"]
    /\ settled' = settled \cup {m}
    /\ UNCHANGED <<external, loop, closing, tries, stamp, crashes>>

\* Mutant of InternalServiceError: the message is deleted as after any error.
InternalServiceErrorDeletes(c, m) ==
    /\ slot[c][m] = "run"
    /\ slot' = [slot EXCEPT ![c][m] = "delete"]
    /\ UNCHANGED <<external, loop, closing, tries, stamp, crashes, settled>>

\* The function raises AWSSNSSQSInternalServiceError: the message stays in the
\* queue and its uuid is forgotten.  (Forgetting a uuid that is not remembered
\* raises a KeyError, which ends the task as well.)
InternalServiceError(c, m) ==
    /\ slot[c][m] = "run"
    /\ slot' = [slot EXCEPT ![c][m] = "ended"]
    /\ stamp' = IF Kind[m] = "uuid" THEN [stamp EXCEPT ![c][Uuid[m]] = Absent] ELSE stamp
    /\ UNCHANGED <<external, loop, closing, tries, crashes, settled>>

-----------------------------------------------------------------------------
(* delete_message, called by a handler task or, for a malformed body, by the   *)
(* receive loop itself.                                                        *)

Deleting(c, m) ==
    \/ slot[c][m] = "delete"
    \/ loop[c] = "decode" /\ m \in Malformed(c)

\* The deletion is over.
EndDeletion(c, m) ==
    /\ slot' = [slot EXCEPT ![c][m] = "ended"]
    /\ tries' = [tries EXCEPT ![c][m] = 1]
    /\ UNCHANGED loop

\* The deletion raises: the handler logs it and ends as if it had succeeded,
\* the receive loop abandons the whole batch.
DeletionRaises(c, m) ==
    IF slot[c][m] = "delete"
    THEN EndDeletion(c, m)
    ELSE /\ slot' = [slot EXCEPT ![c] = Idle]
         /\ tries' = [tries EXCEPT ![c][m] = 1]
         /\ loop' = [loop EXCEPT ![c] = NextIteration(c)]

DeleteConfirmed(c, m) ==
    /\ Deleting(c, m)
    /\ Forget(c, m)
    /\ EndDeletion(c, m)
    /\ UNCHANGED <<closing, stamp, crashes, settled>>

\* SQS refuses with a ClientError, which delete_message only logs.
DeleteRefused(c, m) ==
    /\ Deleting(c, m)
    /\ EndDeletion(c, m)
    /\ UNCHANGED <<external, closing, stamp, crashes, settled>>

\* The call fails, whether or not SQS got it: after a lost connection, a timeout
\* or a cancellation it is repeated, up to Attempts times in all; any other
\* error, or the last one, is raised.
DeleteUnanswered(c, m) ==
    /\ Deleting(c, m)
    /\ queue' \in {queue, queue \ {m}}
    /\ \/ /\ tries[c][m] < Attempts
          /\ tries' = [tries EXCEPT ![c][m] = @ + 1]
          /\ UNCHANGED <<slot, loop>>
       \/ DeletionRaises(c, m)
    /\ UNCHANGED <<hidden, holder, closing, stamp, crashes, settled>>

-----------------------------------------------------------------------------
(* The life of a process.                                                     *)

\* stop_service sets the close_waiter.
Close(c) ==
    /\ loop[c] \notin {"stopped", "down"}
    /\ ~closing[c]
    /\ closing' = [closing EXCEPT ![c] = TRUE]
    /\ UNCHANGED <<external, loop, slot, tries, stamp, crashes, settled>>

Crash(c) ==
    /\ loop[c] \notin {"stopped", "down"}
    /\ crashes < MaxCrashes
    /\ crashes' = crashes + 1
    /\ loop' = [loop EXCEPT ![c] = "down"]
    /\ closing' = [closing EXCEPT ![c] = FALSE]
    /\ slot' = [slot EXCEPT ![c] = Idle]
    /\ tries' = [tries EXCEPT ![c] = FirstTry]
    /\ stamp' = [stamp EXCEPT ![c] = Forgotten]
    /\ holder' = [m \in Messages |-> IF holder[m] = c THEN NoOne ELSE holder[m]]
    /\ UNCHANGED <<queue, hidden, settled>>

\* The orchestrator starts the process again.
Restart(c) ==
    /\ loop[c] = "down"
    /\ loop' = [loop EXCEPT ![c] = "waiting"]
    /\ UNCHANGED <<external, closing, slot, tries, stamp, crashes, settled>>

HandlerStep(c, m) ==
    \/ Discard(c, m) \/ IgnoreDuplicate(c, m) \/ Invoke(c, m)
    \/ Return(c, m) \/ InternalServiceError(c, m)
    \/ DeleteConfirmed(c, m) \/ DeleteRefused(c, m) \/ DeleteUnanswered(c, m)

LoopStep(c) ==
    \/ Begin(c) \/ Abandon(c) \/ Dispatch(c) \/ BatchDone(c)
    \/ \E S \in SUBSET queue : Receive(c, S) \/ ReceiveFails(c, S)

Next ==
    \/ Tick
    \/ \E c \in Consumers : LoopStep(c) \/ Close(c) \/ Crash(c) \/ Restart(c)
    \/ \E c \in Consumers, m \in Messages : HandlerStep(c, m)

Spec == Init /\ [][Next]_vars

-----------------------------------------------------------------------------
(* Fairness.  The event loop runs every task that is ready; a decorated        *)
(* function that was invoked ends, and every call to AWS ends because the code *)
(* gives it a timeout.                                                         *)

TasksRun(c) ==
    /\ WF_vars(Begin(c))
    /\ WF_vars(Abandon(c) \/ Dispatch(c))
    /\ WF_vars(BatchDone(c))
    /\ WF_vars(closing[c] /\ \E S \in SUBSET queue : ReceiveFails(c, S))
    /\ \A m \in Messages :
          /\ WF_vars(Discard(c, m) \/ IgnoreDuplicate(c, m) \/ Invoke(c, m))
          /\ WF_vars(Return(c, m) \/ InternalServiceError(c, m))
          /\ WF_vars(DeleteConfirmed(c, m) \/ DeleteRefused(c, m)
                        \/ DeleteUnanswered(c, m))

\* The outside world is helpful now and then: SQS delivers every message it
\* owes, if it can in a batch without an unusable one, a function that is retried
\* for ever ends without an internal service error in the end, and not every
\* deletion fails.
WorldHelps(c) ==
    \A m \in Messages :
        /\ SF_vars(\E S \in SUBSET queue : /\ m \in S /\ Receive(c, S)
                                           /\ \A n \in S : Kind[n] # "unusable")
        /\ SF_vars(Return(c, m))
        /\ SF_vars(DeleteConfirmed(c, m))

WorldRuns ==
    /\ WF_vars(Tick)
    /\ \A c \in Consumers : WF_vars(Restart(c)) /\ WorldHelps(c)

-----------------------------------------------------------------------------
(* Properties.                                                                *)

\* Every variable stays within its type.
TypeOK ==
    /\ queue \subseteq Messages
    /\ hidden \in [Messages -> 0..Visibility]
    /\ holder \in [Messages -> Consumers \cup {NoOne}]
    /\ loop \in [Consumers -> Loops]
    /\ closing \in [Consumers -> BOOLEAN]
    /\ slot \in [Consumers -> [Messages -> Slots]]
    /\ tries \in [Consumers -> [Messages -> 1..Attempts]]
    /\ stamp \in [Consumers -> [Messages -> {Absent} \cup 0..Window]]
    /\ crashes \in 0..MaxCrashes
    /\ settled \subseteq Messages

\* A message leaves the queue only after some handler ended for it without an
\* internal service error, or because it can never be handled, through crashes,
\* redeliveries, ignored duplicates, abandoned batches and failing deletions.
NoMessageLost == Messages \ queue \subseteq settled \cup Discardable

\* The consumer implements the promise of a queue transport.
Promise == INSTANCE AtLeastOnce WITH pending <- queue, handled <- settled
ImplementsAtLeastOnce == Promise!Spec

\* The function is invoked for a message of a FIFO queue only after every
\* earlier message of the group was handled to the end or discarded, whichever
\* processes handled them and however often they were redelivered: the reason
\* the receive loop gives for taking one message at a time.
FifoOrder ==
    Fifo => \A c \in Consumers, m, n \in Messages :
               n < m /\ slot[c][m] = "run" => n \in settled \cup Discardable

\* A receive loop has left its while loop only when every handler task it
\* created is done: stop_service, which awaits the stop_waiter, does not return
\* in the middle of a message.
StoppedIsDrained ==
    \A c \in Consumers : loop[c] \in {"receive", "stopped"} => slot[c] = Idle

\* A process that is told to stop does stop, once the handlers under way end.
StopTerminates ==
    \A c \in Consumers : closing[c] ~> loop[c] \in {"stopped", "down"}

\* An unusable message is never deleted, and holds up those behind it in a FIFO
\* group.
HeldUp(m) ==
    \/ Kind[m] = "unusable"
    \/ Fifo /\ \E n \in Messages : n < m /\ Kind[n] = "unusable"

\* While some process keeps consuming and the outside world helps now and then,
\* every message that no unusable one holds up leaves the queue: in particular a
\* redelivered message that is ignored as a recent duplicate, without being
\* deleted, is not ignored for ever, and one whose batch was abandoned is handled.
EveryMessageLeaves ==
    WorldRuns => \/ \A m \in Messages : HeldUp(m) \/ <>(m \notin queue)
                 \/ <>(\A c \in Consumers : closing[c] \/ loop[c] = "down")

=============================================================================
