------------------------------ MODULE SqsDedup -------------------------------
(* SqsConsumer with a history of when the function was last invoked for a uuid, *)
(* to compare the stamps of _aws_sns_sqs_received_messages with what they stand *)
(* for.                                                                        *)
EXTENDS SqsConsumer

VARIABLE started   \* age of the latest invocation for a uuid, in each process

dedupVars == <<vars, started>>

DedupInit == Init /\ started = [c \in Consumers |-> [u \in Messages |-> Window]]

\* The function is invoked for a uuid.  An internal service error forgets that.
DedupHandlerStep(c, m) ==
    \/ /\ Invoke(c, m)
       /\ started' = IF Kind[m] = "uuid" THEN [started EXCEPT ![c][Uuid[m]] = 0] ELSE started
    \/ /\ InternalServiceError(c, m)
       /\ started' = [started EXCEPT ![c][Uuid[m]] = Window]
    \/ /\ \/ Discard(c, m) \/ IgnoreDuplicate(c, m) \/ Return(c, m)
          \/ DeleteConfirmed(c, m) \/ DeleteRefused(c, m) \/ DeleteUnanswered(c, m)
       /\ UNCHANGED started

DedupNext ==
    \/ /\ Tick
       /\ started' = [c \in Consumers |-> [u \in Messages |->
                        IF started[c][u] < Window THEN started[c][u] + 1 ELSE Window]]
    \/ \E c \in Consumers, m \in Messages : DedupHandlerStep(c, m)
    \/ \E c \in Consumers : (LoopStep(c) \/ Close(c)) /\ UNCHANGED started

DedupSpec == DedupInit /\ [][DedupNext]_dedupVars

DedupDrainSpec == DedupSpec /\ \A c \in Consumers : TasksRun(c)

Invoked(c, m) == Kind[m] = "uuid" /\ slot[c][m] = "parse" /\ slot'[c][m] = "run"

\* Within a process, the function is invoked for a uuid at most once in Window
\* ticks, unless an internal service error freed the uuid in between: through
\* copies of a message in one batch, redeliveries, invocations longer than the
\* window and purges of the remembered uuids.
StartsSpaced ==
    [][\A c \in Consumers, m \in Messages :
          Invoked(c, m) => started[c][Uuid[m]] = Window]_dedupVars

=============================================================================
