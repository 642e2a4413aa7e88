----------------------------- MODULE TopicCache ------------------------------
(* get_topic_arn, create_topic and _get_queue_url of                           *)
(* tomodachi/transport/aws_sns_sqs.py: coroutines that need the ARN of a topic *)
(* (or the URL of a queue) look it up in a dict, and when it is not there one  *)
(* of them at a time asks AWS while the others wait on a condition variable.   *)
(* The lock and the condition are shared by all topics; but connector.close()  *)
(* drops the lock, free or not, and later calls get another one.  asyncio      *)
(* switches coroutines only where they await, so a step runs from one await to *)
(* the next one that may block.  Nobody cancels the coroutines.  Names carry   *)
(* "Cache" so that a module can extend this one together with SqsSubscription. *)
EXTENDS Naturals, FiniteSets

CONSTANTS Callers,  \* coroutines of handlers that publish or subscribe
          Names,    \* the topics, or queues, they ask for
          Nobody,   \* no coroutine
          MaxCloses \* bound: how often the connector is closed

ASSUME NobodyIsNoCaller == Nobody \notin Callers
ASSUME ClosesAssumption == MaxCloses \in Nat

VARIABLES
    pc,      \* where each coroutine is
    topic,   \* the topic of its present call
    cached,  \* keys of cls.topics
    lock,    \* lock[n]: the coroutine that holds the n-th lock
    mine,    \* mine[p]: which lock the call of p has to take or to release, or 0
    closes,  \* which lock a call gets now: how often the connector was closed
    cond     \* the coroutine that blocks while it holds the condition's lock

cacheVars == <<pc, topic, cached, lock, mine, closes, cond>>
Locks == 0..MaxCloses

Places == {"idle",        \* not in a call
           "enter",       \* awaits the condition's lock
           "waiting",     \* in condition.wait()
           "woken",       \* notified, awaits the condition's lock again
           "locking",     \* awaits the lock, holding the condition's lock
           "creating",    \* asks AWS, holding the lock
           "notify",      \* succeeded, awaits the condition's lock to notify one
           "notifyAll",   \* awaits the condition's lock to notify all
           "abandon"}     \* failed, awaits the condition's lock to notify one

CacheInit ==
    /\ pc = [p \in Callers |-> "idle"]
    /\ topic \in [Callers -> Names]
    /\ cached = {}
    /\ lock = [n \in Locks |-> Nobody]
    /\ mine = [p \in Callers |-> 0]
    /\ closes = 0
    /\ cond = Nobody

Goto(p, place) == pc' = [pc EXCEPT ![p] = place]
Free(p) == lock[mine[p]] = Nobody
Take(p) == lock' = [lock EXCEPT ![mine[p]] = p] /\ UNCHANGED mine
Release(p) == lock' = [lock EXCEPT ![mine[p]] = Nobody] /\ mine' = [mine EXCEPT ![p] = 0]

\* The topic was put into the dict meanwhile.
Found(p) ==
    /\ topic[p] \in cached
    /\ Goto(p, "idle")
    /\ mine' = [mine EXCEPT ![p] = 0]
    /\ UNCHANGED <<lock, cond>>

\* A call for t; without a blocking step when t is in the dict.
Call(p, t) ==
    /\ pc[p] = "idle"
    /\ topic' = [topic EXCEPT ![p] = t]
    /\ IF t \in cached THEN UNCHANGED <<pc, mine>>
       ELSE Goto(p, "enter") /\ mine' = [mine EXCEPT ![p] = closes]
    /\ UNCHANGED <<cached, lock, closes, cond>>

\* The coroutine has the condition's lock: it waits while another one asks AWS.
Enter(p) ==
    /\ pc[p] = "enter" /\ cond = Nobody
    /\ \/ Found(p)
       \/ topic[p] \notin cached /\ ~Free(p) /\ Goto(p, "waiting")
          /\ UNCHANGED <<lock, mine, cond>>
       \/ topic[p] \notin cached /\ Free(p) /\ Goto(p, "creating") /\ Take(p) /\ UNCHANGED cond
    /\ UNCHANGED <<topic, cached, closes>>

\* Mutant of Resume: the notified coroutine does not take the lock.
ResumeUnlocked(p) ==
    /\ pc[p] = "woken" /\ cond = Nobody
    /\ Goto(p, IF topic[p] \in cached THEN "idle" ELSE "creating")
    /\ UNCHANGED <<topic, cached, lock, mine, closes, cond>>

\* The coroutine was notified and has the condition's lock again.  It does not
\* wait a second time: it takes the lock or queues up for it.
Resume(p) ==
    /\ pc[p] = "woken" /\ cond = Nobody
    /\ \/ Found(p)
       \/ topic[p] \notin cached /\ ~Free(p) /\ Goto(p, "locking") /\ cond' = p
          /\ UNCHANGED <<lock, mine>>
       \/ topic[p] \notin cached /\ Free(p) /\ Goto(p, "creating") /\ Take(p) /\ UNCHANGED cond
    /\ UNCHANGED <<topic, cached, closes>>

Acquire(p) ==
    /\ pc[p] = "locking" /\ Free(p)
    /\ Take(p)
    /\ cond' = Nobody
    /\ Goto(p, "creating")
    /\ UNCHANGED <<topic, cached, closes>>

\* AWS answers, with or without the ARN (a lookup may find no topic).
Answered(p, found) ==
    /\ pc[p] = "creating"
    /\ cached' = cached \cup found
    /\ Release(p)
    /\ Goto(p, "notify")
    /\ UNCHANGED <<topic, closes, cond>>

\* Mutant of Raises: the coroutine goes without notifying anyone.
RaisesSilently(p) ==
    /\ pc[p] = "creating"
    /\ Release(p)
    /\ Goto(p, "idle")
    /\ UNCHANGED <<topic, cached, closes, cond>>

\* The call to AWS raises.
Raises(p) ==
    /\ pc[p] = "creating"
    /\ Release(p)
    /\ Goto(p, "abandon")
    /\ UNCHANGED <<topic, cached, closes, cond>>

Waiting == {p \in Callers : pc[p] = "waiting"}

\* What notify() may wake.
AtMostOneOf(S) == IF S = {} THEN {{}} ELSE {{p} : p \in S}

\* Mutant of NotifyOne: after a success nobody but one coroutine is notified.
NotifyOnlyOne(p) ==
    /\ pc[p] \in {"notify", "abandon"} /\ cond = Nobody
    /\ \E woken \in AtMostOneOf(Waiting) :
          pc' = [q \in Callers |-> IF q = p THEN "idle"
                                   ELSE IF q \in woken THEN "woken" ELSE pc[q]]
    /\ UNCHANGED <<topic, cached, lock, mine, closes, cond>>

\* The finally clause: one waiting coroutine is notified, if there is one.
NotifyOne(p) ==
    /\ pc[p] \in {"notify", "abandon"} /\ cond = Nobody
    /\ \E woken \in AtMostOneOf(Waiting) :
          pc' = [q \in Callers |->
                   IF q = p THEN IF pc[p] = "notify" THEN "notifyAll" ELSE "idle"
                   ELSE IF q \in woken THEN "woken" ELSE pc[q]]
    /\ UNCHANGED <<topic, cached, lock, mine, closes, cond>>

NotifyAll(p) ==
    /\ pc[p] = "notifyAll" /\ cond = Nobody
    /\ pc' = [q \in Callers |-> IF q = p THEN "idle"
                                ELSE IF q \in Waiting THEN "woken" ELSE pc[q]]
    /\ UNCHANGED <<topic, cached, lock, mine, closes, cond>>

\* The receive loop finds that its queue is gone and empties the dict.
Reset ==
    /\ cached' = {}
    /\ UNCHANGED <<pc, topic, lock, mine, closes, cond>>

\* connector.close(), of a service that stops or whose start failed: later calls
\* make a lock of their own.  The condition stays.
ReplaceLock ==
    /\ closes < MaxCloses
    /\ closes' = closes + 1
    /\ UNCHANGED <<pc, topic, cached, lock, mine, cond>>

CallStep(p) ==
    \/ Enter(p) \/ Resume(p) \/ Acquire(p)
    \/ Answered(p, {topic[p]}) \/ Answered(p, {}) \/ Raises(p)
    \/ NotifyOne(p) \/ NotifyAll(p)

CacheNext ==
    \/ \E p \in Callers : CallStep(p) \/ \E t \in Names : Call(p, t)
    \/ Reset
    \/ ReplaceLock

CacheSpec == CacheInit /\ [][CacheNext]_cacheVars

\* asyncio serves the coroutines that await a lock, and those that wait on a
\* condition, in the order they came; every call to AWS ends.
CacheFairSpec ==
    /\ CacheSpec
    /\ \A p \in Callers : /\ SF_cacheVars(CallStep(p))
                          /\ SF_cacheVars(\E q \in Callers : NotifyOne(q) /\ pc'[p] = "woken")

-----------------------------------------------------------------------------
(* Properties.                                                                *)

\* Every variable stays within its type.
CacheTypeOK ==
    /\ pc \in [Callers -> Places]
    /\ topic \in [Callers -> Names]
    /\ cached \subseteq Names
    /\ lock \in [Locks -> Callers \cup {Nobody}]
    /\ mine \in [Callers -> Locks]
    /\ closes \in Locks
    /\ cond \in Callers \cup {Nobody}

\* One coroutine at a time asks AWS, unless the connector was closed between the
\* calls of two.
OneCreator ==
    \A p, q \in Callers :
        pc[p] = "creating" /\ pc[q] = "creating" => p = q \/ mine[p] # mine[q]

\* A coroutine that will notify when it is done, or that will come to ask AWS
\* and notify after that.
WillNotify(p) ==
    \/ pc[p] \in {"locking", "creating", "notify", "notifyAll", "abandon"}
    \/ pc[p] = "woken" /\ topic[p] \notin cached

\* No wake-up is lost: while a coroutine waits, another one is bound to notify.
\* A failure notifies only one waiter, and a notified one that finds its topic
\* in the dict returns without passing the notification on.
NoLostWakeup == Waiting # {} => \E p \in Callers : WillNotify(p)

\* Every call returns, although the coroutines that queue up for the lock do so
\* with the condition's lock in their hands.
EveryCallReturns == \A p \in Callers : pc[p] # "idle" ~> pc[p] = "idle"

=============================================================================
