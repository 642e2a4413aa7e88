--------------------------- MODULE SqsSubscription ---------------------------
(***************************************************************************)
(* How the processes of a service set up their queues and subscriptions    *)
(* at AWS (_subscribe, setup_queue and what they call in                    *)
(* tomodachi/transport/aws_sns_sqs.py), repeat that when a queue has been  *)
(* deleted under a running consumer, and stop.                             *)
(*                                                                         *)
(* The set-up is a program of one AWS request after the other, which the   *)
(* other processes of the service run at the same time on the same queues. *)
(* Thread Container is the start of the service, thread i the re-subscription *)
(* that the receive loop of subscriber i began.                            *)
(***************************************************************************)
EXTENDS Integers, Sequences, FiniteSets

CONSTANTS Processes,
          Deployments,   \* the decorated functions that each process may have, in order
          Queues, Topics,
          Pages,         \* the topics at AWS, as list_topics hands them out
          Fresh,         \* the attributes of a new queue
          Settings,      \* the attributes a queue may have had before
          Unset,         \* the decorator does not name the setting
          Off,           \* it is None, or empty
          Missing,       \* no such queue or subscription
          MaxDeletions,  \* bound: how often somebody deletes queues
          MaxFailures    \* bound: AWS requests that fail

Container == 0
Loops == UNION {UNION {1..Len(d[p]) : p \in Processes} : d \in Deployments}
Threads == {Container} \cup Loops

(* queue, byArn: the queue and whether it is named by its ARN, which must
   exist; topics, wildcard: its topic, the topics its pattern matches, or none
   if it names no topic; filter: the FilterPolicy; visibility, kms: attributes; redrive: a dead-letter queue.  *)
Subscriber == [queue : Queues, byArn : BOOLEAN, wildcard : BOOLEAN, topics : SUBSET Topics,
               filter : STRING \cup {Unset, Off}, visibility : STRING \cup {Unset},
               kms : STRING \cup {Unset, Off}, redrive : Queues \cup {Unset, Off}]

(* The attributes of a queue at AWS. *)
Attributes == [policy : SUBSET Topics, visibility : STRING, redrive : Queues \cup {Off},
               kms : STRING \cup {Off}]

ASSUME SubscriptionAssumption ==
  /\ Deployments \subseteq [Processes -> Seq(Subscriber)]
  /\ Pages \in Seq(SUBSET Topics)
  /\ Fresh \in Attributes /\ Settings \subseteq Attributes
  /\ MaxDeletions \in Nat /\ MaxFailures \in Nat

(* What stands for the absence of a value is no value. *)
ASSUME MarkersAssumption ==
  /\ Unset \notin STRING /\ Unset \notin Queues /\ Unset # Off
  /\ Missing \notin Attributes /\ Missing \notin STRING \cup {Unset, Off}

VARIABLES
  subscribers,  \* _aws_sns_sqs_subscribers of each process
  queue,        \* queue[q]: its attributes, or Missing
  subscription, \* subscription[t][q]: Missing, Off (no FilterPolicy) or the FilterPolicy
  thread,       \* thread[p][w]: where the set-up is and what it knows
  subscribed,   \* _aws_sns_sqs_subscribed
  loop,         \* loop[p][i]: where the receive loop is
  closed,       \* closed[p]: close_waiter has its result
  held,         \* held[p][i]: the close_waiter the loop waits for: the "current" one,
                \* an "old" one that was replaced, or one that was "told" before that
  service,      \* "absent", "starting", "started", "failed" (to start) or "stopping"
  abandoned,    \* some set-up was given up, or did without the attributes of a queue
  deletions, failures

aws == <<queue, subscription>>
waiters == <<closed, held>>
bounds == <<subscribers, abandoned, deletions, failures>>
vars == <<aws, thread, subscribed, loop, waiters, service, bounds>>

Idle == [pc |-> "idle", at |-> 0, dead |-> FALSE, found |-> {}, page |-> 0,
         known |-> Missing, left |-> {}, update |-> FALSE, arn |-> Missing]

Functions(p) == 1..Len(subscribers[p])
ThisQueue(p, i) == subscribers[p][i].queue

Used == UNION {UNION {{s.queue, s.redrive} : s \in {subscribers[p][i] : i \in Functions(p)}} : p \in Processes}

Init ==
  /\ subscribers \in Deployments
  /\ queue \in [Queues -> Settings \cup {Missing}]
  /\ \A q \in Queues : queue[q] # Missing => q \in Used
  /\ subscription \in [Topics -> [Queues -> {Missing, "old"}]]
  /\ \A t \in Topics, q \in Queues :
       (queue[q] = Missing \/ ~ \E p \in Processes : \E i \in Functions(p) :
                                   ThisQueue(p, i) = q /\ t \in subscribers[p][i].topics)
         => subscription[t][q] = Missing
  /\ thread = [p \in Processes |-> [w \in Threads |->
                 IF w = Container /\ Functions(p) # {} THEN [Idle EXCEPT !.pc = "subscribe"] ELSE Idle]]
  /\ subscribed = [p \in Processes |-> TRUE]
  /\ loop = [p \in Processes |-> [i \in Loops |-> "none"]]
  /\ closed = [p \in Processes |-> FALSE]
  /\ held = [p \in Processes |-> [i \in Loops |-> "none"]]
  /\ service = [p \in Processes |-> IF Functions(p) = {} THEN "absent" ELSE "starting"]
  /\ abandoned = FALSE /\ deletions = 0 /\ failures = 0

-----------------------------------------------------------------------------
(* The set-up: thread w of process p *)

At(p, w, pc) == thread[p][w].pc = pc
Step(p, w, new) == thread' = [thread EXCEPT ![p][w] = new]
Current(p, w) == subscribers[p][thread[p][w].at]
Self(p, w) == thread[p][w]

(* The queue whose turn it is: the subscriber's or its dead-letter queue. *)
Target(p, w) == IF Self(p, w).dead THEN Current(p, w).redrive ELSE Current(p, w).queue

Begun(p, i) == [Idle EXCEPT !.pc = IF i \in Functions(p) THEN "url" ELSE "end", !.at = i]

(* _subscribe puts a new close_waiter into the class.  Loops that wait for the
   one before go on waiting for that.                                       *)
Subscribe(p, w) ==
  /\ At(p, w, "subscribe")
  /\ closed' = [closed EXCEPT ![p] = FALSE]
  /\ held' = [held EXCEPT ![p] = [i \in Loops |->
                IF @[i] # "current" THEN @[i] ELSE IF closed[p] THEN "told" ELSE "old"]]
  /\ Step(p, w, Begun(p, 1))
  /\ UNCHANGED <<aws, subscribed, loop, service, bounds>>

(* create_queue, or get_queue_url_from_arn, asks for the URL of the queue. *)
GetQueueUrl(p, w) ==
  /\ At(p, w, "url")
  /\ queue[Target(p, w)] # Missing \/ ~Current(p, w).byArn
  /\ Step(p, w, [Self(p, w) EXCEPT !.pc = IF queue[Target(p, w)] = Missing THEN "create" ELSE "arn"])
  /\ UNCHANGED <<aws, subscribed, loop, waiters, service, bounds>>

(* CreateQueue answers with the URL if another process was faster. *)
CreateQueue(p, w) ==
  /\ At(p, w, "create")
  /\ queue' = IF queue[Target(p, w)] = Missing THEN [queue EXCEPT ![Target(p, w)] = Fresh] ELSE queue
  /\ Step(p, w, [Self(p, w) EXCEPT !.pc = "arn"])
  /\ UNCHANGED <<subscription, subscribed, loop, waiters, service, bounds>>

(* The ARN of the queue; then the same for its dead-letter queue, if any.  *)
GetQueueArn(p, w) ==
  /\ At(p, w, "arn") /\ queue[Target(p, w)] # Missing
  /\ Step(p, w, IF ~Self(p, w).dead /\ Current(p, w).redrive \in Queues
                THEN [Self(p, w) EXCEPT !.pc = "url", !.dead = TRUE]
                ELSE [Self(p, w) EXCEPT !.pc = "topic", !.dead = FALSE])
  /\ UNCHANGED <<aws, subscribed, loop, waiters, service, bounds>>

(* create_topic, for a topic without wildcard.  A function without a topic has
   a queue, and nothing else is read or set for it.                         *)
CreateTopic(p, w) ==
  /\ At(p, w, "topic") /\ ~Current(p, w).wildcard
  /\ Step(p, w, [Self(p, w) EXCEPT !.found = Current(p, w).topics,
                   !.pc = IF Current(p, w).topics = {} THEN "consume" ELSE "read"])
  /\ UNCHANGED <<aws, subscribed, loop, waiters, service, bounds>>

(* subscribe_wildcard_topic lists the topics, and knows in the end those of the
   last page that match.  Without a match it subscribes to nothing.         *)
ListTopics(p, w) ==
  LET self == Self(p, w)
      page == self.page + 1
      found == Pages[page] \cap Current(p, w).topics
  IN /\ At(p, w, "topic") /\ Current(p, w).wildcard
     /\ Step(p, w, [self EXCEPT !.found = found, !.page = page,
                      !.pc = IF page < Len(Pages) THEN "topic" ELSE IF found # {} THEN "read" ELSE "consume"])
     /\ UNCHANGED <<aws, subscribed, loop, waiters, service, bounds>>

(* subscribe_topics asks for the attributes, and does without if that fails. *)
Unknown == [policy |-> {}, visibility |-> Unset, redrive |-> Unset, kms |-> Off]

ReadAttributes(p, w) ==
  /\ At(p, w, "read")
  /\ Step(p, w, [Self(p, w) EXCEPT !.pc = "set",
                   !.known = IF queue[Target(p, w)] = Missing THEN Unknown ELSE queue[Target(p, w)]])
  /\ UNCHANGED <<aws, subscribed, loop, waiters, service, bounds>>

ReadFails(p, w) ==
  /\ At(p, w, "read") /\ failures < MaxFailures
  /\ failures' = failures + 1 /\ abandoned' = TRUE
  /\ Step(p, w, [Self(p, w) EXCEPT !.pc = "set", !.known = Unknown])
  /\ UNCHANGED <<aws, subscribed, loop, waiters, service, subscribers, deletions>>

(* Mutant: without a dead-letter queue the redrive policy is left alone. *)
DiffersOrOff(s, known, found) ==
    {a \in {"policy", "visibility", "redrive", "kms"} :
       \/ a = "policy" /\ known.policy # found
       \/ a = "visibility" /\ s.visibility \notin {Unset, "0"} /\ known.visibility \notin {Unset, "0", s.visibility}
       \/ a = "redrive" /\ s.redrive \notin {Unset, Off} /\ known.redrive \notin {Unset, s.redrive}
       \/ a = "kms" /\ s.kms \notin {Unset, known.kms}}

(* The attributes to set: the policy, which admits the topics that were found,
   and the settings that the decorator and the options name, where they differ
   from what is known.  A visibility timeout of 0 counts as not named, and one
   of 0 that the queue has counts as not known.                             *)
Differs(s, known, found) ==
    {a \in {"policy", "visibility", "redrive", "kms"} :
       \/ a = "policy" /\ known.policy # found
       \/ a = "visibility" /\ s.visibility \notin {Unset, "0"} /\ known.visibility \notin {Unset, "0", s.visibility}
       \/ a = "redrive" /\ s.redrive # Unset /\ known.redrive \notin {Unset, s.redrive}
       \/ a = "kms" /\ s.kms \notin {Unset, known.kms}}

Wanted(s, a, found) ==
  CASE a = "policy" -> found
    [] a = "visibility" -> s.visibility
    [] a = "redrive" -> s.redrive
    [] a = "kms" -> s.kms

(* SetQueueAttributes, if there is something to set; then the subscriptions. *)
SetAttributes(p, w) ==
  LET self == Self(p, w)
      q == Target(p, w)
      set == Differs(Current(p, w), self.known, self.found)
  IN /\ At(p, w, "set") /\ (set = {} \/ queue[q] # Missing)
     /\ queue' = IF set = {} THEN queue
                 ELSE [queue EXCEPT ![q] = [a \in DOMAIN @ |->
                         IF a \in set THEN Wanted(Current(p, w), a, self.found) ELSE @[a]]]
     /\ Step(p, w, [self EXCEPT !.pc = "topics", !.left = self.found, !.known = Missing,
                      !.update = Current(p, w).filter # Unset])
     /\ UNCHANGED <<subscription, subscribed, loop, waiters, service, bounds>>

(* Subscribe for topic t.  With attributes the request fails if there is a
   subscription with others: it is made again without, and the attributes are
   set afterwards.  Once a request with attributes succeeded update_attributes
   is FALSE, and the topics that are left are subscribed to without.        *)
SubscribeTopic(p, w, t) ==
  LET self == Self(p, w)
      q == Target(p, w)
      filter == Current(p, w).filter
      old == subscription[t][q]
  IN /\ At(p, w, "topics") /\ t \in self.left
     /\ subscription' = IF old # Missing THEN subscription
                        ELSE [subscription EXCEPT ![t][q] = IF self.update THEN filter ELSE Off]
     /\ Step(p, w, IF ~self.update THEN [self EXCEPT !.left = @ \ {t}]
                   ELSE IF old \in {Missing, filter}
                        THEN [self EXCEPT !.left = @ \ {t}, !.update = FALSE]
                        ELSE [self EXCEPT !.pc = "attributes", !.arn = t])
     /\ UNCHANGED <<queue, subscribed, loop, waiters, service, bounds>>

SetSubscriptionAttributes(p, w) ==
  LET self == Self(p, w) IN
  /\ At(p, w, "attributes")
  /\ subscription' = [subscription EXCEPT ![self.arn][Target(p, w)] = Current(p, w).filter]
  /\ Step(p, w, [self EXCEPT !.pc = "topics", !.left = @ \ {self.arn}, !.arn = Missing])
  /\ UNCHANGED <<queue, subscribed, loop, waiters, service, bounds>>

(* consume_queue: a loop that waits until the service is started.  One that a
   re-subscription creates waits for ever, beside the loop that began it.   *)
ConsumeQueue(p, w) ==
  LET self == Self(p, w) IN
  /\ At(p, w, "consume") \/ (At(p, w, "topics") /\ self.left = {})
  /\ loop' = IF w = Container THEN [loop EXCEPT ![p][self.at] = "await"] ELSE loop
  /\ Step(p, w, Begun(p, self.at + 1))
  /\ UNCHANGED <<aws, subscribed, waiters, service, bounds>>

(* The set-up is complete.  A re-subscription returns to its loop. *)
Complete(p, w) ==
  /\ At(p, w, "end")
  /\ Step(p, w, Idle)
  /\ IF w = Container THEN service' = [service EXCEPT ![p] = "started"] /\ UNCHANGED loop
                      ELSE loop' = [loop EXCEPT ![p][w] = "sleep"] /\ UNCHANGED service
  /\ UNCHANGED <<aws, subscribed, waiters, bounds>>

(* A request is refused, for whatever reason, or because the queue it names is
   gone.  The start of the service fails, a re-subscription is given up.    *)
Requests == {"url", "create", "arn", "topic", "set", "topics", "attributes"}

Gone(p, w) ==
  /\ queue[Target(p, w)] = Missing
  /\ \/ At(p, w, "arn")
     \/ At(p, w, "url") /\ Current(p, w).byArn
     \/ At(p, w, "set") /\ Differs(Current(p, w), Self(p, w).known, Self(p, w).found) # {}

GiveUp(p, w) ==
  /\ Step(p, w, Idle) /\ abandoned' = TRUE
  /\ IF w = Container THEN service' = [service EXCEPT ![p] = "failed"] /\ UNCHANGED loop
                      ELSE loop' = [loop EXCEPT ![p][w] = "sleep"] /\ UNCHANGED service
  /\ UNCHANGED <<aws, subscribed, waiters, subscribers, deletions>>

Fails(p, w) ==
  /\ Self(p, w).pc \in Requests /\ failures < MaxFailures
  /\ failures' = failures + 1
  /\ GiveUp(p, w)

FindsItGone(p, w) == Self(p, w).pc \in Requests /\ Gone(p, w) /\ GiveUp(p, w) /\ UNCHANGED failures

SetupStep(p, w) ==
  \/ Subscribe(p, w) \/ GetQueueUrl(p, w) \/ CreateQueue(p, w) \/ GetQueueArn(p, w)
  \/ CreateTopic(p, w) \/ ListTopics(p, w) \/ ReadAttributes(p, w) \/ SetAttributes(p, w)
  \/ (\E t \in Topics : SubscribeTopic(p, w, t)) \/ SetSubscriptionAttributes(p, w)
  \/ ConsumeQueue(p, w) \/ Complete(p, w) \/ FindsItGone(p, w)

-----------------------------------------------------------------------------
(* The receive loop of subscriber i (receive_messages and _receive_wrapper) *)

Working == {"receive", "noticed", "subscribing", "sleep"}
Move(p, i, state) == loop' = [loop EXCEPT ![p][i] = state]

(* start_waiter has its result, from started_service or from stop_service. *)
Begin(p, i) ==
  /\ loop[p][i] = "await" /\ service[p] \in {"started", "stopping"}
  /\ Move(p, i, IF closed[p] THEN "stopped" ELSE "receive")
  /\ held' = [held EXCEPT ![p][i] = "current"]
  /\ UNCHANGED <<aws, thread, subscribed, closed, service, bounds>>

(* Mutant: the loop looks at the close_waiter that it began with. *)
NextIterationCaptured(p, i) ==
  /\ loop[p][i] \in {"receive", "sleep"}
  /\ Move(p, i, IF held[p][i] # "old" /\ closed[p] THEN "stopped" ELSE "receive")
  /\ UNCHANGED <<aws, thread, subscribed, waiters, service, bounds>>

(* The long poll or the sleep after a re-subscription ends: the loop looks at
   close_waiter, and goes on or is done.                                    *)
NextIteration(p, i) ==
  /\ loop[p][i] \in {"receive", "sleep"}
  /\ Move(p, i, IF closed[p] THEN "stopped" ELSE "receive")
  /\ UNCHANGED <<aws, thread, subscribed, waiters, service, bounds>>

(* Mutant: the mark that the service has subscribed is not removed. *)
NoticeMarked(p, i) ==
  /\ loop[p][i] = "receive" /\ queue[ThisQueue(p, i)] = Missing
  /\ Move(p, i, "noticed")
  /\ UNCHANGED <<aws, thread, subscribed, waiters, service, bounds>>

(* The poll fails with NonExistentQueue, be the service stopping or not. *)
Notice(p, i) ==
  /\ loop[p][i] = "receive" /\ queue[ThisQueue(p, i)] = Missing
  /\ Move(p, i, "noticed")
  /\ subscribed' = [subscribed EXCEPT ![p] = FALSE]
  /\ UNCHANGED <<aws, thread, waiters, service, bounds>>

(* The task subscribe: only one loop of those that noticed begins. *)
SubscribeAgain(p, i) ==
  /\ loop[p][i] = "noticed"
  /\ subscribed' = [subscribed EXCEPT ![p] = TRUE]
  /\ IF subscribed[p] THEN Move(p, i, "sleep") /\ UNCHANGED thread
                      ELSE /\ Move(p, i, "subscribing")
                           /\ Step(p, i, [Idle EXCEPT !.pc = "subscribe"])
  /\ UNCHANGED <<aws, waiters, service, bounds>>

(* The loop around the loop wakes when the close_waiter it waits for has its
   result.  It looks at the current one: if that has none it waits for it
   next, otherwise it cancels what the inner loop is doing.                 *)
Wake(p, i) ==
  /\ loop[p][i] \in Working
  /\ held[p][i] = "told" \/ (held[p][i] = "current" /\ closed[p])
  /\ IF closed[p] THEN Move(p, i, "stopped") /\ Step(p, i, Idle) /\ UNCHANGED held
                  ELSE held' = [held EXCEPT ![p][i] = "current"] /\ UNCHANGED <<loop, thread>>
  /\ UNCHANGED <<aws, subscribed, closed, service, bounds>>

(* stop_service, when the service is told to stop or its start has failed. *)
Stop(p) ==
  /\ service[p] \in {"started", "failed"}
  /\ service' = [service EXCEPT ![p] = "stopping"]
  /\ closed' = [closed EXCEPT ![p] = TRUE]
  /\ UNCHANGED <<aws, thread, subscribed, loop, held, bounds>>

(* Somebody deletes some of the queues; their subscriptions stay. *)
Delete(gone) ==
  /\ \A q \in gone : queue[q] # Missing
  /\ deletions < MaxDeletions
  /\ queue' = [q \in Queues |-> IF q \in gone THEN Missing ELSE queue[q]]
  /\ deletions' = deletions + 1
  /\ UNCHANGED <<subscription, thread, subscribed, loop, waiters, service, subscribers, abandoned, failures>>

LoopStep(p, i) ==
  Begin(p, i) \/ NextIteration(p, i) \/ Notice(p, i) \/ SubscribeAgain(p, i) \/ Wake(p, i)

Next ==
  \/ \E p \in Processes, w \in Threads : SetupStep(p, w) \/ Fails(p, w) \/ ReadFails(p, w)
  \/ \E p \in Processes, i \in Loops : LoopStep(p, i)
  \/ \E p \in Processes : Stop(p)
  \/ \E gone \in SUBSET Queues \ {{}} : Delete(gone)

Spec == Init /\ [][Next]_vars

(* AWS answers every request, and the event loop runs what can run. *)
Fairness ==
  /\ \A p \in Processes, w \in Threads : WF_vars(SetupStep(p, w))
  /\ \A p \in Processes, i \in Loops : WF_vars(LoopStep(p, i))

FairSpec == Spec /\ Fairness

-----------------------------------------------------------------------------
(* Properties *)

(* Type invariant. *)
TypeOK ==
  /\ \A q \in Queues : queue[q] = Missing \/ queue[q] \in Attributes
  /\ \A p \in Processes, w \in Threads :
       /\ thread[p][w].at \in 0..(Len(subscribers[p]) + 1)
       /\ thread[p][w].left \subseteq thread[p][w].found
       /\ w \in Loops /\ thread[p][w].pc # "idle" => loop[p][w] = "subscribing"
  /\ subscribed \in [Processes -> BOOLEAN] /\ closed \in [Processes -> BOOLEAN]
  /\ loop \in [Processes -> [Loops -> Working \cup {"none", "await", "stopped"}]]
  /\ held \in [Processes -> [Loops -> {"none", "current", "old", "told"}]]
  /\ service \in [Processes -> {"absent", "starting", "started", "failed", "stopping"}]

(* The queue of a function is as its decorator says, but for a visibility
   timeout of 0 that somebody gave it.                                      *)
AsWanted(s) ==
  LET found == queue[s.queue] IN
  /\ found.policy = s.topics
  /\ s.visibility = Unset \/ found.visibility \in {s.visibility, "0"}
  /\ s.redrive = Unset \/ found.redrive = s.redrive
  /\ s.kms = Unset \/ found.kms = s.kms
  /\ \A t \in s.topics : IF s.filter = Unset THEN subscription[t][s.queue] # Missing
                                               ELSE subscription[t][s.queue] = s.filter

(* When nothing is being set up the queues are as the decorators say, whatever
   they were before, whichever process came first and whenever a queue was
   deleted; provided no set-up was given up and no process stopped half-way.
   The attributes of a queue whose function has no topic are nobody's concern.  *)
AtWork == \E p \in Processes, w \in Threads : thread[p][w].pc # "idle"

Configured ==
  /\ ~abandoned /\ ~AtWork /\ \A p \in Processes : service[p] \in {"absent", "started"}
  => \A p \in Processes : \A i \in Functions(p) :
       queue[ThisQueue(p, i)] # Missing /\ subscribers[p][i].topics # {} => AsWanted(subscribers[p][i])

(* Queues that are deleted while services receive from them are there again in
   the end, unless a service must not create its queue or is stopped.       *)
Deleted ==
  \E p \in Processes : service[p] = "started" /\ \E i \in Functions(p) :
    loop[p][i] # "await" /\ queue[ThisQueue(p, i)] = Missing /\ ~subscribers[p][i].byArn

Repaired == Deleted ~> ~Deleted

(* Every loop stops when the service does, those too that wait for a
   close_waiter that was replaced, unless it is replaced once more after that. *)
AllStopped(p) == \A i \in Loops : loop[p][i] \in {"none", "stopped"}
Stopping == \E p \in Processes : service[p] = "stopping" /\ closed[p] /\ ~AllStopped(p)

StopTerminates == Stopping ~> ~Stopping

(* Not so: README.md, "consumers will stop receiving new messages" once the
   service has been told to terminate.  A re-subscription that ends after the
   stop began replaces the close_waiter, and nobody resolves the new one.   *)
Draining == \E p \in Processes : service[p] = "stopping" /\ ~AllStopped(p)

ConsumersStop == Draining ~> ~Draining

(* Not so: README.md, "The filter_policy value [...] will be applied on the SNS
   subscription (for the specified topic and queue)."  Of the topics that a
   pattern matches only the first one gets it on a queue without subscriptions. *)
FilterApplied ==
  \A p \in Processes : service[p] = "started" => \A i \in Functions(p) :
    LET s == subscribers[p][i] IN
      s.filter # Unset => \A t \in s.topics : subscription[t][s.queue] = s.filter
=============================================================================
