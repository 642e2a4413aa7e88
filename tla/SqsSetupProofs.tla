--------------------------- MODULE SqsSetupProofs ---------------------------
(* Safety of SqsSubscription, for any processes, functions and queues, and  *)
(* of TopicCache, for any number of coroutines and topics.                  *)
EXTENDS SqsSubscription, TopicCache, TLAPS

-----------------------------------------------------------------------------
(* Setting up queues and subscriptions: types.                              *)

Resting == {"idle", "subscribe", "end"}
Preparing == {"url", "create", "arn", "topic"}
Subscribing == {"topics", "attributes"}
InSetup == {"url", "create", "arn", "topic", "read", "set", "topics", "attributes", "consume"}

Stages == Resting \cup InSetup

Setup == [pc : Stages, at : Nat, dead : BOOLEAN, found : SUBSET Topics, page : Nat,
          known : Attributes \cup {Missing, Unknown}, left : SUBSET Topics, update : BOOLEAN,
          arn : Topics \cup {Missing}]

Typed ==
  /\ subscribers \in Deployments
  /\ queue \in [Queues -> Attributes \cup {Missing}]
  /\ subscription \in [Topics -> [Queues -> STRING \cup {Missing, Unset, Off, "old"}]]
  /\ thread \in [Processes -> [Threads -> Setup]]
  /\ subscribed \in [Processes -> BOOLEAN] /\ closed \in [Processes -> BOOLEAN]
  /\ loop \in [Processes -> [Loops -> Working \cup {"none", "await", "stopped"}]]
  /\ held \in [Processes -> [Loops -> {"none", "current", "old", "told"}]]
  /\ service \in [Processes -> {"absent", "starting", "started", "failed", "stopping"}]

(* The deployments of which Configured can hold: the functions of a queue are
   the same in all processes, a dead-letter queue is not the queue of a
   function with a topic, and the decorators ask for nothing that the set-up
   drops: a visibility timeout of 0, topics of a pattern that are not on the
   last page, and a filter policy on more than one topic.                   *)
AgreeOnQueues(d) ==
  \A p, x \in Processes : \A i \in 1..Len(d[p]), j \in 1..Len(d[x]) :
    /\ d[p][i].queue = d[x][j].queue => d[p][i] = d[x][j]
    /\ d[p][i].redrive = d[x][j].queue => d[x][j].topics = {}

Attainable(s) ==
  /\ s.visibility # "0"
  /\ s.wildcard => s.topics # {} /\ s.topics \subseteq Pages[Len(Pages)]
  /\ s.filter = Unset \/ \A t, u \in s.topics : t = u

Consistent ==
  /\ Len(Pages) > 0
  /\ \A d \in Deployments : AgreeOnQueues(d) /\ \A p \in Processes : \A i \in 1..Len(d[p]) : Attainable(d[p][i])

\* What a set-up knows at each of its places: where it is in its program,
\* and, in a consistent deployment, what it still has to do.
Informed(p, self) ==
  LET s == subscribers[p][self.at] IN
  /\ self.pc \in Preparing => self.page < Len(Pages)
  /\ self.pc \in {"read", "set"} \cup Subscribing => self.found = s.topics
  /\ self.pc \in Subscribing /\ self.left # {} /\ s.filter # Unset => self.update

Sound(p, self) ==
  /\ self.at \in 0..(Len(subscribers[p]) + 1)
  /\ self.pc \in InSetup => self.at \in Functions(p)
  /\ self.dead => self.pc \in {"url", "create", "arn"} /\ subscribers[p][self.at].redrive \in Queues
  /\ self.left \subseteq self.found
  /\ self.pc \notin Subscribing => self.left = {}
  /\ self.pc = "attributes" => self.arn \in self.left
  /\ Consistent => Informed(p, self)

\* Only a loop that subscribes again has a set-up of its own; only a service that
\* starts is set up by its container, and its loops do not run yet; and only one
\* that stops has told its loops to.
Owned ==
  /\ \A p \in Processes, w \in Loops : thread[p][w].pc # "idle" => loop[p][w] = "subscribing"
  /\ \A p \in Processes : thread[p][Container].pc # "idle" => service[p] = "starting"
  /\ \A p \in Processes : service[p] = "starting" => \A i \in Loops : loop[p][i] \in {"none", "await"}
  /\ \A p \in Processes : closed[p] => service[p] = "stopping"

SetupsSound == \A p \in Processes, w \in Threads : Sound(p, thread[p][w])

LEMMA FunctionTypes ==
  ASSUME subscribers \in Deployments, NEW p \in Processes
  PROVE  /\ Len(subscribers[p]) \in Nat /\ Functions(p) = 1..Len(subscribers[p])
         /\ Functions(p) \subseteq Loops
         /\ \A i \in Functions(p) : subscribers[p][i] \in Subscriber
<1>1. subscribers[p] \in Seq(Subscriber)
  BY SubscriptionAssumption
<1>2. Functions(p) \subseteq Loops
  <2>1. \A d \in Deployments, x \in Processes : 1..Len(d[x]) \subseteq Loops
    BY DEF Loops
  <2> QED
    BY <2>1 DEF Functions
<1>3. Len(subscribers[p]) \in Nat /\ \A i \in 1..Len(subscribers[p]) : subscribers[p][i] \in Subscriber
  BY <1>1
<1>4. Functions(p) = 1..Len(subscribers[p])
  BY DEF Functions
<1> QED
  BY <1>2, <1>3, <1>4

LEMMA FunctionsAttainable ==
  ASSUME Consistent, subscribers \in Deployments, NEW p \in Processes, NEW i \in Functions(p)
  PROVE  /\ Attainable(subscribers[p][i])
         /\ subscribers[p][i].topics # {} => subscribers[p][i].redrive # ThisQueue(p, i)
         /\ \A x \in Processes : \A j \in Functions(x) :
              /\ ThisQueue(x, j) = ThisQueue(p, i) => subscribers[x][j] = subscribers[p][i]
              /\ subscribers[p][i].topics # {} => subscribers[x][j].redrive # ThisQueue(p, i)
<1>1. AgreeOnQueues(subscribers) /\ Attainable(subscribers[p][i])
  BY DEF Consistent, Functions
<1> QED
  BY <1>1 DEF AgreeOnQueues, ThisQueue, Functions

LEMMA ContainerIsNoLoop == Container \in Threads /\ Container \notin Loops /\ Loops \subseteq Threads /\ Loops \subseteq Nat
<1>1. ASSUME NEW d \in Deployments, NEW p \in Processes PROVE 1..Len(d[p]) \subseteq Nat \ {0}
  BY SubscriptionAssumption
<1> QED
  BY <1>1 DEF Container, Threads, Loops

LEMMA StageNames ==
  /\ Resting \subseteq Stages /\ Preparing \subseteq Stages /\ Subscribing \subseteq Stages
  /\ {"idle", "url", "create", "arn", "topic", "read", "set", "topics", "attributes", "consume", "end", "subscribe"} \subseteq Stages
  BY DEF Stages, Resting, InSetup, Preparing, Subscribing

LEMMA BegunIsSound ==
  ASSUME subscribers \in Deployments, NEW p \in Processes, NEW i \in 1..(Len(subscribers[p]) + 1)
  PROVE  /\ Begun(p, i) \in Setup /\ Sound(p, Begun(p, i))
         /\ Begun(p, i).at = i /\ Begun(p, i).pc = IF i \in Functions(p) THEN "url" ELSE "end"
<1>1. Len(subscribers[p]) \in Nat /\ (Consistent => Len(Pages) > 0)
  BY FunctionTypes DEF Consistent
<1> DEFINE place == IF i \in Functions(p) THEN "url" ELSE "end"
           new == [Idle EXCEPT !.pc = place, !.at = i]
<1>2. place \in {"url", "end"} /\ (place = "url" => i \in Functions(p)) /\ new = Begun(p, i)
  BY DEF Begun
<1>3. place \in Stages /\ i \in Nat
  BY <1>1, <1>2, StageNames
<1> HIDE DEF place
<1>4. new \in Setup
  BY <1>3 DEF Idle, Setup
<1>5. new.pc = place /\ new.at = i /\ new.dead = FALSE /\ new.page = 0 /\ new.left = {}
  BY DEF Idle
<1> HIDE DEF new
<1>6. Sound(p, new)
  BY <1>1, <1>2, <1>4, <1>5 DEF Sound, Informed, InSetup, Preparing, Subscribing
<1> QED
  BY <1>2, <1>4, <1>5, <1>6 DEF place

LEMMA IdleIsSound ==
  ASSUME subscribers \in Deployments, NEW p \in Processes
  PROVE  Idle \in Setup /\ Sound(p, Idle) /\ Idle.pc = "idle"
<1>1. Len(subscribers[p]) \in Nat
  BY FunctionTypes
<1>2. Idle \in Setup
  BY StageNames DEF Idle, Setup
<1> QED
  BY <1>1, <1>2 DEF Idle, Sound, Informed, InSetup, Preparing, Subscribing

\* Where a step puts one set-up it leaves all others.
LEMMA OneSetup ==
  ASSUME thread \in [Processes -> [Threads -> Setup]], NEW p \in Processes, NEW w \in Threads,
         NEW new \in Setup, Step(p, w, new)
  PROVE  /\ thread' \in [Processes -> [Threads -> Setup]] /\ thread'[p][w] = new
         /\ \A x \in Processes, v \in Threads : x # p \/ v # w => thread'[x][v] = thread[x][v]
  BY DEF Step

-----------------------------------------------------------------------------
(* What a step of a set-up makes of it.                                     *)

\* The set-up self and the set-up new after its step.
Advance(p, self, new) ==
  \/ self.pc = "subscribe" /\ new = Begun(p, 1)
  \/ self.pc = "consume" /\ new = Begun(p, self.at + 1)
  \/ self.pc = "topics" /\ self.left = {} /\ new = Begun(p, self.at + 1)
  \/ self.pc = "end" /\ new = Idle
  \/ /\ self.pc \in Preparing /\ new.pc \in Preparing \cup {"read", "consume"} /\ new.at = self.at
     /\ Consistent /\ subscribers[p][self.at].topics # {} => new.pc # "consume"
  \/ self.pc = "read" /\ new.pc = "set" /\ new.at = self.at
  \/ self.pc = "set" /\ new.pc = "topics" /\ new.at = self.at
     /\ (Consistent => new.left = subscribers[p][self.at].topics)
  \/ self.pc \in Subscribing /\ new.pc \in Subscribing /\ new.at = self.at

Advances(p, w) ==
  \E new \in Setup : Step(p, w, new) /\ Sound(p, new) /\ Advance(p, thread[p][w], new)

LEMMA PreparingAdvances ==
  ASSUME Typed, NEW p \in Processes, NEW w \in Threads, Sound(p, thread[p][w]),
         GetQueueUrl(p, w) \/ CreateQueue(p, w) \/ GetQueueArn(p, w) \/ CreateTopic(p, w) \/ ListTopics(p, w)
  PROVE  Advances(p, w)
<1> DEFINE self == thread[p][w]
           s == subscribers[p][self.at]
<1>1. self \in Setup /\ Len(subscribers[p]) \in Nat /\ Functions(p) = 1..Len(subscribers[p])
  BY FunctionTypes DEF Typed
<1>2. ASSUME NEW new \in Setup, Step(p, w, new), Sound(p, new), Advance(p, self, new)
      PROVE  Advances(p, w)
  BY <1>2 DEF Advances
<1>3. CASE GetQueueUrl(p, w)
  <2> DEFINE place == IF queue[Target(p, w)] = Missing THEN "create" ELSE "arn"
             new == [self EXCEPT !.pc = place]
  <2>1. self.pc = "url" /\ Step(p, w, new)
    BY <1>3 DEF GetQueueUrl, At, Self
  <2>2. place \in {"create", "arn"}
    OBVIOUS
  <2> HIDE DEF place
  <2>3. /\ new \in Setup /\ new.pc = place /\ new.at = self.at /\ new.left = self.left
        /\ new.found = self.found /\ new.page = self.page /\ new.dead = self.dead
    BY <1>1, <2>2, StageNames DEF Setup
  <2> HIDE DEF new
  <2>4. Sound(p, new) /\ Advance(p, self, new)
    BY <1>1, <2>1, <2>2, <2>3 DEF Sound, Informed, Advance, InSetup, Preparing, Subscribing
  <2> QED
    BY <1>2, <2>1, <2>3, <2>4
<1>4. CASE CreateQueue(p, w)
  <2> DEFINE new == [self EXCEPT !.pc = "arn"]
  <2>1. self.pc = "create" /\ Step(p, w, new)
    BY <1>4 DEF CreateQueue, At, Self
  <2>2. /\ new \in Setup /\ new.pc = "arn" /\ new.at = self.at /\ new.left = self.left
        /\ new.found = self.found /\ new.page = self.page /\ new.dead = self.dead
    BY <1>1, StageNames DEF Setup
  <2> HIDE DEF new
  <2>3. Sound(p, new) /\ Advance(p, self, new)
    BY <1>1, <2>1, <2>2 DEF Sound, Informed, Advance, InSetup, Preparing, Subscribing
  <2> QED
    BY <1>2, <2>1, <2>2, <2>3
<1>5. CASE GetQueueArn(p, w)
  <2>1. CASE ~self.dead /\ s.redrive \in Queues
    <3> DEFINE new == [self EXCEPT !.pc = "url", !.dead = TRUE]
    <3>1. self.pc = "arn" /\ Step(p, w, new)
      BY <1>5, <2>1 DEF GetQueueArn, At, Self, Current
    <3>2. /\ new \in Setup /\ new.pc = "url" /\ new.at = self.at /\ new.left = self.left
          /\ new.found = self.found /\ new.page = self.page /\ new.dead = TRUE
      BY <1>1, StageNames DEF Setup
    <3> HIDE DEF new
    <3>3. Sound(p, new) /\ Advance(p, self, new)
      BY <1>1, <2>1, <3>1, <3>2 DEF Sound, Informed, Advance, InSetup, Preparing, Subscribing
    <3> QED
      BY <1>2, <3>1, <3>2, <3>3
  <2>2. CASE ~(~self.dead /\ s.redrive \in Queues)
    <3> DEFINE new == [self EXCEPT !.pc = "topic", !.dead = FALSE]
    <3>1. self.pc = "arn" /\ Step(p, w, new)
      BY <1>5, <2>2 DEF GetQueueArn, At, Self, Current
    <3>2. /\ new \in Setup /\ new.pc = "topic" /\ new.at = self.at /\ new.left = self.left
          /\ new.found = self.found /\ new.page = self.page /\ new.dead = FALSE
      BY <1>1, StageNames DEF Setup
    <3> HIDE DEF new
    <3>3. Sound(p, new) /\ Advance(p, self, new)
      BY <1>1, <3>1, <3>2 DEF Sound, Informed, Advance, InSetup, Preparing, Subscribing
    <3> QED
      BY <1>2, <3>1, <3>2, <3>3
  <2> QED
    BY <2>1, <2>2
<1>6. CASE CreateTopic(p, w)
  <2> DEFINE place == IF s.topics = {} THEN "consume" ELSE "read"
             new == [self EXCEPT !.found = s.topics, !.pc = place]
  <2>1. self.pc = "topic" /\ Step(p, w, new)
    BY <1>6 DEF CreateTopic, At, Self, Current
  <2>a. place \in {"consume", "read"} /\ (place = "consume" => s.topics = {})
    OBVIOUS
  <2> HIDE DEF place
  <2>2. s.topics \subseteq Topics
    BY <1>1, <2>1, FunctionTypes DEF Typed, Sound, InSetup, Subscriber
  <2>3. /\ new \in Setup /\ new.pc = place /\ new.at = self.at /\ new.left = self.left
        /\ new.found = s.topics /\ new.dead = self.dead
    BY <1>1, <2>2, <2>a, StageNames DEF Setup
  <2> HIDE DEF new
  <2>4. Sound(p, new)
    BY <1>1, <2>1, <2>3, <2>a DEF Sound, Informed, InSetup, Preparing, Subscribing
  <2>5. Advance(p, self, new)
    BY <2>1, <2>3, <2>a DEF Advance, Preparing
  <2> QED
    BY <1>2, <2>1, <2>3, <2>4, <2>5
<1>7. CASE ListTopics(p, w)
  <2> DEFINE page == self.page + 1
             found == Pages[page] \cap s.topics
             place == IF page < Len(Pages) THEN "topic" ELSE IF found # {} THEN "read" ELSE "consume"
             new == [self EXCEPT !.found = found, !.page = page, !.pc = place]
  <2>1. self.pc = "topic" /\ s.wildcard /\ Step(p, w, new)
    BY <1>7, Zenon DEF ListTopics, At, Self, Current
  <2>2. /\ self.at \in Functions(p) /\ self.page \in Nat /\ Len(Pages) \in Nat
        /\ Consistent => self.page < Len(Pages)
    <3>1. self.at \in Functions(p) /\ (Consistent => self.page < Len(Pages))
      BY <2>1 DEF Sound, Informed, InSetup, Preparing
    <3>2. self.page \in Nat
      BY <1>1 DEF Setup
    <3>3. Len(Pages) \in Nat
      BY SubscriptionAssumption
    <3> QED
      BY <3>1, <3>2, <3>3
  <2>3. s.topics \subseteq Topics /\ (Consistent => s.topics # {} /\ s.topics \subseteq Pages[Len(Pages)])
    <3>1. s.topics \subseteq Topics
      BY <2>2, FunctionTypes DEF Typed, Subscriber
    <3>2. ASSUME Consistent PROVE s.topics # {} /\ s.topics \subseteq Pages[Len(Pages)]
      <4>1. Attainable(s)
        BY <2>2, <3>2, FunctionsAttainable DEF Typed
      <4> HIDE DEF s
      <4> QED
        BY <2>1, <4>1 DEF Attainable
    <3> QED
      BY <3>1, <3>2
  <2>4. page \in Nat
    BY <2>2
  <2>5. /\ place \in {"topic", "read", "consume"} /\ (place = "topic" => page < Len(Pages))
        /\ Consistent => place # "consume" /\ (place = "read" => found = s.topics)
    <3>1. CASE page < Len(Pages)
      BY <3>1
    <3>2. CASE ~(page < Len(Pages))
      <4>1. Consistent => page = Len(Pages)
        BY <2>2, <2>4, <3>2
      <4>2. Consistent => found = s.topics
        BY <2>3, <4>1
      <4> QED
        BY <2>3, <3>2, <4>2
    <3> QED
      BY <3>1, <3>2
  <2>6. found \subseteq Topics
    BY <2>3
  <2> HIDE DEF page, found, place
  <2>7. /\ new \in Setup /\ new.pc = place /\ new.at = self.at /\ new.left = self.left
        /\ new.found = found /\ new.page = page /\ new.dead = self.dead
    BY <1>1, <2>4, <2>5, <2>6, StageNames DEF Setup
  <2> HIDE DEF new
  <2>8. Sound(p, new)
    BY <1>1, <2>1, <2>5, <2>7 DEF Sound, Informed, InSetup, Preparing, Subscribing
  <2>9. Advance(p, self, new)
    BY <2>1, <2>5, <2>7 DEF Advance, Preparing
  <2> QED
    BY <1>2, <2>1, <2>7, <2>8, <2>9
<1> QED
  BY <1>3, <1>4, <1>5, <1>6, <1>7

LEMMA ReadAdvances ==
  ASSUME Typed, NEW p \in Processes, NEW w \in Threads, Sound(p, thread[p][w]),
         ReadAttributes(p, w) \/ ReadFails(p, w)
  PROVE  Advances(p, w)
<1> DEFINE self == thread[p][w]
           s == subscribers[p][self.at]
<1>1. self \in Setup /\ self.pc = "read"
  BY DEF Typed, ReadAttributes, ReadFails, At
<1>2. self.at \in Functions(p) /\ ~self.dead /\ s \in Subscriber
  BY <1>1, FunctionTypes DEF Typed, Sound, InSetup, Setup
<1>3. Target(p, w) = s.queue /\ s.queue \in Queues
  BY <1>2 DEF Target, Self, Current, Subscriber
<1>4. ASSUME NEW known \in Attributes \cup {Missing, Unknown},
             Step(p, w, [self EXCEPT !.pc = "set", !.known = known])
      PROVE  Advances(p, w)
  <2> DEFINE new == [self EXCEPT !.pc = "set", !.known = known]
  <2>1. /\ new \in Setup /\ new.pc = "set" /\ new.at = self.at /\ new.left = self.left
        /\ new.found = self.found /\ new.dead = self.dead
    BY <1>1, StageNames DEF Setup
  <2>2. Step(p, w, new)
    BY <1>4
  <2> HIDE DEF new
  <2>3. Sound(p, new) /\ Advance(p, self, new)
    BY <1>1, <2>1 DEF Sound, Informed, Advance, InSetup, Preparing, Subscribing
  <2> QED
    BY <2>1, <2>2, <2>3 DEF Advances
<1>5. CASE ReadFails(p, w)
  BY <1>4, <1>5 DEF ReadFails, Self
<1>6. CASE ReadAttributes(p, w)
  <2> DEFINE known == IF queue[Target(p, w)] = Missing THEN Unknown ELSE queue[Target(p, w)]
  <2>1. known \in Attributes \cup {Missing, Unknown}
    BY <1>3 DEF Typed
  <2>2. Step(p, w, [self EXCEPT !.pc = "set", !.known = known])
    BY <1>6, Zenon DEF ReadAttributes, Self
  <2> HIDE DEF known
  <2> QED
    BY <1>4, <2>1, <2>2
<1> QED
  BY <1>5, <1>6

LEMMA SetAdvances ==
  ASSUME Typed, NEW p \in Processes, NEW w \in Threads, Sound(p, thread[p][w]), SetAttributes(p, w)
  PROVE  Advances(p, w)
<1> DEFINE self == thread[p][w]
           s == subscribers[p][self.at]
           update == s.filter # Unset
           new == [self EXCEPT !.pc = "topics", !.left = self.found, !.known = Missing, !.update = update]
<1>1. self \in Setup /\ self.pc = "set" /\ Step(p, w, new)
  <2>1. self \in Setup
    BY DEF Typed
  <2>2. self.pc = "set" /\ Step(p, w, new)
    BY Zenon DEF SetAttributes, At, Self, Current
  <2> QED
    BY <2>1, <2>2
<1>2. update \in BOOLEAN /\ (s.filter # Unset => update)
  OBVIOUS
<1> HIDE DEF update
<1>3. /\ new \in Setup /\ new.pc = "topics" /\ new.at = self.at /\ new.left = self.found
      /\ new.found = self.found /\ new.dead = self.dead /\ new.update = update
  BY <1>1, <1>2, StageNames DEF Setup
<1> HIDE DEF new
<1>4. Sound(p, new) /\ Advance(p, self, new)
  BY <1>1, <1>2, <1>3 DEF Sound, Informed, Advance, InSetup, Preparing, Subscribing
<1> QED
  BY <1>1, <1>3, <1>4 DEF Advances

LEMMA SubscribingAdvances ==
  ASSUME Typed, NEW p \in Processes, NEW w \in Threads, Sound(p, thread[p][w]),
         (\E t \in Topics : SubscribeTopic(p, w, t)) \/ SetSubscriptionAttributes(p, w)
  PROVE  Advances(p, w)
<1> DEFINE self == thread[p][w]
           s == subscribers[p][self.at]
<1>1. self \in Setup /\ self.pc \in Subscribing
  <2>1. self \in Setup
    BY DEF Typed
  <2>2. self.pc = "attributes" \/ self.pc = "topics"
    BY Zenon DEF SubscribeTopic, SetSubscriptionAttributes, At
  <2> QED
    BY <2>1, <2>2 DEF Subscribing
<1>2. /\ self.at \in Functions(p) /\ self.left \subseteq self.found
      /\ self.left \in SUBSET Topics /\ ~self.dead
      /\ Consistent => self.found = s.topics /\ (self.left # {} /\ s.filter # Unset => self.update)
  BY <1>1 DEF Sound, Informed, InSetup, Subscribing, Setup
<1>3. Consistent => Attainable(s)
  BY <1>2, FunctionsAttainable DEF Typed
<1>4. ASSUME NEW new \in Setup, Step(p, w, new), new.at = self.at, new.found = self.found, ~new.dead,
             new.pc \in Subscribing, new.left \subseteq self.left, new.pc = "attributes" => new.arn \in new.left,
             Consistent /\ new.left # {} /\ s.filter # Unset => new.update
      PROVE  Advances(p, w)
  <2>1. Sound(p, new) /\ Advance(p, self, new)
    BY <1>1, <1>2, <1>4 DEF Sound, Informed, Advance, InSetup, Preparing, Subscribing
  <2> QED
    BY <1>4, <2>1 DEF Advances
<1>5. CASE SetSubscriptionAttributes(p, w)
  <2> DEFINE new == [self EXCEPT !.pc = "topics", !.left = @ \ {self.arn}, !.arn = Missing]
  <2>1. Step(p, w, new)
    BY <1>5 DEF SetSubscriptionAttributes, Self
  <2>2. /\ new \in Setup /\ new.pc = "topics" /\ new.at = self.at /\ new.left = self.left \ {self.arn}
        /\ new.found = self.found /\ new.dead = self.dead /\ new.update = self.update
    BY <1>1, <1>2, StageNames DEF Setup
  <2> HIDE DEF new
  <2> QED
    BY <1>2, <1>4, <2>1, <2>2 DEF Subscribing
<1>6. ASSUME NEW t \in Topics, SubscribeTopic(p, w, t) PROVE Advances(p, w)
  <2> DEFINE old == subscription[t][Target(p, w)]
  <2>1. self.pc = "topics" /\ t \in self.left
    BY <1>6 DEF SubscribeTopic, At, Self
  <2>2. CASE ~self.update
    <3> DEFINE new == [self EXCEPT !.left = @ \ {t}]
    <3>1. Step(p, w, new)
      BY <1>6, <2>2 DEF SubscribeTopic, Self
    <3>2. /\ new \in Setup /\ new.pc = "topics" /\ new.at = self.at /\ new.left = self.left \ {t}
          /\ new.found = self.found /\ new.dead = self.dead /\ new.update = self.update
      BY <1>1, <1>2, <2>1, StageNames DEF Setup
    <3> HIDE DEF new
    <3> QED
      BY <1>2, <1>4, <2>1, <3>1, <3>2 DEF Subscribing
  <2>3. CASE self.update /\ old \in {Missing, s.filter}
    <3> DEFINE new == [self EXCEPT !.left = @ \ {t}, !.update = FALSE]
    <3>1. Step(p, w, new)
      BY <1>6, <2>3, Zenon DEF SubscribeTopic, Self, Current
    <3>2. /\ new \in Setup /\ new.pc = "topics" /\ new.at = self.at /\ new.left = self.left \ {t}
          /\ new.found = self.found /\ new.dead = self.dead
      BY <1>1, <1>2, <2>1, StageNames, Zenon DEF Setup
    <3> HIDE DEF new
    <3>3. Consistent => s.filter = Unset \/ new.left = {}
      BY <1>2, <1>3, <2>1, <3>2, Zenon DEF Attainable
    <3> QED
      BY <1>2, <1>4, <2>1, <3>1, <3>2, <3>3 DEF Subscribing
  <2>4. CASE self.update /\ old \notin {Missing, s.filter}
    <3> DEFINE new == [self EXCEPT !.pc = "attributes", !.arn = t]
    <3>1. Step(p, w, new)
      BY <1>6, <2>4, Zenon DEF SubscribeTopic, Self, Current
    <3>2. /\ new \in Setup /\ new.pc = "attributes" /\ new.at = self.at /\ new.left = self.left
          /\ new.found = self.found /\ new.dead = self.dead /\ new.update = self.update /\ new.arn = t
      BY <1>1, <1>2, <2>1, StageNames DEF Setup
    <3> HIDE DEF new
    <3> QED
      BY <1>2, <1>4, <2>1, <3>1, <3>2 DEF Subscribing
  <2> QED
    BY <2>2, <2>3, <2>4
<1> QED
  BY <1>5, <1>6

LEMMA FunctionAdvances ==
  ASSUME Typed, NEW p \in Processes, NEW w \in Threads, Sound(p, thread[p][w]),
         Subscribe(p, w) \/ ConsumeQueue(p, w) \/ Complete(p, w)
  PROVE  Advances(p, w)
<1> DEFINE self == thread[p][w]
<1>1. /\ subscribers \in Deployments /\ Len(subscribers[p]) \in Nat /\ Functions(p) = 1..Len(subscribers[p])
      /\ self.pc \in InSetup => self.at \in Functions(p)
  BY FunctionTypes DEF Typed, Sound
<1>2. CASE Subscribe(p, w)
  <2>1. self.pc = "subscribe" /\ Step(p, w, Begun(p, 1)) /\ 1 \in 1..(Len(subscribers[p]) + 1)
    BY <1>1, <1>2 DEF Subscribe, At
  <2> QED
    BY <1>1, <2>1, BegunIsSound DEF Advances, Advance
<1>3. CASE ConsumeQueue(p, w)
  <2>1. /\ self.pc = "consume" \/ (self.pc = "topics" /\ self.left = {})
        /\ Step(p, w, Begun(p, self.at + 1))
    BY <1>3 DEF ConsumeQueue, At, Self
  <2>2. self.at + 1 \in 1..(Len(subscribers[p]) + 1)
    BY <1>1, <2>1 DEF InSetup
  <2> QED
    BY <1>1, <2>1, <2>2, BegunIsSound DEF Advances, Advance
<1>4. CASE Complete(p, w)
  <2>1. self.pc = "end" /\ Step(p, w, Idle)
    BY <1>4 DEF Complete, At
  <2> QED
    BY <1>1, <2>1, IdleIsSound DEF Advances, Advance
<1> QED
  BY <1>2, <1>3, <1>4


\* The attributes of a queue after a set-up that read old set those of s.
Update(known, s, old, found) ==
  [a \in DOMAIN known |-> IF a \in Differs(s, old, found) THEN Wanted(s, a, found) ELSE known[a]]

LEMMA Updated ==
  ASSUME NEW s \in Subscriber, NEW known \in Attributes, NEW old, NEW found \in SUBSET Topics,
         NEW new, new = Update(known, s, old, found)
  PROVE  /\ new \in Attributes
         /\ new.policy = IF "policy" \in Differs(s, old, found) THEN found ELSE known.policy
         /\ new.visibility = IF "visibility" \in Differs(s, old, found) THEN s.visibility ELSE known.visibility
         /\ new.redrive = IF "redrive" \in Differs(s, old, found) THEN s.redrive ELSE known.redrive
         /\ new.kms = IF "kms" \in Differs(s, old, found) THEN s.kms ELSE known.kms
<1> DEFINE set == Differs(s, old, found)
           names == {"policy", "visibility", "redrive", "kms"}
<1>1. /\ Wanted(s, "policy", found) = found /\ Wanted(s, "visibility", found) = s.visibility
      /\ Wanted(s, "redrive", found) = s.redrive /\ Wanted(s, "kms", found) = s.kms
  BY DEF Wanted
<1>2. /\ "visibility" \in set => s.visibility # Unset
      /\ "redrive" \in set => s.redrive # Unset
      /\ "kms" \in set => s.kms # Unset
  BY DEF Differs
<1>3. DOMAIN known = names
  BY DEF Attributes
<1> HIDE DEF set
<1>4. /\ new.policy = IF "policy" \in set THEN found ELSE known.policy
      /\ new.visibility = IF "visibility" \in set THEN s.visibility ELSE known.visibility
      /\ new.redrive = IF "redrive" \in set THEN s.redrive ELSE known.redrive
      /\ new.kms = IF "kms" \in set THEN s.kms ELSE known.kms
  BY <1>1, <1>3 DEF set, Update
<1>5. new = [a \in names |-> new[a]]
  BY <1>3 DEF Update
<1>6. /\ new.policy \in SUBSET Topics /\ new.visibility \in STRING
      /\ new.redrive \in Queues \cup {Off} /\ new.kms \in STRING \cup {Off}
  BY <1>2, <1>4 DEF Attributes, Subscriber
<1>7. new \in Attributes
  BY <1>5, <1>6 DEF Attributes
<1> QED
  BY <1>4, <1>7 DEF set

-----------------------------------------------------------------------------
(* Types, what each set-up knows, and whose it is, over all steps.           *)

LEMMA SetupAdvances ==
  ASSUME Typed, SetupsSound, NEW p \in Processes, NEW w \in Threads,
         SetupStep(p, w) \/ ReadFails(p, w)
  PROVE  Advances(p, w) \/ FindsItGone(p, w)
<1>1. Sound(p, thread[p][w])
  BY DEF SetupsSound
<1> QED
  BY <1>1, PreparingAdvances, ReadAdvances, SetAdvances, SubscribingAdvances, FunctionAdvances DEF SetupStep

\* In every step at most one set-up moves.
Moves(p, w) == \E new \in Setup : Step(p, w, new) /\ Sound(p, new)

LEMMA SomeMove ==
  ASSUME Typed, SetupsSound, [Next]_vars
  PROVE  UNCHANGED thread \/ \E p \in Processes, w \in Threads : Moves(p, w)
<1>1. ASSUME NEW p \in Processes, NEW w \in Threads, SetupStep(p, w) \/ ReadFails(p, w) \/ Fails(p, w)
      PROVE  Moves(p, w)
  <2>1. CASE Advances(p, w)
    BY <2>1 DEF Advances, Moves
  <2>2. CASE Fails(p, w) \/ FindsItGone(p, w)
    <3>1. Step(p, w, Idle)
      BY <2>2 DEF Fails, FindsItGone, GiveUp
    <3> QED
      BY <3>1, IdleIsSound DEF Moves, Typed
  <2> QED
    BY <1>1, <2>1, <2>2, SetupAdvances
<1>2. ASSUME NEW p \in Processes, NEW i \in Loops, LoopStep(p, i)
      PROVE  UNCHANGED thread \/ Moves(p, i)
  <2>1. CASE Begin(p, i) \/ NextIteration(p, i) \/ Notice(p, i)
    BY <2>1 DEF Begin, NextIteration, Notice
  <2>2. CASE Wake(p, i)
    <3>1. Step(p, i, Idle) \/ UNCHANGED thread
      BY <2>2 DEF Wake
    <3> QED
      BY <3>1, IdleIsSound DEF Moves, Typed
  <2>3. CASE SubscribeAgain(p, i)
    <3> DEFINE new == [Idle EXCEPT !.pc = "subscribe"]
    <3>1. Step(p, i, new) \/ UNCHANGED thread
      BY <2>3 DEF SubscribeAgain
    <3>2. /\ new \in Setup /\ new.pc = "subscribe" /\ new.at = Idle.at /\ new.dead = Idle.dead
          /\ new.left = Idle.left /\ new.found = Idle.found
      BY IdleIsSound, StageNames DEF Typed, Setup
    <3>3. Sound(p, Idle)
      BY IdleIsSound DEF Typed
    <3> HIDE DEF new
    <3>4. ~Idle.dead /\ Idle.left = {}
      BY DEF Idle
    <3>5. Sound(p, new)
      BY <3>2, <3>3, <3>4 DEF Sound, Informed, InSetup, Preparing, Subscribing
    <3> QED
      BY <3>1, <3>2, <3>5 DEF Moves
  <2> QED
    BY <1>2, <2>1, <2>2, <2>3 DEF LoopStep
<1>3. CASE UNCHANGED vars
  BY <1>3 DEF vars
<1>4. ASSUME NEW p \in Processes, Stop(p) PROVE UNCHANGED thread
  BY <1>4 DEF Stop
<1>5. ASSUME NEW gone \in SUBSET Queues, Delete(gone) PROVE UNCHANGED thread
  BY <1>5 DEF Delete
<1> QED
  BY <1>1, <1>2, <1>3, <1>4, <1>5, ContainerIsNoLoop DEF Next

\* Which steps change the queues, the subscriptions, and the decorated functions.
LEMMA WhatChanges ==
  ASSUME [Next]_vars
  PROVE  /\ subscribers' = subscribers
         /\ \/ UNCHANGED queue
            \/ \E p \in Processes, w \in Threads : CreateQueue(p, w) \/ SetAttributes(p, w)
            \/ \E gone \in SUBSET Queues : Delete(gone)
         /\ \/ UNCHANGED subscription
            \/ \E p \in Processes, w \in Threads :
                 (\E t \in Topics : SubscribeTopic(p, w, t)) \/ SetSubscriptionAttributes(p, w)
<1>1. ASSUME NEW p \in Processes, NEW w \in Threads, SetupStep(p, w)
      PROVE  /\ subscribers' = subscribers
             /\ UNCHANGED queue \/ CreateQueue(p, w) \/ SetAttributes(p, w)
             /\ \/ UNCHANGED subscription
                \/ (\E t \in Topics : SubscribeTopic(p, w, t)) \/ SetSubscriptionAttributes(p, w)
  <2>1. CASE Subscribe(p, w) \/ GetQueueUrl(p, w) \/ GetQueueArn(p, w)
    BY <2>1 DEF Subscribe, GetQueueUrl, GetQueueArn, aws, bounds
  <2>2. CASE CreateTopic(p, w) \/ ListTopics(p, w) \/ ReadAttributes(p, w)
    BY <2>2 DEF CreateTopic, ListTopics, ReadAttributes, aws, bounds
  <2>3. CASE ConsumeQueue(p, w) \/ Complete(p, w) \/ FindsItGone(p, w)
    BY <2>3 DEF ConsumeQueue, Complete, FindsItGone, GiveUp, aws, bounds
  <2>4. CASE CreateQueue(p, w) \/ SetAttributes(p, w)
    BY <2>4 DEF CreateQueue, SetAttributes, bounds
  <2>5. CASE (\E t \in Topics : SubscribeTopic(p, w, t)) \/ SetSubscriptionAttributes(p, w)
    BY <2>5, Zenon DEF SubscribeTopic, SetSubscriptionAttributes, bounds
  <2> QED
    BY <1>1, <2>1, <2>2, <2>3, <2>4, <2>5 DEF SetupStep
<1>2. ASSUME NEW p \in Processes, NEW w \in Threads, Fails(p, w) \/ ReadFails(p, w)
      PROVE  UNCHANGED <<subscribers, queue, subscription>>
  BY <1>2 DEF Fails, ReadFails, GiveUp, aws
<1>3. ASSUME NEW p \in Processes, NEW i \in Loops, LoopStep(p, i)
      PROVE  UNCHANGED <<subscribers, queue, subscription>>
  BY <1>3 DEF LoopStep, Begin, NextIteration, Notice, SubscribeAgain, Wake, aws, bounds
<1>4. ASSUME NEW p \in Processes, Stop(p) PROVE UNCHANGED <<subscribers, queue, subscription>>
  BY <1>4 DEF Stop, aws, bounds
<1>5. ASSUME NEW gone \in SUBSET Queues, Delete(gone) PROVE UNCHANGED <<subscribers, subscription>>
  BY <1>5 DEF Delete
<1>6. CASE UNCHANGED vars
  BY <1>6 DEF vars, aws, bounds
<1> QED
  BY <1>1, <1>2, <1>3, <1>4, <1>5, <1>6 DEF Next

\* The queue that a set-up is about.
LEMMA TargetOf ==
  ASSUME Typed, SetupsSound, NEW p \in Processes, NEW w \in Threads, thread[p][w].pc \in InSetup
  PROVE  LET s == subscribers[p][thread[p][w].at] IN
         /\ thread[p][w] \in Setup /\ thread[p][w].at \in Functions(p)
         /\ s \in Subscriber /\ Current(p, w) = s /\ Target(p, w) \in Queues
         /\ Target(p, w) = IF thread[p][w].dead THEN s.redrive ELSE s.queue
         /\ thread[p][w].dead => thread[p][w].pc \in {"url", "create", "arn"}
<1>1. Sound(p, thread[p][w]) /\ thread[p][w] \in Setup
  BY DEF SetupsSound, Typed
<1>2. thread[p][w].at \in Functions(p)
  BY <1>1 DEF Sound
<1>3. subscribers[p][thread[p][w].at] \in Subscriber
  BY <1>2, FunctionTypes DEF Typed
<1>4. subscribers[p][thread[p][w].at].queue \in Queues
  BY <1>3 DEF Subscriber
<1> QED
  BY <1>1, <1>2, <1>3, <1>4 DEF Target, Current, Self, Sound

\* What SetAttributes makes of the queue.
LEMMA QueueSet ==
  ASSUME Typed, SetupsSound, NEW p \in Processes, NEW w \in Threads, SetAttributes(p, w)
  PROVE  LET self == thread[p][w]
             s == subscribers[p][self.at]
             set == Differs(s, self.known, self.found)
         IN /\ self.pc = "set" /\ ~self.dead /\ self.found \in SUBSET Topics
            /\ s.queue \in Queues /\ s \in Subscriber
            /\ \/ set = {} /\ UNCHANGED queue
               \/ /\ queue[s.queue] \in Attributes
                  /\ queue' = [queue EXCEPT ![s.queue] = Update(@, s, self.known, self.found)]
<1> DEFINE self == thread[p][w]
           s == subscribers[p][self.at]
           set == Differs(s, self.known, self.found)
<1>1. self.pc = "set" /\ self.pc \in InSetup
  BY DEF SetAttributes, At, InSetup
<1>2. /\ self \in Setup /\ s \in Subscriber /\ Current(p, w) = s /\ Target(p, w) = s.queue /\ s.queue \in Queues
      /\ ~self.dead
  BY <1>1, TargetOf
<1>3. self.found \in SUBSET Topics
  BY <1>2 DEF Setup
<1>4. /\ set = {} \/ queue[s.queue] # Missing
      /\ queue' = IF set = {} THEN queue
                  ELSE [queue EXCEPT ![s.queue] = Update(@, s, self.known, self.found)]
  BY <1>2, Zenon DEF SetAttributes, Self, Update
<1>5. queue[s.queue] \in Attributes \cup {Missing}
  BY <1>2 DEF Typed
<1> HIDE DEF self, s, set
<1> QED
  BY <1>1, <1>2, <1>3, <1>4, <1>5, Zenon DEF self, s, set

LEMMA QueuesTyped ==
  ASSUME Typed, SetupsSound, [Next]_vars
  PROVE  queue' \in [Queues -> Attributes \cup {Missing}]
<1> USE DEF Typed
<1>1. ASSUME NEW p \in Processes, NEW w \in Threads, CreateQueue(p, w)
      PROVE  queue' \in [Queues -> Attributes \cup {Missing}]
  BY <1>1, SubscriptionAssumption DEF CreateQueue
<1>2. ASSUME NEW p \in Processes, NEW w \in Threads, SetAttributes(p, w)
      PROVE  queue' \in [Queues -> Attributes \cup {Missing}]
  <2> DEFINE self == thread[p][w]
             s == subscribers[p][self.at]
             new == Update(queue[s.queue], s, self.known, self.found)
  <2>1. /\ self.found \in SUBSET Topics /\ s.queue \in Queues /\ s \in Subscriber
        /\ \/ UNCHANGED queue
           \/ queue[s.queue] \in Attributes /\ queue' = [queue EXCEPT ![s.queue] = new]
    BY <1>2, QueueSet
  <2>2. queue[s.queue] \in Attributes => new \in Attributes
    BY <2>1, Updated
  <2> HIDE DEF new
  <2> QED
    BY <2>1, <2>2
<1>3. ASSUME NEW gone \in SUBSET Queues, Delete(gone)
      PROVE  queue' \in [Queues -> Attributes \cup {Missing}]
  BY <1>3 DEF Delete
<1> QED
  BY <1>1, <1>2, <1>3, WhatChanges

LEMMA SubscriptionsTyped ==
  ASSUME Typed, SetupsSound, [Next]_vars
  PROVE  subscription' \in [Topics -> [Queues -> STRING \cup {Missing, Unset, Off, "old"}]]
<1> DEFINE Some == STRING \cup {Missing, Unset, Off, "old"}
<1>1. subscription \in [Topics -> [Queues -> Some]]
  BY DEF Typed
<1>2. ASSUME NEW t \in Topics, NEW q \in Queues, NEW f \in Some
      PROVE  [subscription EXCEPT ![t][q] = f] \in [Topics -> [Queues -> Some]]
  BY <1>1
<1>3. ASSUME NEW p \in Processes, NEW w \in Threads, thread[p][w].pc \in Subscribing
      PROVE  Target(p, w) \in Queues /\ Current(p, w).filter \in Some
  <2>1. Target(p, w) \in Queues /\ Current(p, w) \in Subscriber
    BY <1>3, TargetOf DEF Subscribing, InSetup
  <2> QED
    BY <2>1 DEF Subscriber
<1>4. ASSUME NEW p \in Processes, NEW w \in Threads, NEW t \in Topics, SubscribeTopic(p, w, t)
      PROVE  subscription' \in [Topics -> [Queues -> Some]]
  <2>1. thread[p][w].pc \in Subscribing
    BY <1>4 DEF SubscribeTopic, At, Subscribing
  <2> DEFINE f == IF Self(p, w).update THEN Current(p, w).filter ELSE Off
  <2>2. f \in Some
    BY <1>3, <2>1
  <2>3. subscription' = subscription \/ subscription' = [subscription EXCEPT ![t][Target(p, w)] = f]
    BY <1>4, Zenon DEF SubscribeTopic
  <2> HIDE DEF f
  <2> QED
    BY <1>1, <1>2, <1>3, <2>1, <2>2, <2>3
<1>5. ASSUME NEW p \in Processes, NEW w \in Threads, SetSubscriptionAttributes(p, w)
      PROVE  subscription' \in [Topics -> [Queues -> Some]]
  <2>1. thread[p][w].pc = "attributes" /\ thread[p][w].pc \in Subscribing
    BY <1>5 DEF SetSubscriptionAttributes, At, Subscribing
  <2>2. thread[p][w].arn \in Topics
    BY <2>1 DEF SetupsSound, Sound, Typed, Setup
  <2>3. subscription' = [subscription EXCEPT ![thread[p][w].arn][Target(p, w)] = Current(p, w).filter]
    BY <1>5 DEF SetSubscriptionAttributes, Self
  <2> QED
    BY <1>2, <1>3, <2>1, <2>2, <2>3
<1> QED
  BY <1>1, <1>4, <1>5, WhatChanges

LEMMA OtherTypes ==
  ASSUME Typed, SetupsSound, [Next]_vars
  PROVE  /\ subscribed' \in [Processes -> BOOLEAN] /\ closed' \in [Processes -> BOOLEAN]
         /\ loop' \in [Processes -> [Loops -> Working \cup {"none", "await", "stopped"}]]
         /\ held' \in [Processes -> [Loops -> {"none", "current", "old", "told"}]]
         /\ service' \in [Processes -> {"absent", "starting", "started", "failed", "stopping"}]
<1> DEFINE Types == /\ subscribed' \in [Processes -> BOOLEAN] /\ closed' \in [Processes -> BOOLEAN]
                    /\ loop' \in [Processes -> [Loops -> Working \cup {"none", "await", "stopped"}]]
                    /\ held' \in [Processes -> [Loops -> {"none", "current", "old", "told"}]]
                    /\ service' \in [Processes -> {"absent", "starting", "started", "failed", "stopping"}]
<1> DEFINE LoopStates == Working \cup {"none", "await", "stopped"}
           HeldStates == {"none", "current", "old", "told"}
<1>a. /\ subscribed \in [Processes -> BOOLEAN] /\ closed \in [Processes -> BOOLEAN]
      /\ loop \in [Processes -> [Loops -> LoopStates]] /\ held \in [Processes -> [Loops -> HeldStates]]
      /\ service \in [Processes -> {"absent", "starting", "started", "failed", "stopping"}]
  BY DEF Typed
<1>b. {"await", "stopped", "receive", "noticed", "subscribing", "sleep"} \subseteq LoopStates /\ "current" \in HeldStates
  BY DEF Working
<1>c. ASSUME /\ subscribed' \in [Processes -> BOOLEAN] /\ closed' \in [Processes -> BOOLEAN]
             /\ loop' \in [Processes -> [Loops -> LoopStates]] /\ held' \in [Processes -> [Loops -> HeldStates]]
             /\ service' \in [Processes -> {"absent", "starting", "started", "failed", "stopping"}]
      PROVE  Types
  BY <1>c
<1> HIDE DEF LoopStates, HeldStates, Types
<1>d. ASSUME NEW p, NEW i, NEW state \in LoopStates, loop' = [loop EXCEPT ![p][i] = state]
      PROVE  loop' \in [Processes -> [Loops -> LoopStates]]
  BY <1>a, <1>d
<1>e. ASSUME NEW p, NEW i, held' = [held EXCEPT ![p][i] = "current"]
      PROVE  held' \in [Processes -> [Loops -> HeldStates]]
  BY <1>a, <1>b, <1>e
<1>1. ASSUME UNCHANGED <<subscribed, loop, waiters, service>> PROVE Types
  BY <1>1, <1>a, <1>c DEF waiters
<1>2. ASSUME NEW p \in Processes, NEW w \in Threads, SetupStep(p, w) \/ ReadFails(p, w) \/ Fails(p, w)
      PROVE  Types
  <2>1. CASE Subscribe(p, w)
    <3>1. held' \in [Processes -> [Loops -> HeldStates]]
      BY <2>1, <1>a DEF Subscribe, HeldStates
    <3>2. closed' = [closed EXCEPT ![p] = FALSE] /\ UNCHANGED <<subscribed, loop, service>>
      BY <2>1 DEF Subscribe
    <3> QED
      BY <1>a, <1>c, <3>1, <3>2
  <2>2. CASE ConsumeQueue(p, w)
    <3>1. /\ loop' = [loop EXCEPT ![p][Self(p, w).at] = "await"] \/ loop' = loop
          /\ UNCHANGED <<subscribed, closed, held, service>>
      BY <2>2 DEF ConsumeQueue, waiters
    <3>2. loop' \in [Processes -> [Loops -> LoopStates]]
      BY <1>a, <1>b, <1>d, <3>1
    <3> QED
      BY <1>a, <1>c, <3>1, <3>2
  <2>3. ASSUME IF w = Container THEN (service' = [service EXCEPT ![p] = "started"] \/ service' = [service EXCEPT ![p] = "failed"])
                                     /\ UNCHANGED loop
                                ELSE loop' = [loop EXCEPT ![p][w] = "sleep"] /\ UNCHANGED service,
               UNCHANGED <<subscribed, closed, held>>
        PROVE  Types
    <3>1. service' \in [Processes -> {"absent", "starting", "started", "failed", "stopping"}]
      BY <1>a, <2>3
    <3>2. loop' \in [Processes -> [Loops -> LoopStates]]
      BY <1>a, <1>b, <1>d, <2>3
    <3> QED
      BY <1>a, <1>c, <2>3, <3>1, <3>2
  <2>4. CASE Complete(p, w) \/ Fails(p, w) \/ FindsItGone(p, w)
    BY <2>3, <2>4 DEF Complete, Fails, FindsItGone, GiveUp, waiters
  <2>5. CASE GetQueueUrl(p, w) \/ CreateQueue(p, w) \/ GetQueueArn(p, w) \/ CreateTopic(p, w)
    BY <1>1, <2>5 DEF GetQueueUrl, CreateQueue, GetQueueArn, CreateTopic
  <2>6. CASE ListTopics(p, w) \/ ReadAttributes(p, w) \/ SetAttributes(p, w) \/ ReadFails(p, w)
    BY <1>1, <2>6 DEF ListTopics, ReadAttributes, SetAttributes, ReadFails
  <2>7. CASE (\E t \in Topics : SubscribeTopic(p, w, t)) \/ SetSubscriptionAttributes(p, w)
    BY <1>1, <2>7, Zenon DEF SubscribeTopic, SetSubscriptionAttributes
  <2> QED
    BY <1>2, <2>1, <2>2, <2>4, <2>5, <2>6, <2>7 DEF SetupStep
<1>3. ASSUME NEW p \in Processes, NEW i \in Loops, LoopStep(p, i) PROVE Types
  <2>1. /\ loop' = loop \/ \E state \in LoopStates : loop' = [loop EXCEPT ![p][i] = state]
        /\ held' = held \/ held' = [held EXCEPT ![p][i] = "current"]
        /\ subscribed' = subscribed \/ \E b \in BOOLEAN : subscribed' = [subscribed EXCEPT ![p] = b]
        /\ UNCHANGED <<closed, service>>
    <3>1. CASE Begin(p, i)
      BY <1>b, <3>1 DEF Begin, Move
    <3>2. CASE NextIteration(p, i)
      BY <1>b, <3>2 DEF NextIteration, Move, waiters
    <3>3. CASE Notice(p, i)
      BY <1>b, <3>3 DEF Notice, Move, waiters
    <3>4. CASE SubscribeAgain(p, i)
      BY <1>b, <3>4 DEF SubscribeAgain, Move, waiters
    <3>5. CASE Wake(p, i)
      BY <1>b, <3>5 DEF Wake, Move
    <3> QED
      BY <1>3, <3>1, <3>2, <3>3, <3>4, <3>5 DEF LoopStep
  <2>2. loop' \in [Processes -> [Loops -> LoopStates]]
    <3>1. loop' = loop \/ \E state \in LoopStates : loop' = [loop EXCEPT ![p][i] = state]
      BY <2>1
    <3> QED
      BY <1>a, <1>d, <3>1
  <2>3. held' \in [Processes -> [Loops -> HeldStates]]
    <3>1. held' = held \/ held' = [held EXCEPT ![p][i] = "current"]
      BY <2>1
    <3> QED
      BY <1>a, <1>b, <1>e, <3>1
  <2>4. subscribed' \in [Processes -> BOOLEAN]
    <3>1. subscribed' = subscribed \/ \E b \in BOOLEAN : subscribed' = [subscribed EXCEPT ![p] = b]
      BY <2>1
    <3> QED
      BY <1>a, <3>1
  <2> QED
    BY <1>a, <1>c, <2>1, <2>2, <2>3, <2>4
<1>4. ASSUME NEW p \in Processes, Stop(p) PROVE Types
  BY <1>4, <1>a, <1>c DEF Stop
<1>5. ASSUME NEW gone \in SUBSET Queues, Delete(gone) PROVE Types
  BY <1>1, <1>5 DEF Delete
<1>6. ASSUME UNCHANGED vars PROVE Types
  BY <1>1, <1>6 DEF vars
<1>7. Types
  BY <1>2, <1>3, <1>4, <1>5, <1>6 DEF Next
<1> QED
  BY <1>7 DEF Types

\* The set-up of a loop that is not at work is not at work either.
LEMMA OwnedByLoops ==
  ASSUME Typed, SetupsSound, Owned, [Next]_vars
  PROVE  Owned'
<1> DEFINE Active(p, w) == thread[p][w].pc # "idle"
<1>1. ASSUME NEW p \in Processes, NEW w \in Threads, Active(p, w), Moves(p, w), UNCHANGED service,
             \A x \in Processes : closed'[x] => closed[x],
             \A x \in Processes, i \in Loops :
               loop'[x][i] = loop[x][i] \/ (w = Container /\ x = p /\ loop'[x][i] = "await")
      PROVE  Owned'
  <2>1. /\ w \in Loops => loop[p][w] = "subscribing" /\ service[p] # "starting"
        /\ w = Container => service[p] = "starting" /\ \A i \in Loops : loop[p][i] \in {"none", "await"}
    BY <1>1 DEF Owned
  <2>2. \A x \in Processes, v \in Threads : x # p \/ v # w => thread'[x][v] = thread[x][v]
    BY <1>1, OneSetup DEF Moves, Typed
  <2>3. w \in Loops \/ w = Container
    BY DEF Threads
  <2>4. \A x \in Processes, v \in Loops : thread'[x][v].pc # "idle" => loop'[x][v] = "subscribing"
    BY <1>1, <2>1, <2>2, <2>3, ContainerIsNoLoop DEF Owned
  <2>5. \A x \in Processes : thread'[x][Container].pc # "idle" => service'[x] = "starting"
    BY <1>1, <2>1, <2>2, <2>3, ContainerIsNoLoop DEF Owned
  <2>6. \A x \in Processes : service'[x] = "starting" => \A i \in Loops : loop'[x][i] \in {"none", "await"}
    BY <1>1, <2>1, <2>2, <2>3, ContainerIsNoLoop DEF Owned
  <2>7. \A x \in Processes : closed'[x] => service'[x] = "stopping"
    BY <1>1 DEF Owned
  <2> QED
    BY <2>4, <2>5, <2>6, <2>7 DEF Owned
<1>2. ASSUME NEW p \in Processes, NEW w \in Threads, Active(p, w), Step(p, w, Idle), UNCHANGED closed,
             NEW next \in {"started", "failed"},
             IF w = Container THEN service' = [service EXCEPT ![p] = next] /\ UNCHANGED loop
                              ELSE loop' = [loop EXCEPT ![p][w] = "sleep"] /\ UNCHANGED service
      PROVE  Owned'
  <2>1. /\ w \in Loops => loop[p][w] = "subscribing" /\ service[p] # "starting"
        /\ w = Container => service[p] = "starting"
    BY <1>2, Zenon DEF Owned
  <2>2. /\ \A x \in Processes, v \in Threads : x # p \/ v # w => thread'[x][v] = thread[x][v]
        /\ thread'[p][w].pc = "idle"
    BY <1>2, OneSetup, IdleIsSound DEF Typed
  <2>3. w \in Loops \/ w = Container
    BY DEF Threads
  <2>4. \A x \in Processes, v \in Loops : x # p \/ v # w => loop'[x][v] = loop[x][v]
    BY <1>2 DEF Typed
  <2>5. \A x \in Processes : service'[x] = service[x] \/ (x = p /\ w = Container /\ service[x] = "starting" /\ service'[x] = next)
    BY <1>2, <2>1 DEF Typed
  <2>6. \A x \in Processes, v \in Loops : thread'[x][v].pc # "idle" => loop'[x][v] = "subscribing"
    BY <2>2, <2>4, ContainerIsNoLoop DEF Owned
  <2>7. \A x \in Processes : thread'[x][Container].pc # "idle" => service'[x] = "starting"
    BY <2>2, <2>5, ContainerIsNoLoop DEF Owned
  <2>8. \A x \in Processes : service'[x] = "starting" => \A i \in Loops : loop'[x][i] \in {"none", "await"}
    BY <1>2, <2>1, <2>3, <2>4, <2>5 DEF Owned
  <2>9. \A x \in Processes : closed'[x] => service'[x] = "stopping"
    BY <1>2, <2>5 DEF Owned
  <2> QED
    BY <2>6, <2>7, <2>8, <2>9 DEF Owned
<1>3. ASSUME NEW p \in Processes, NEW w \in Threads, SetupStep(p, w) \/ ReadFails(p, w) \/ Fails(p, w)
      PROVE  Owned'
  <2> USE DEF At, Self
  <2>1. CASE Complete(p, w)
    BY <1>2, <2>1 DEF Complete, waiters
  <2>2. CASE Fails(p, w) \/ FindsItGone(p, w)
    BY <1>2, <2>2 DEF Fails, FindsItGone, GiveUp, Requests, waiters
  <2>3. ASSUME SetupStep(p, w) \/ ReadFails(p, w), ~FindsItGone(p, w) PROVE Moves(p, w)
    BY <2>3, SetupAdvances DEF Advances, Moves
  <2>4. CASE Subscribe(p, w)
    <3>1. Active(p, w) /\ UNCHANGED <<service, loop>> /\ closed' = [closed EXCEPT ![p] = FALSE] /\ Moves(p, w)
      BY <2>3, <2>2, <2>4 DEF Subscribe, FindsItGone, Requests, SetupStep
    <3> QED
      BY <1>1, <3>1 DEF Typed
  <2>5. CASE ConsumeQueue(p, w)
    <3>1. CASE FindsItGone(p, w)
      BY <2>2, <3>1
    <3>2. CASE ~FindsItGone(p, w)
      <4>1. /\ Active(p, w) /\ UNCHANGED <<service, closed>> /\ Moves(p, w)
            /\ loop' = loop \/ (w = Container /\ loop' = [loop EXCEPT ![p][Self(p, w).at] = "await"])
        BY <2>3, <2>5, <3>2 DEF ConsumeQueue, waiters, SetupStep
      <4>2. \A x \in Processes, i \in Loops :
              loop'[x][i] = loop[x][i] \/ (w = Container /\ x = p /\ loop'[x][i] = "await")
        BY <4>1 DEF Typed
      <4> QED
        BY <1>1, <4>1, <4>2
    <3> QED
      BY <3>1, <3>2
  <2>6. ASSUME Active(p, w), SetupStep(p, w) \/ ReadFails(p, w), UNCHANGED <<service, closed, loop>> PROVE Owned'
    <3>1. CASE FindsItGone(p, w)
      BY <2>2, <3>1
    <3>2. CASE ~FindsItGone(p, w)
      BY <1>1, <2>3, <2>6, <3>2
    <3> QED
      BY <3>1, <3>2
  <2>7. CASE GetQueueUrl(p, w) \/ CreateQueue(p, w) \/ GetQueueArn(p, w) \/ CreateTopic(p, w)
    BY <2>6, <2>7, Zenon DEF GetQueueUrl, CreateQueue, GetQueueArn, CreateTopic, SetupStep, waiters
  <2>8. CASE ListTopics(p, w) \/ ReadAttributes(p, w) \/ SetAttributes(p, w) \/ ReadFails(p, w)
    BY <2>6, <2>8, Zenon DEF ListTopics, ReadAttributes, SetAttributes, ReadFails, SetupStep, waiters
  <2>9. CASE (\E t \in Topics : SubscribeTopic(p, w, t)) \/ SetSubscriptionAttributes(p, w)
    BY <2>6, <2>9, Zenon DEF SubscribeTopic, SetSubscriptionAttributes, SetupStep, waiters
  <2> QED
    BY <1>3, <2>1, <2>2, <2>4, <2>5, <2>7, <2>8, <2>9 DEF SetupStep
<1>4. ASSUME NEW p \in Processes, NEW i \in Loops, LoopStep(p, i) PROVE Owned'
  <2>0. i \in Threads /\ i # Container
    BY ContainerIsNoLoop
  <2>1. CASE Begin(p, i) \/ NextIteration(p, i) \/ Notice(p, i)
    <3>1. /\ UNCHANGED <<thread, closed, service>> /\ loop[p][i] # "subscribing" /\ service[p] # "starting"
          /\ \A x \in Processes, v \in Loops : x # p \/ v # i => loop'[x][v] = loop[x][v]
      BY <2>1 DEF Begin, NextIteration, Notice, Move, waiters, Typed, Owned
    <3> QED
      BY <3>1 DEF Owned
  <2>2. CASE SubscribeAgain(p, i)
    <3> DEFINE new == [Idle EXCEPT !.pc = "subscribe"]
    <3>1. /\ UNCHANGED <<closed, service>> /\ loop[p][i] = "noticed"
          /\ \/ thread' = thread /\ loop' = [loop EXCEPT ![p][i] = "sleep"]
             \/ thread' = [thread EXCEPT ![p][i] = new] /\ loop' = [loop EXCEPT ![p][i] = "subscribing"]
      BY <2>2, Zenon DEF SubscribeAgain, Move, Step, waiters
    <3> HIDE DEF new
    <3>2. /\ \A x \in Processes, v \in Loops : x # p \/ v # i => loop'[x][v] = loop[x][v]
          /\ thread' = thread \/ loop'[p][i] = "subscribing"
      BY <3>1 DEF Typed
    <3>3. \A x \in Processes, v \in Threads : x # p \/ v # i => thread'[x][v] = thread[x][v]
      BY <3>1 DEF Typed
    <3>4. service[p] # "starting"
      BY <3>1 DEF Owned
    <3> QED
      BY <2>0, <3>1, <3>2, <3>3, <3>4, ContainerIsNoLoop DEF Owned
  <2>3. CASE Wake(p, i) /\ closed[p]
    <3>1. /\ UNCHANGED <<closed, service>> /\ service[p] = "stopping"
          /\ \A x \in Processes, v \in Loops : x # p \/ v # i => loop'[x][v] = loop[x][v]
          /\ \A x \in Processes, v \in Threads : x # p \/ v # i => thread'[x][v] = thread[x][v]
          /\ thread'[p][i].pc = "idle"
      BY <2>0, <2>3 DEF Wake, Move, Step, Typed, Owned, Idle
    <3> QED
      BY <2>0, <3>1, ContainerIsNoLoop DEF Owned
  <2>4. CASE Wake(p, i) /\ ~closed[p]
    BY <2>4 DEF Wake, Owned
  <2> QED
    BY <1>4, <2>1, <2>2, <2>3, <2>4 DEF LoopStep
<1>5. ASSUME NEW p \in Processes, Stop(p) PROVE Owned'
  BY <1>5 DEF Stop, Owned, Typed
<1>6. ASSUME NEW gone \in SUBSET Queues, Delete(gone) PROVE Owned'
  BY <1>6 DEF Delete, Owned, waiters
<1>7. CASE UNCHANGED vars
  BY <1>7 DEF vars, Owned, waiters
<1> QED
  BY <1>3, <1>4, <1>5, <1>6, <1>7 DEF Next

Sane == Typed /\ SetupsSound /\ Owned

LEMMA SaneStep ==
  ASSUME Sane, [Next]_vars
  PROVE  Sane'
<1> USE DEF Sane
<1>1. subscribers' = subscribers
  BY WhatChanges
<1>2. /\ thread' \in [Processes -> [Threads -> Setup]]
      /\ \A p \in Processes, w \in Threads : Sound(p, thread'[p][w])
  <2>1. CASE UNCHANGED thread
    BY <2>1 DEF Typed, SetupsSound
  <2>2. ASSUME NEW p \in Processes, NEW w \in Threads, NEW new \in Setup, Step(p, w, new), Sound(p, new)
        PROVE  /\ thread' \in [Processes -> [Threads -> Setup]]
               /\ \A x \in Processes, v \in Threads : Sound(x, thread'[x][v])
    <3>1. /\ thread' \in [Processes -> [Threads -> Setup]] /\ thread'[p][w] = new
          /\ \A x \in Processes, v \in Threads : x # p \/ v # w => thread'[x][v] = thread[x][v]
      BY <2>2, OneSetup DEF Typed
    <3>2. ASSUME NEW x \in Processes, NEW v \in Threads PROVE Sound(x, thread'[x][v])
      <4>1. CASE x = p /\ v = w
        BY <2>2, <3>1, <4>1
      <4>2. CASE x # p \/ v # w
        <5>1. thread'[x][v] = thread[x][v] /\ Sound(x, thread[x][v])
          BY <3>1, <4>2 DEF SetupsSound
        <5> QED
          BY <5>1
      <4> QED
        BY <4>1, <4>2
    <3> QED
      BY <3>1, <3>2
  <2> QED
    BY <2>1, <2>2, SomeMove DEF Moves
<1>3. Typed'
  BY <1>1, <1>2, QueuesTyped, SubscriptionsTyped, OtherTypes DEF Typed
<1>4. SetupsSound'
  BY <1>1, <1>2 DEF SetupsSound, Sound, Informed, Functions
<1> QED
  BY <1>3, <1>4, OwnedByLoops

-----------------------------------------------------------------------------
(* The queues: what is not as a decorator with a topic wants it, some set-up  *)
(* will set.                                                                  *)

Unwanted(s, known) ==
  {a \in {"policy", "visibility", "redrive", "kms"} :
     \/ a = "policy" /\ known.policy # s.topics
     \/ a = "visibility" /\ s.visibility # Unset /\ known.visibility \notin {"0", s.visibility}
     \/ a = "redrive" /\ s.redrive \notin {Unset, known.redrive}
     \/ a = "kms" /\ s.kms \notin {Unset, known.kms}}

\* The set-up has not come farther than the given places of function i.
Before(self, i, places) ==
  self.pc = "subscribe" \/ (self.pc \in InSetup /\ (self.at < i \/ (self.at = i /\ self.pc \in places)))

\* It will set what is unwanted of the queue of function i, s: it has still to read
\* the attributes, or what it read differs in that.
WillSet(s, self, i, unwanted) ==
  \/ Before(self, i, Preparing \cup {"read"})
  \/ self.pc = "set" /\ self.at = i /\ unwanted \subseteq Differs(s, self.known, self.found)

Coverer(s, x, w, j) ==
  subscribers[x][j] = s /\ WillSet(s, thread[x][w], j, Unwanted(s, queue[s.queue]))

QueueCovered(s) ==
  \/ s.topics = {}
  \/ queue[s.queue] = Missing
  \/ Unwanted(s, queue[s.queue]) = {}
  \/ \E x \in Processes, w \in Threads : \E j \in Functions(x) : Coverer(s, x, w, j)

QueuesCovered == \A p \in Processes : \A i \in Functions(p) : QueueCovered(subscribers[p][i])

\* A set-up goes on with the functions in their order.
LEMMA StaysBefore ==
  ASSUME Consistent, subscribers \in Deployments, NEW p \in Processes, NEW i \in Functions(p),
         NEW self \in Setup, NEW new \in Setup, Advance(p, self, new),
         NEW places, Preparing \subseteq places, places \subseteq Preparing \cup {"read", "set"},
         Before(self, i, places)
  PROVE  Before(new, i, places) \/ (self.pc \in places /\ self.at = i /\ new.at = i)
<1>1. /\ Len(subscribers[p]) \in Nat /\ Functions(p) = 1..Len(subscribers[p]) /\ i \in Int
      /\ self.at \in Nat /\ new.at \in Nat
  BY FunctionTypes DEF Setup
<1>2. CASE self.pc = "subscribe"
  <2>1. new = Begun(p, 1)
    BY <1>2 DEF Advance, Preparing, Subscribing
  <2>2. 1 \in 1..(Len(subscribers[p]) + 1) /\ 1 \in Functions(p)
    BY <1>1
  <2>3. new.at = 1 /\ new.pc = "url"
    BY <2>1, <2>2, BegunIsSound
  <2> QED
    BY <1>1, <2>3 DEF Before, InSetup, Preparing
<1>3. CASE self.pc \in {"consume", "topics"} /\ new = Begun(p, self.at + 1)
  <2>1. self.at < i
    BY <1>3 DEF Before, Preparing
  <2>2. self.at + 1 \in Functions(p) /\ self.at + 1 \in 1..(Len(subscribers[p]) + 1)
    BY <1>1, <2>1
  <2>3. new.at = self.at + 1 /\ new.pc = "url"
    BY <1>3, <2>2, BegunIsSound
  <2>4. new.at < i \/ new.at = i
    BY <1>1, <2>1, <2>3
  <2> QED
    BY <2>3, <2>4 DEF Before, InSetup, Preparing
<1>4. CASE self.pc # "subscribe" /\ new.at = self.at /\ new.pc \in InSetup
  BY <1>4 DEF Before
<1>5. self.pc \in InSetup \cup {"subscribe"}
  BY DEF Before, InSetup
<1>6. \/ self.pc = "subscribe"
      \/ self.pc \in {"consume", "topics"} /\ new = Begun(p, self.at + 1)
      \/ self.pc # "subscribe" /\ new.at = self.at /\ new.pc \in InSetup
  BY <1>5 DEF Advance, InSetup, Preparing, Subscribing
<1> QED
  BY <1>2, <1>3, <1>4, <1>6

\* A set-up that read the attributes of its queue will set what is unwanted of them,
LEMMA ReadSuffices ==
  ASSUME NEW s \in Subscriber, Attainable(s), NEW known \in Attributes
  PROVE  Unwanted(s, known) \subseteq Differs(s, known, s.topics)
<1>1. known.visibility # Unset /\ known.redrive # Unset
  BY MarkersAssumption DEF Attributes
<1>2. \A a \in Unwanted(s, known) :
        \/ a = "policy" /\ known.policy # s.topics
        \/ a = "visibility" /\ s.visibility # Unset /\ known.visibility \notin {"0", s.visibility}
        \/ a = "redrive" /\ s.redrive \notin {Unset, known.redrive}
        \/ a = "kms" /\ s.kms \notin {Unset, known.kms}
  BY DEF Unwanted
<1> QED
  BY <1>1, <1>2 DEF Unwanted, Differs, Attainable

\* and what it sets is wanted.
LEMMA SettingSuffices ==
  ASSUME NEW s \in Subscriber, NEW known \in Attributes, NEW old, s.topics \in SUBSET Topics,
         NEW new, new = Update(known, s, old, s.topics)
  PROVE  Unwanted(s, new) \subseteq Unwanted(s, known) \ Differs(s, old, s.topics)
<1>1. /\ new.policy = IF "policy" \in Differs(s, old, s.topics) THEN s.topics ELSE known.policy
      /\ new.visibility = IF "visibility" \in Differs(s, old, s.topics) THEN s.visibility ELSE known.visibility
      /\ new.redrive = IF "redrive" \in Differs(s, old, s.topics) THEN s.redrive ELSE known.redrive
      /\ new.kms = IF "kms" \in Differs(s, old, s.topics) THEN s.kms ELSE known.kms
  BY Updated
<1> DEFINE set == Differs(s, old, s.topics)
<1> HIDE DEF set
<1> QED
  BY <1>1 DEF Unwanted, set

\* SetAttributes makes nothing unwanted, of no queue.
LEMMA SetShrinks ==
  ASSUME Consistent, Sane, NEW p \in Processes, NEW w \in Threads, SetAttributes(p, w),
         NEW x \in Processes, NEW i \in Functions(x)
  PROVE  LET self == thread[p][w]
             s == subscribers[x][i]
         IN IF subscribers[p][self.at] = s
            THEN Unwanted(s, queue'[s.queue]) \subseteq Unwanted(s, queue[s.queue]) \ Differs(s, self.known, self.found)
            ELSE queue'[s.queue] = queue[s.queue]
<1> DEFINE self == thread[p][w]
           s == subscribers[x][i]
           z == subscribers[p][self.at]
<1>1. /\ self.pc = "set" /\ self.found \in SUBSET Topics /\ z.queue \in Queues /\ z \in Subscriber
      /\ \/ Differs(z, self.known, self.found) = {} /\ UNCHANGED queue
         \/ /\ queue[z.queue] \in Attributes
            /\ queue' = [queue EXCEPT ![z.queue] = Update(@, z, self.known, self.found)]
  BY QueueSet DEF Sane
<1>2. self.found = z.topics /\ self.at \in Functions(p)
  BY <1>1, Zenon DEF Sane, SetupsSound, Sound, Informed, InSetup
<1>3. s.queue = z.queue => s = z
  BY <1>2, FunctionsAttainable DEF Sane, Typed, ThisQueue
<1>4. s \in Subscriber /\ s.queue \in Queues
  BY FunctionTypes DEF Sane, Typed, Subscriber
<1>5. queue \in [Queues -> Attributes \cup {Missing}]
  BY DEF Sane, Typed
<1> DEFINE new == Update(queue[z.queue], z, self.known, self.found)
<1>6. queue[z.queue] \in Attributes =>
        Unwanted(z, new) \subseteq Unwanted(z, queue[z.queue]) \ Differs(z, self.known, z.topics)
  BY <1>1, <1>2, SettingSuffices, Zenon
<1> HIDE DEF new, s, z
<1>7. CASE Differs(z, self.known, self.found) = {} /\ UNCHANGED queue
  BY <1>7 DEF s, z
<1>8. CASE queue[z.queue] \in Attributes /\ queue' = [queue EXCEPT ![z.queue] = new]
  <2>1. CASE s = z
    <3>1. queue'[z.queue] = new
      BY <1>1, <1>5, <1>8
    <3> QED
      BY <1>2, <1>6, <1>8, <2>1, <3>1, Zenon DEF s, z
  <2>2. CASE s # z
    <3>1. queue'[s.queue] = queue[s.queue]
      BY <1>3, <1>4, <1>5, <1>8, <2>2
    <3> QED
      BY <2>2, <3>1 DEF s, z
  <2> QED
    BY <2>1, <2>2
<1> QED
  BY <1>1, <1>7, <1>8 DEF new

\* A set-up that will set a queue goes on to, unless it is about to read or to set it.
LEMMA StaysCoverer ==
  ASSUME Consistent, Sane, NEW p \in Processes, NEW w \in Threads, Advances(p, w), subscribers' = subscribers,
         NEW s, s.topics # {}, Unwanted(s, queue'[s.queue]) \subseteq Unwanted(s, queue[s.queue]),
         NEW x \in Processes, NEW v \in Threads, NEW j \in Functions(x), Coverer(s, x, v, j),
         x # p \/ v # w \/ thread[p][w].at # j \/ thread[p][w].pc \notin {"read", "set"}
  PROVE  Coverer(s, x, v, j)'
<1> DEFINE u == Unwanted(s, queue[s.queue])
           w2 == Unwanted(s, queue'[s.queue])
<1>1. PICK new \in Setup : Step(p, w, new) /\ Sound(p, new) /\ Advance(p, thread[p][w], new)
  BY DEF Advances
<1>2. /\ thread'[p][w] = new
      /\ \A y \in Processes, z \in Threads : y # p \/ z # w => thread'[y][z] = thread[y][z]
  BY <1>1, OneSetup DEF Sane, Typed
<1>3. subscribers[x][j] = s /\ WillSet(s, thread[x][v], j, u)
  BY DEF Coverer
<1>4. SUFFICES WillSet(s, thread'[x][v], j, w2)
  BY <1>3 DEF Coverer
<1>5. w2 \subseteq u
  OBVIOUS
<1> HIDE DEF u, w2
<1>6. CASE x # p \/ v # w
  <2>1. thread'[x][v] = thread[x][v]
    BY <1>2, <1>6
  <2> QED
    BY <1>3, <1>5, <2>1 DEF WillSet
<1>7. CASE x = p /\ v = w
  <2> DEFINE self == thread[p][w]
             places == Preparing \cup {"read"}
  <2>1. self \in Setup
    BY DEF Sane, Typed
  <2>2. self.at # j \/ self.pc \notin {"read", "set"}
    BY <1>7
  <2>3. Before(self, j, places)
    BY <1>3, <1>7, <2>2 DEF WillSet
  <2> HIDE DEF self
  <2>4. Before(new, j, places) \/ (self.pc \in places /\ self.at = j /\ new.at = j)
    BY <1>1, <1>7, <2>1, <2>3, StaysBefore DEF Sane, Typed, self
  <2>5. self.pc \in places /\ self.at = j => self.pc \in Preparing
    BY <2>2
  <2>6. self.pc \in Preparing /\ self.at = j => new.pc \in places
    <3>1. self.at = j => subscribers[p][self.at].topics # {}
      BY <1>3, <1>7
    <3> QED
      BY <1>1, <3>1 DEF Advance, Preparing, Subscribing, self
  <2>7. Before(new, j, places)
    BY <2>4, <2>5, <2>6 DEF Before, InSetup, Preparing
  <2> QED
    BY <1>2, <1>7, <2>7 DEF WillSet
<1> QED
  BY <1>6, <1>7

LEMMA SetupCovers ==
  ASSUME Consistent, Sane, NEW p \in Processes, NEW w \in Threads, SetupStep(p, w), Advances(p, w),
         ~FindsItGone(p, w), subscribers' = subscribers,
         NEW y \in Processes, NEW i \in Functions(y), NEW s, s = subscribers[y][i], QueueCovered(s)
  PROVE  QueueCovered(s)'
<1> SUFFICES ASSUME s.topics # {} PROVE QueueCovered(s)'
  BY DEF QueueCovered
<1> DEFINE self == thread[p][w]
<1>1. /\ s \in Subscriber /\ s.queue \in Queues /\ Attainable(s) /\ self \in Setup /\ Sound(p, self)
      /\ queue \in [Queues -> Attributes \cup {Missing}] /\ s.redrive # s.queue
  BY FunctionTypes, FunctionsAttainable DEF Sane, Typed, SetupsSound, Subscriber, ThisQueue
<1>2. ASSUME NEW j \in Functions(p), Coverer(s, p, w, j)' PROVE QueueCovered(s)'
  BY <1>2 DEF QueueCovered, Functions
<1>3. CASE CreateQueue(p, w) /\ queue'[s.queue] # queue[s.queue]
  <2>1. self.pc = "create" /\ self.pc \in InSetup
    BY <1>3 DEF CreateQueue, At, InSetup
  <2>2. /\ self.at \in Functions(p) /\ Target(p, w) \in Queues
        /\ Target(p, w) = IF self.dead THEN subscribers[p][self.at].redrive ELSE subscribers[p][self.at].queue
    BY <2>1, TargetOf DEF Sane
  <2>3. s.queue = Target(p, w)
    BY <1>1, <1>3, <2>2, Zenon DEF CreateQueue
  <2>4. subscribers[p][self.at] = s
    BY <2>2, <2>3, FunctionsAttainable DEF ThisQueue, Sane, Typed
  <2>5. thread'[p][w].pc = "arn" /\ thread'[p][w].at = self.at
    <3> DEFINE new == [self EXCEPT !.pc = "arn"]
    <3>1. new \in Setup /\ new.pc = "arn" /\ new.at = self.at /\ Step(p, w, new)
      BY <1>1, <1>3, StageNames DEF Setup, CreateQueue, Self
    <3> HIDE DEF new
    <3> QED
      BY <3>1, OneSetup DEF Sane, Typed
  <2>6. PICK j \in Functions(p) : j = self.at
    BY <2>2
  <2>7. Coverer(s, p, w, j)'
    BY <2>4, <2>5, <2>6 DEF Coverer, WillSet, Before, InSetup, Preparing
  <2> QED
    BY <1>2, <2>7
<1>4. CASE queue'[s.queue] = queue[s.queue] /\ ~SetAttributes(p, w)
  <2>1. CASE queue[s.queue] = Missing \/ Unwanted(s, queue[s.queue]) = {}
    BY <1>4, <2>1 DEF QueueCovered
  <2>2. CASE queue[s.queue] # Missing
    <3>1. ASSUME NEW x \in Processes, NEW v \in Threads, NEW j \in Functions(x), Coverer(s, x, v, j)
          PROVE  QueueCovered(s)'
      <4>1. CASE x # p \/ v # w \/ self.at # j \/ self.pc \notin {"read", "set"}
        <5>1. Coverer(s, x, v, j)'
          BY <1>4, <3>1, <4>1, StaysCoverer
        <5> QED
          BY <5>1 DEF QueueCovered, Functions
      <4>2. CASE x = p /\ v = w /\ self.at = j /\ self.pc \in {"read", "set"}
        <5>1. ReadAttributes(p, w)
          <6>1. ~(Subscribe(p, w) \/ GetQueueUrl(p, w) \/ CreateQueue(p, w) \/ GetQueueArn(p, w))
            BY <4>2 DEF Subscribe, GetQueueUrl, CreateQueue, GetQueueArn, At
          <6>2. ~(CreateTopic(p, w) \/ ListTopics(p, w) \/ ConsumeQueue(p, w) \/ Complete(p, w))
            BY <4>2 DEF CreateTopic, ListTopics, ConsumeQueue, Complete, At
          <6>3. ~((\E t \in Topics : SubscribeTopic(p, w, t)) \/ SetSubscriptionAttributes(p, w))
            BY <4>2, Zenon DEF SubscribeTopic, SetSubscriptionAttributes, At
          <6> QED
            BY <1>4, <6>1, <6>2, <6>3 DEF SetupStep
        <5>2. self.pc = "read" /\ ~self.dead /\ self.found = s.topics /\ self.at \in Functions(p)
          <6>1. self.pc = "read"
            BY <5>1 DEF ReadAttributes, At
          <6>2. subscribers[p][self.at] = s
            BY <3>1, <4>2 DEF Coverer
          <6> QED
            BY <1>1, <6>1, <6>2 DEF Sound, Informed, InSetup
        <5>3. Target(p, w) = s.queue
          BY <3>1, <4>2, <5>2 DEF Target, Current, Self, Coverer
        <5> DEFINE known == queue[s.queue]
                   new == [self EXCEPT !.pc = "set", !.known = known]
        <5>4. Step(p, w, new)
          BY <2>2, <5>1, <5>3 DEF ReadAttributes, Self
        <5>5. known \in Attributes
          BY <1>1, <2>2
        <5>6. Unwanted(s, known) \subseteq Differs(s, known, s.topics)
          BY <1>1, <5>5, ReadSuffices
        <5> HIDE DEF known
        <5>7. new \in Setup /\ new.pc = "set" /\ new.at = j /\ new.known = known /\ new.found = s.topics
          BY <1>1, <4>2, <5>2, <5>5, StageNames DEF Setup
        <5> HIDE DEF new
        <5>8. thread'[p][w] = new
          BY <5>4, <5>7, OneSetup DEF Sane, Typed
        <5>9. Coverer(s, p, w, j)'
          BY <1>4, <3>1, <4>2, <5>6, <5>7, <5>8 DEF Coverer, WillSet, known
        <5> QED
          BY <1>2, <4>2, <5>9
      <4> QED
        BY <4>1, <4>2
    <3> QED
      BY <2>1, <2>2, <3>1 DEF QueueCovered
  <2> QED
    BY <2>1, <2>2
<1>5. CASE SetAttributes(p, w)
  <2>1. /\ subscribers[p][self.at] = s
             => Unwanted(s, queue'[s.queue]) \subseteq Unwanted(s, queue[s.queue]) \ Differs(s, self.known, self.found)
        /\ subscribers[p][self.at] # s => queue'[s.queue] = queue[s.queue]
    BY <1>5, SetShrinks
  <2>2. queue[s.queue] = Missing => queue'[s.queue] = Missing
    <3> DEFINE z == subscribers[p][self.at]
    <3>1. /\ z.queue \in Queues
          /\ \/ UNCHANGED queue
             \/ /\ queue[z.queue] \in Attributes
                /\ queue' = [queue EXCEPT ![z.queue] = Update(@, z, self.known, self.found)]
      BY <1>5, QueueSet DEF Sane
    <3> HIDE DEF z
    <3> QED
      BY <1>1, <3>1, MarkersAssumption
  <2>3. Unwanted(s, queue'[s.queue]) \subseteq Unwanted(s, queue[s.queue])
    BY <2>1
  <2>4. CASE queue[s.queue] = Missing \/ Unwanted(s, queue[s.queue]) = {}
    BY <2>2, <2>3, <2>4 DEF QueueCovered
  <2>5. ASSUME NEW x \in Processes, NEW v \in Threads, NEW j \in Functions(x), Coverer(s, x, v, j)
        PROVE  QueueCovered(s)'
    <3>1. CASE x # p \/ v # w \/ self.at # j \/ self.pc \notin {"read", "set"}
      <4>1. Coverer(s, x, v, j)'
        BY <2>3, <2>5, <3>1, StaysCoverer
      <4> QED
        BY <4>1 DEF QueueCovered, Functions
    <3>2. CASE x = p /\ v = w /\ self.at = j
      <4>1. self.pc = "set" /\ subscribers[p][self.at] = s
        BY <1>5, <2>5, <3>2 DEF SetAttributes, At, Coverer
      <4>2. Unwanted(s, queue[s.queue]) \subseteq Differs(s, self.known, self.found)
        <5>1. ~Before(self, j, Preparing \cup {"read"})
          BY <3>2, <4>1, <1>1 DEF Before, Preparing, Setup
        <5> QED
          BY <2>5, <3>2, <5>1 DEF Coverer, WillSet
      <4>3. Unwanted(s, queue'[s.queue]) = {}
        BY <2>1, <4>1, <4>2
      <4> QED
        BY <4>3 DEF QueueCovered
    <3> QED
      BY <3>1, <3>2
  <2> QED
    BY <2>4, <2>5 DEF QueueCovered
<1>6. CASE queue'[s.queue] # queue[s.queue] /\ ~CreateQueue(p, w) /\ ~SetAttributes(p, w)
  <2>1. UNCHANGED queue
    <3>1. CASE Subscribe(p, w) \/ GetQueueUrl(p, w) \/ GetQueueArn(p, w) \/ CreateTopic(p, w)
      BY <3>1 DEF Subscribe, GetQueueUrl, GetQueueArn, CreateTopic, aws
    <3>2. CASE ListTopics(p, w) \/ ReadAttributes(p, w) \/ ConsumeQueue(p, w) \/ Complete(p, w)
      BY <3>2 DEF ListTopics, ReadAttributes, ConsumeQueue, Complete, aws
    <3>3. CASE (\E t \in Topics : SubscribeTopic(p, w, t)) \/ SetSubscriptionAttributes(p, w)
      BY <3>3, Zenon DEF SubscribeTopic, SetSubscriptionAttributes
    <3> QED
      BY <1>6, <3>1, <3>2, <3>3 DEF SetupStep
  <2> QED
    BY <1>6, <2>1
<1> QED
  BY <1>3, <1>4, <1>5, <1>6

-----------------------------------------------------------------------------
(* The subscriptions: what is not as a decorator wants it, the container of   *)
(* its process will subscribe to.                                             *)

AsFiltered(s, t) ==
  IF s.filter = Unset THEN subscription[t][s.queue] # Missing ELSE subscription[t][s.queue] = s.filter

WillSubscribe(self, i, t) ==
  \/ Before(self, i, Preparing \cup {"read", "set"})
  \/ self.pc \in Subscribing /\ self.at = i /\ t \in self.left

SubscriptionsCovered ==
  \A p \in Processes : \A i \in Functions(p) : \A t \in subscribers[p][i].topics :
    AsFiltered(subscribers[p][i], t) \/ WillSubscribe(thread[p][Container], i, t)

\* What a set-up that subscribes makes of the subscription, and knows of it.
LEMMA SubscribeEffect ==
  ASSUME Consistent, Sane, NEW p \in Processes, NEW w \in Threads, NEW u \in Topics, SubscribeTopic(p, w, u)
  PROVE  LET self == thread[p][w]
             z == subscribers[p][self.at]
         IN /\ self.pc = "topics" /\ self.at \in Functions(p) /\ u \in self.left /\ z.queue \in Queues
            /\ \A t \in Topics, q \in Queues : t # u \/ q # z.queue => subscription'[t][q] = subscription[t][q]
            /\ subscription'[u][z.queue] # Missing
            /\ z.filter # Unset /\ subscription[u][z.queue] \in {Missing, z.filter} => subscription'[u][z.queue] = z.filter
            /\ \/ thread'[p][w].left = self.left \ {u} /\ (z.filter # Unset => subscription'[u][z.queue] = z.filter)
               \/ thread'[p][w].left = self.left
<1> DEFINE self == thread[p][w]
           z == subscribers[p][self.at]
           old == subscription[u][z.queue]
<1>1. /\ self.pc = "topics" /\ u \in self.left /\ self.pc \in InSetup
  BY DEF SubscribeTopic, At, Self, InSetup
<1>2. /\ self \in Setup /\ self.at \in Functions(p) /\ z \in Subscriber /\ z.queue \in Queues
      /\ Target(p, w) = z.queue /\ Current(p, w) = z
  BY <1>1, TargetOf DEF Sane, Subscriber
<1>3. z.filter # Unset => self.update
  BY <1>1 DEF Sane, SetupsSound, Sound, Informed, Subscribing
<1>4. z.filter \in STRING \cup {Unset, Off} /\ z.filter # Missing /\ Off # Missing
  BY <1>2, MarkersAssumption DEF Subscriber
<1>5. subscription' = IF old # Missing THEN subscription
                      ELSE [subscription EXCEPT ![u][z.queue] = IF self.update THEN z.filter ELSE Off]
  BY <1>2, Zenon DEF SubscribeTopic, Self
<1>6. subscription \in [Topics -> [Queues -> STRING \cup {Missing, Unset, Off, "old"}]]
  BY DEF Sane, Typed
<1> DEFINE f == IF self.update THEN z.filter ELSE Off
<1>7. /\ \/ old # Missing /\ subscription' = subscription
         \/ old = Missing /\ subscription' = [subscription EXCEPT ![u][z.queue] = f]
      /\ f # Missing /\ (z.filter # Unset => f = z.filter)
  BY <1>3, <1>4, <1>5, Zenon
<1> DEFINE done == [self EXCEPT !.left = @ \ {u}]
           best == [self EXCEPT !.left = @ \ {u}, !.update = FALSE]
           next == [self EXCEPT !.pc = "attributes", !.arn = u]
<1>8. \/ ~self.update /\ Step(p, w, done)
      \/ old \in {Missing, z.filter} /\ Step(p, w, best)
      \/ Step(p, w, next)
  BY <1>2, Zenon DEF SubscribeTopic, Self
<1>9. /\ done \in Setup /\ best \in Setup /\ next \in Setup
      /\ done.left = self.left \ {u} /\ best.left = self.left \ {u} /\ next.left = self.left
  BY <1>2, StageNames DEF Setup
<1> HIDE DEF done, best, next, f, z
<1>10. /\ \A t \in Topics, q \in Queues : t # u \/ q # z.queue => subscription'[t][q] = subscription[t][q]
       /\ old = Missing => subscription'[u][z.queue] = f
       /\ old # Missing => subscription'[u][z.queue] = old
  BY <1>2, <1>6, <1>7
<1>11. \/ ~self.update /\ thread'[p][w].left = self.left \ {u}
       \/ old \in {Missing, z.filter} /\ thread'[p][w].left = self.left \ {u}
       \/ thread'[p][w].left = self.left
  <2>1. \A new \in Setup : Step(p, w, new) => thread'[p][w] = new
    BY OneSetup DEF Sane, Typed
  <2> QED
    BY <1>8, <1>9, <2>1
<1>12. /\ subscription'[u][z.queue] # Missing
       /\ z.filter # Unset /\ old \in {Missing, z.filter} => subscription'[u][z.queue] = z.filter
  BY <1>4, <1>7, <1>10
<1> QED
  BY <1>1, <1>2, <1>3, <1>10, <1>11, <1>12, Zenon DEF z

LEMMA SetFilterEffect ==
  ASSUME Sane, NEW p \in Processes, NEW w \in Threads, SetSubscriptionAttributes(p, w)
  PROVE  LET self == thread[p][w]
             z == subscribers[p][self.at]
         IN /\ self.pc = "attributes" /\ self.at \in Functions(p) /\ z.queue \in Queues
            /\ \A t \in Topics, q \in Queues : t # self.arn \/ q # z.queue => subscription'[t][q] = subscription[t][q]
            /\ subscription'[self.arn][z.queue] = z.filter /\ z.filter # Missing
            /\ thread'[p][w].left = self.left \ {self.arn}
<1> DEFINE self == thread[p][w]
           z == subscribers[p][self.at]
<1>1. /\ self.pc = "attributes" /\ self.pc \in InSetup /\ self.pc \in Subscribing
  BY DEF SetSubscriptionAttributes, At, InSetup, Subscribing
<1>2. /\ self \in Setup /\ self.at \in Functions(p) /\ z \in Subscriber /\ z.queue \in Queues
      /\ Target(p, w) = z.queue /\ Current(p, w) = z
  BY <1>1, TargetOf DEF Sane, Subscriber
<1>3. z.filter # Missing
  BY <1>2, MarkersAssumption DEF Subscriber
<1>4. self.arn \in Topics
  BY <1>1, <1>2 DEF Sane, SetupsSound, Sound, Setup
<1> DEFINE new == [self EXCEPT !.pc = "topics", !.left = @ \ {self.arn}, !.arn = Missing]
<1>5. subscription' = [subscription EXCEPT ![self.arn][z.queue] = z.filter] /\ Step(p, w, new)
  BY <1>2 DEF SetSubscriptionAttributes, Self
<1>6. new \in Setup /\ new.left = self.left \ {self.arn}
  BY <1>2, StageNames DEF Setup
<1> HIDE DEF new, z
<1>7. thread'[p][w] = new
  BY <1>5, <1>6, OneSetup DEF Sane, Typed
<1>8. /\ \A t \in Topics, q \in Queues : t # self.arn \/ q # z.queue => subscription'[t][q] = subscription[t][q]
      /\ subscription'[self.arn][z.queue] = z.filter
  BY <1>2, <1>4, <1>5 DEF Sane, Typed
<1> QED
  BY <1>1, <1>2, <1>3, <1>6, <1>7, <1>8, Zenon DEF z

\* No set-up makes a subscription other than its decorator wants it.
LEMMA FilterKept ==
  ASSUME Consistent, Sane, [Next]_vars, NEW y \in Processes, NEW i \in Functions(y),
         NEW s, s = subscribers[y][i], NEW t \in s.topics, AsFiltered(s, t)
  PROVE  AsFiltered(s, t)'
<1>1. s \in Subscriber /\ s.queue \in Queues /\ t \in Topics
  <2>1. s \in Subscriber
    BY FunctionTypes DEF Sane, Typed
  <2> QED
    BY <2>1 DEF Subscriber
<1>2. ASSUME NEW p \in Processes, NEW j \in Functions(p), subscribers[p][j].queue = s.queue
      PROVE  subscribers[p][j] = s
  BY <1>2, FunctionsAttainable DEF Sane, Typed, ThisQueue
<1>3. ASSUME NEW p \in Processes, NEW w \in Threads, NEW u \in Topics, SubscribeTopic(p, w, u)
      PROVE  AsFiltered(s, t)'
  <2> DEFINE z == subscribers[p][thread[p][w].at]
  <2>1. /\ z.queue \in Queues /\ subscription'[u][z.queue] # Missing
        /\ \A x \in Topics, q \in Queues : x # u \/ q # z.queue => subscription'[x][q] = subscription[x][q]
        /\ z.filter # Unset /\ subscription[u][z.queue] \in {Missing, z.filter}
             => subscription'[u][z.queue] = z.filter
    <3>1. /\ z.queue \in Queues /\ subscription'[u][z.queue] # Missing
          /\ z.filter # Unset /\ subscription[u][z.queue] \in {Missing, z.filter}
               => subscription'[u][z.queue] = z.filter
      BY <1>3, SubscribeEffect, ZenonT(60)
    <3>2. \A x \in Topics, q \in Queues : x # u \/ q # z.queue => subscription'[x][q] = subscription[x][q]
      BY <1>3, SubscribeEffect, ZenonT(60)
    <3> QED
      BY <3>1, <3>2
  <2>2. z.queue = s.queue => z = s
    BY <1>2, <1>3, SubscribeEffect, Zenon
  <2> HIDE DEF z
  <2>3. CASE t = u /\ s.queue = z.queue
    <3>1. /\ subscription'[t][s.queue] # Missing
          /\ s.filter # Unset /\ subscription[t][s.queue] = s.filter => subscription'[t][s.queue] = s.filter
      BY <2>1, <2>2, <2>3
    <3> QED
      BY <3>1 DEF AsFiltered
  <2>4. CASE ~(t = u /\ s.queue = z.queue)
    <3>1. subscription'[t][s.queue] = subscription[t][s.queue]
      BY <1>1, <2>1, <2>4
    <3> QED
      BY <3>1 DEF AsFiltered
  <2> QED
    BY <2>3, <2>4
<1>4. ASSUME NEW p \in Processes, NEW w \in Threads, SetSubscriptionAttributes(p, w)
      PROVE  AsFiltered(s, t)'
  <2> DEFINE self == thread[p][w]
             z == subscribers[p][self.at]
  <2>1. /\ z.queue \in Queues /\ z.filter # Missing
        /\ \A x \in Topics, q \in Queues : x # self.arn \/ q # z.queue => subscription'[x][q] = subscription[x][q]
        /\ subscription'[self.arn][z.queue] = z.filter
    BY <1>4, SetFilterEffect, Zenon
  <2>2. z.queue = s.queue => z = s
    BY <1>2, <1>4, SetFilterEffect, Zenon
  <2> HIDE DEF z
  <2> QED
    BY <1>1, <2>1, <2>2 DEF AsFiltered
<1>5. CASE UNCHANGED subscription
  BY <1>5 DEF AsFiltered
<1> QED
  BY <1>3, <1>4, <1>5, WhatChanges

LEMMA SetupSubscribes ==
  ASSUME Consistent, Sane, NEW p \in Processes, SetupStep(p, Container), Advances(p, Container), ~FindsItGone(p, Container),
         NEW i \in Functions(p), NEW s, s = subscribers[p][i], NEW t \in s.topics,
         WillSubscribe(thread[p][Container], i, t)
  PROVE  AsFiltered(s, t)' \/ WillSubscribe(thread'[p][Container], i, t)
<1> DEFINE self == thread[p][Container]
           places == Preparing \cup {"read", "set"}
<1>1. /\ Container \in Threads /\ self \in Setup
  BY ContainerIsNoLoop DEF Sane, Typed
<1>2. PICK new \in Setup : Step(p, Container, new) /\ Sound(p, new) /\ Advance(p, self, new)
  BY DEF Advances
<1>3. thread'[p][Container] = new
  BY <1>1, <1>2, OneSetup DEF Sane, Typed
<1>4. CASE Before(self, i, places)
  <2>1. Before(new, i, places) \/ (self.pc \in places /\ self.at = i /\ new.at = i)
    <3> HIDE DEF self
    <3> QED
      BY <1>1, <1>2, <1>4, StaysBefore DEF Sane, Typed
  <2>2. CASE self.pc \in places /\ self.at = i /\ new.at = i
    <3>1. new.pc \in places \/ (new.pc = "topics" /\ new.left = s.topics)
      <4>1. subscribers[p][self.at].topics # {}
        BY <2>2
      <4> QED
        BY <1>2, <2>2, <4>1 DEF Advance, Preparing, Subscribing
    <3> QED
      BY <1>3, <2>2, <3>1 DEF WillSubscribe, Before, InSetup, Preparing, Subscribing
  <2> QED
    BY <1>3, <2>1, <2>2 DEF WillSubscribe
<1>5. CASE self.pc \in Subscribing /\ self.at = i /\ t \in self.left
  <2>1. (\E u \in Topics : SubscribeTopic(p, Container, u)) \/ SetSubscriptionAttributes(p, Container)
    <3>1. ~(Subscribe(p, Container) \/ GetQueueUrl(p, Container) \/ CreateQueue(p, Container) \/ GetQueueArn(p, Container))
      BY <1>5 DEF Subscribe, GetQueueUrl, CreateQueue, GetQueueArn, At, Subscribing
    <3>2. ~(CreateTopic(p, Container) \/ ListTopics(p, Container) \/ ReadAttributes(p, Container)
            \/ SetAttributes(p, Container))
      BY <1>5 DEF CreateTopic, ListTopics, ReadAttributes, SetAttributes, At, Subscribing
    <3>3. ~(ConsumeQueue(p, Container) \/ Complete(p, Container))
      BY <1>5 DEF ConsumeQueue, Complete, At, Self, Subscribing
    <3> QED
      BY <3>1, <3>2, <3>3 DEF SetupStep
  <2>2. new.pc \in Subscribing /\ new.at = i
    <3>1. self.left # {} /\ self.pc \notin {"subscribe", "consume", "end", "read", "set"} /\ self.pc \notin Preparing
      BY <1>5 DEF Subscribing, Preparing
    <3> QED
      BY <1>2, <1>5, <3>1 DEF Advance
  <2>3. t \in new.left \/ AsFiltered(s, t)'
    <3>1. ASSUME NEW u \in Topics, SubscribeTopic(p, Container, u) PROVE t \in new.left \/ AsFiltered(s, t)'
      <4> DEFINE z == subscribers[p][self.at]
      <4>1. z = s
        BY <1>5
      <4>a. /\ subscription'[u][z.queue] # Missing
            /\ \/ thread'[p][Container].left = self.left \ {u} /\ (z.filter # Unset => subscription'[u][z.queue] = z.filter)
               \/ thread'[p][Container].left = self.left
        BY <1>1, <3>1, SubscribeEffect, Zenon
      <4> HIDE DEF z
      <4>2. /\ subscription'[u][s.queue] # Missing
            /\ \/ thread'[p][Container].left = self.left \ {u} /\ (s.filter # Unset => subscription'[u][s.queue] = s.filter)
               \/ thread'[p][Container].left = self.left
        BY <4>1, <4>a
      <4> HIDE DEF self
      <4> QED
        BY <1>3, <1>5, <4>2 DEF AsFiltered
    <3>2. ASSUME SetSubscriptionAttributes(p, Container) PROVE t \in new.left \/ AsFiltered(s, t)'
      <4> DEFINE z == subscribers[p][self.at]
      <4>1. z = s
        BY <1>5
      <4>2. /\ subscription'[self.arn][z.queue] = z.filter /\ z.filter # Missing
            /\ thread'[p][Container].left = self.left \ {self.arn}
        BY <1>1, <3>2, SetFilterEffect, Zenon
      <4> HIDE DEF z
      <4>3. /\ subscription'[self.arn][s.queue] = s.filter /\ s.filter # Missing
            /\ thread'[p][Container].left = self.left \ {self.arn}
        BY <4>1, <4>2
      <4>4. t = self.arn \/ t \in new.left
        BY <1>3, <1>5, <4>3
      <4>5. t = self.arn => subscription'[t][s.queue] = s.filter /\ s.filter # Missing
        BY <4>3
      <4> HIDE DEF self
      <4>6. t = self.arn => AsFiltered(s, t)'
        BY <4>5, MarkersAssumption DEF AsFiltered
      <4> QED
        BY <4>4, <4>6
    <3> QED
      BY <2>1, <3>1, <3>2
  <2> QED
    BY <1>3, <2>2, <2>3 DEF WillSubscribe
<1> QED
  BY <1>4, <1>5 DEF WillSubscribe

-----------------------------------------------------------------------------
(* All queues and subscriptions stay covered while no set-up is given up and  *)
(* no service stops.                                                          *)

Undisturbed == ~abandoned /\ \A p \in Processes : service[p] \in {"absent", "starting", "started"}

Covered == Undisturbed => QueuesCovered /\ SubscriptionsCovered

LEMMA StillUndisturbed ==
  ASSUME Sane, [Next]_vars, Undisturbed'
  PROVE  /\ Undisturbed
         /\ \/ \E p \in Processes, w \in Threads : SetupStep(p, w) /\ ~FindsItGone(p, w)
            \/ \E p \in Processes, i \in Loops : LoopStep(p, i)
            \/ \E gone \in SUBSET Queues : Delete(gone)
            \/ UNCHANGED vars
<1> DEFINE Quiet == UNCHANGED <<service, abandoned>>
<1>1. ASSUME NEW p \in Processes, NEW w \in Threads, SetupStep(p, w)
      PROVE  Undisturbed /\ ~FindsItGone(p, w)
  <2>1. ~FindsItGone(p, w)
    BY DEF FindsItGone, GiveUp, Undisturbed
  <2>2. CASE Quiet
    BY <2>1, <2>2 DEF Undisturbed
  <2>3. CASE Complete(p, w)
    <3>1. /\ UNCHANGED abandoned
          /\ service' = service \/ (w = Container /\ service' = [service EXCEPT ![p] = "started"])
          /\ w = Container => service[p] = "starting"
      BY <2>3 DEF Complete, bounds, At, Sane, Owned
    <3>2. \A x \in Processes : service'[x] = service[x] \/ service[x] = "starting"
      BY <3>1 DEF Sane, Typed
    <3> QED
      BY <2>1, <3>1, <3>2 DEF Undisturbed
  <2>4. CASE Subscribe(p, w) \/ GetQueueUrl(p, w) \/ CreateQueue(p, w) \/ GetQueueArn(p, w) \/ CreateTopic(p, w)
    BY <2>2, <2>4 DEF Subscribe, GetQueueUrl, CreateQueue, GetQueueArn, CreateTopic, bounds
  <2>5. CASE ListTopics(p, w) \/ ReadAttributes(p, w) \/ SetAttributes(p, w) \/ ConsumeQueue(p, w)
    BY <2>2, <2>5 DEF ListTopics, ReadAttributes, SetAttributes, ConsumeQueue, bounds
  <2>6. CASE (\E t \in Topics : SubscribeTopic(p, w, t)) \/ SetSubscriptionAttributes(p, w)
    BY <2>2, <2>6, Zenon DEF SubscribeTopic, SetSubscriptionAttributes, bounds
  <2> QED
    BY <1>1, <2>1, <2>3, <2>4, <2>5, <2>6 DEF SetupStep
<1>2. ASSUME NEW p \in Processes, NEW w \in Threads, Fails(p, w) \/ ReadFails(p, w)
      PROVE  FALSE
  BY <1>2 DEF Fails, ReadFails, GiveUp, Undisturbed
<1>3. ASSUME NEW p \in Processes, NEW i \in Loops, LoopStep(p, i)
      PROVE  Undisturbed
  <2>1. Quiet
    BY <1>3 DEF LoopStep, Begin, NextIteration, Notice, SubscribeAgain, Wake, bounds
  <2> QED
    BY <2>1 DEF Undisturbed
<1>4. ASSUME NEW p \in Processes, Stop(p) PROVE FALSE
  <2>1. service'[p] = "stopping"
    BY <1>4 DEF Stop, Sane, Typed
  <2> QED
    BY <2>1 DEF Undisturbed
<1>5. ASSUME NEW gone \in SUBSET Queues, Delete(gone) PROVE Undisturbed
  BY <1>5 DEF Delete, Undisturbed
<1>6. CASE UNCHANGED vars
  BY <1>6 DEF vars, bounds, Undisturbed
<1> QED
  BY <1>1, <1>2, <1>3, <1>4, <1>5, <1>6 DEF Next

\* Nothing is uncovered where queues vanish and set-ups begin.
LEMMA CoverageKept ==
  ASSUME Sane, QueuesCovered, SubscriptionsCovered,
         subscribers' = subscribers, subscription' = subscription,
         \A q \in Queues : queue'[q] = queue[q] \/ queue'[q] = Missing,
         \A p \in Processes, w \in Threads :
           thread'[p][w] = thread[p][w] \/ (w # Container /\ thread'[p][w].pc = "subscribe")
  PROVE  QueuesCovered' /\ SubscriptionsCovered'
<1>1. ASSUME NEW p \in Processes, NEW i \in Functions(p), NEW s, s = subscribers[p][i]
      PROVE  QueueCovered(s)'
  <2>1. QueueCovered(s) /\ s.queue \in Queues
    BY <1>1, FunctionTypes DEF QueuesCovered, Sane, Typed, Subscriber
  <2>2. CASE queue'[s.queue] = Missing
    BY <2>2 DEF QueueCovered
  <2>3. CASE queue'[s.queue] = queue[s.queue]
    <3>1. ASSUME NEW x \in Processes, NEW v \in Threads, NEW j \in Functions(x), Coverer(s, x, v, j)
          PROVE  Coverer(s, x, v, j)'
      <4>1. thread'[x][v] = thread[x][v] \/ thread'[x][v].pc = "subscribe"
        OBVIOUS
      <4> QED
        BY <2>3, <3>1, <4>1 DEF Coverer, WillSet, Before
    <3> QED
      BY <2>1, <2>3, <3>1 DEF QueueCovered, Functions
  <2> QED
    BY <2>1, <2>2, <2>3
<1>2. QueuesCovered'
  BY <1>1 DEF QueuesCovered, Functions
<1>3. SubscriptionsCovered'
  BY ContainerIsNoLoop DEF SubscriptionsCovered, Functions, AsFiltered
<1> QED
  BY <1>2, <1>3

LEMMA CoveredStep ==
  ASSUME Consistent, Sane, Covered, [Next]_vars
  PROVE  Covered'
<1> SUFFICES ASSUME Undisturbed' PROVE QueuesCovered' /\ SubscriptionsCovered'
  BY DEF Covered
<1>1. Undisturbed /\ QueuesCovered /\ SubscriptionsCovered /\ subscribers' = subscribers
  BY StillUndisturbed, WhatChanges DEF Covered
<1>2. ASSUME NEW p \in Processes, NEW w \in Threads, SetupStep(p, w), ~FindsItGone(p, w)
      PROVE  QueuesCovered' /\ SubscriptionsCovered'
  <2>1. Advances(p, w)
    BY <1>2, SetupAdvances DEF Sane
  <2>2. ASSUME NEW y \in Processes, NEW i \in Functions(y), NEW s, s = subscribers[y][i]
        PROVE  QueueCovered(s)'
    BY <1>1, <1>2, <2>1, <2>2, SetupCovers DEF QueuesCovered
  <2>3. QueuesCovered'
    BY <1>1, <2>2 DEF QueuesCovered, Functions
  <2>4. ASSUME NEW y \in Processes, NEW i \in Functions(y), NEW s, s = subscribers[y][i], NEW t \in s.topics
        PROVE  AsFiltered(s, t)' \/ WillSubscribe(thread'[y][Container], i, t)
    <3>1. AsFiltered(s, t) \/ WillSubscribe(thread[y][Container], i, t)
      BY <1>1, <2>4 DEF SubscriptionsCovered
    <3>2. CASE AsFiltered(s, t)
      BY <2>4, <3>2, FilterKept
    <3>3. CASE WillSubscribe(thread[y][Container], i, t) /\ y = p /\ w = Container
      BY <1>2, <2>1, <2>4, <3>3, SetupSubscribes
    <3>4. CASE WillSubscribe(thread[y][Container], i, t) /\ (y # p \/ w # Container)
      <4>1. thread'[y][Container] = thread[y][Container]
        BY <2>1, <3>4, OneSetup, ContainerIsNoLoop DEF Advances, Sane, Typed
      <4> QED
        BY <3>4, <4>1
    <3> QED
      BY <3>1, <3>2, <3>3, <3>4
  <2>5. SubscriptionsCovered'
    BY <1>1, <2>4 DEF SubscriptionsCovered, Functions
  <2> QED
    BY <2>3, <2>5
<1>3. ASSUME NEW p \in Processes, NEW i \in Loops, LoopStep(p, i)
      PROVE  QueuesCovered' /\ SubscriptionsCovered'
  <2>1. UNCHANGED <<queue, subscription>>
    BY <1>3 DEF LoopStep, Begin, NextIteration, Notice, SubscribeAgain, Wake, aws
  <2>2. ~closed[p]
    BY <1>1 DEF Sane, Owned, Undisturbed
  <2> DEFINE new == [Idle EXCEPT !.pc = "subscribe"]
  <2>3. UNCHANGED thread \/ Step(p, i, new)
    BY <1>3, <2>2 DEF LoopStep, Begin, NextIteration, Notice, SubscribeAgain, Wake
  <2>4. new \in Setup /\ new.pc = "subscribe" /\ i \in Threads /\ i # Container
    BY IdleIsSound, StageNames, ContainerIsNoLoop DEF Setup, Sane, Typed
  <2> HIDE DEF new
  <2>5. \A x \in Processes, v \in Threads :
          thread'[x][v] = thread[x][v] \/ (v # Container /\ thread'[x][v].pc = "subscribe")
    BY <2>3, <2>4, OneSetup DEF Sane, Typed
  <2> QED
    BY <1>1, <2>1, <2>5, CoverageKept
<1>4. ASSUME NEW gone \in SUBSET Queues, Delete(gone)
      PROVE  QueuesCovered' /\ SubscriptionsCovered'
  <2>1. /\ UNCHANGED <<subscription, thread>>
        /\ \A q \in Queues : queue'[q] = queue[q] \/ queue'[q] = Missing
    BY <1>4 DEF Delete
  <2> QED
    BY <1>1, <2>1, CoverageKept
<1>5. CASE UNCHANGED vars
  BY <1>1, <1>5, CoverageKept DEF vars, aws
<1> QED
  BY <1>2, <1>3, <1>4, <1>5, StillUndisturbed

LEMMA InitSane ==
  ASSUME Init
  PROVE  Sane /\ Covered
<1>1. Typed
  <2>1. subscribers \in Deployments /\ queue \in [Queues -> Attributes \cup {Missing}]
    BY SubscriptionAssumption DEF Init
  <2>2. subscription \in [Topics -> [Queues -> STRING \cup {Missing, Unset, Off, "old"}]]
    <3> DEFINE some == STRING \cup {Missing, Unset, Off, "old"}
               old == {Missing, "old"}
    <3>1. subscription \in [Topics -> [Queues -> old]]
      BY Zenon DEF Init
    <3>2. old \subseteq some
      OBVIOUS
    <3> HIDE DEF old, some
    <3>3. subscription \in [Topics -> [Queues -> some]]
      BY <3>1, <3>2
    <3> QED
      BY <3>3 DEF some
  <2>3. thread \in [Processes -> [Threads -> Setup]]
    <3> DEFINE new == [Idle EXCEPT !.pc = "subscribe"]
    <3>1. new \in Setup /\ Idle \in Setup
      BY StageNames DEF Setup, Idle
    <3>2. thread = [p \in Processes |-> [w \in Threads |->
                      IF w = Container /\ Functions(p) # {} THEN new ELSE Idle]]
      BY DEF Init
    <3> HIDE DEF new
    <3> QED
      BY <3>1, <3>2
  <2>4. /\ subscribed \in [Processes -> BOOLEAN] /\ closed \in [Processes -> BOOLEAN]
        /\ loop \in [Processes -> [Loops -> Working \cup {"none", "await", "stopped"}]]
        /\ held \in [Processes -> [Loops -> {"none", "current", "old", "told"}]]
        /\ service \in [Processes -> {"absent", "starting", "started", "failed", "stopping"}]
    BY DEF Init
  <2> QED
    BY <2>1, <2>2, <2>3, <2>4 DEF Typed
<1>2. \A p \in Processes, w \in Threads :
        thread[p][w] = IF w = Container /\ Functions(p) # {} THEN [Idle EXCEPT !.pc = "subscribe"] ELSE Idle
  BY DEF Init
<1>3. SetupsSound
  <2>1. ASSUME NEW p \in Processes PROVE Sound(p, Idle) /\ Sound(p, [Idle EXCEPT !.pc = "subscribe"])
    BY IdleIsSound, <1>1 DEF Sound, Informed, Typed, Idle, InSetup, Preparing, Subscribing
  <2> QED
    BY <1>2, <2>1 DEF SetupsSound
<1>4. Owned
  BY <1>2, ContainerIsNoLoop DEF Init, Owned, Idle
<1>5. \A p \in Processes : Functions(p) # {} => thread[p][Container].pc = "subscribe"
  BY <1>2, ContainerIsNoLoop DEF Idle
<1>6. Covered
  BY <1>5, ContainerIsNoLoop DEF Covered, QueuesCovered, QueueCovered, Coverer, WillSet, Before,
       SubscriptionsCovered, WillSubscribe
<1> QED
  BY <1>1, <1>3, <1>4, <1>6 DEF Sane

\* The functions are set up where nothing is at work: what is unwanted was set.
LEMMA CoveredConfigures ==
  ASSUME Covered
  PROVE  Configured
<1> SUFFICES ASSUME Undisturbed, ~AtWork, NEW p \in Processes, NEW i \in Functions(p),
                    queue[ThisQueue(p, i)] # Missing, subscribers[p][i].topics # {}
             PROVE  AsWanted(subscribers[p][i])
  BY DEF Configured, Undisturbed
<1> DEFINE s == subscribers[p][i]
<1>1. QueueCovered(s) /\ \A t \in s.topics : AsFiltered(s, t) \/ WillSubscribe(thread[p][Container], i, t)
  BY DEF Covered, QueuesCovered, SubscriptionsCovered
<1>2. \A x \in Processes, w \in Threads : thread[x][w].pc = "idle"
  BY DEF AtWork
<1>3. \A j, places : \A x \in Processes, w \in Threads : ~Before(thread[x][w], j, places)
  BY <1>2 DEF Before, InSetup
<1>4. \A j, u : \A x \in Processes, w \in Threads : ~WillSet(s, thread[x][w], j, u)
  BY <1>2, <1>3 DEF WillSet
<1>5. \A t \in s.topics : AsFiltered(s, t)
  BY <1>1, <1>2, <1>3, ContainerIsNoLoop DEF WillSubscribe, Subscribing
<1>6. Unwanted(s, queue[s.queue]) = {}
  BY <1>1, <1>4 DEF QueueCovered, Coverer, ThisQueue
<1> HIDE DEF s
<1>7. AsWanted(s)
  <2> DEFINE known == queue[s.queue]
  <2>1. /\ "policy" \notin Unwanted(s, known) /\ "visibility" \notin Unwanted(s, known)
        /\ "redrive" \notin Unwanted(s, known) /\ "kms" \notin Unwanted(s, known)
    BY <1>6
  <2> HIDE DEF known
  <2>2. /\ known.policy = s.topics
        /\ s.visibility = Unset \/ known.visibility \in {s.visibility, "0"}
        /\ s.redrive = Unset \/ known.redrive = s.redrive
        /\ s.kms = Unset \/ known.kms = s.kms
    BY <2>1 DEF Unwanted
  <2> QED
    BY <1>5, <2>2 DEF AsWanted, AsFiltered, known
<1> QED
  BY <1>7 DEF s

LEMMA Invariance == Spec => []Sane
<1>1. Init => Sane
  BY InitSane
<1>2. Sane /\ [Next]_vars => Sane'
  BY SaneStep
<1> QED
  BY <1>1, <1>2, PTL DEF Spec

\* The variables of the set-up keep their types, in any deployment; a loop whose set-up
\* is under way waits for it.
THEOREM TypeCorrect == Spec => []TypeOK
<1>1. ASSUME Sane PROVE TypeOK
  <2>1. \A q \in Queues : queue[q] = Missing \/ queue[q] \in Attributes
    BY <1>1 DEF Sane, Typed
  <2>2. \A p \in Processes, w \in Threads :
          /\ thread[p][w].at \in 0..(Len(subscribers[p]) + 1)
          /\ thread[p][w].left \subseteq thread[p][w].found
          /\ w \in Loops /\ thread[p][w].pc # "idle" => loop[p][w] = "subscribing"
    BY <1>1 DEF Sane, SetupsSound, Sound, Owned
  <2> QED
    BY <1>1, <2>1, <2>2 DEF TypeOK, Sane, Typed
<1> QED
  BY <1>1, Invariance, PTL

(* When nothing is being set up, every queue that exists and every subscription
   is as the decorators say: _subscribe of the process that came last, or of the
   one that was faster, leaves nothing to set.  For any processes and functions
   of which that can hold at all (Consistent), any state of AWS before, and any
   queues that are deleted.                                                  *)
THEOREM SetUpAsDeclared == Consistent => (Spec => []Configured)
<1> SUFFICES ASSUME Consistent PROVE Spec => []Configured
  OBVIOUS
<1>1. Init => Covered
  BY InitSane
<1>2. Sane /\ Covered /\ [Next]_vars => Covered'
  BY CoveredStep
<1>3. Covered => Configured
  BY CoveredConfigures
<1> QED
  BY <1>1, <1>2, <1>3, Invariance, PTL DEF Spec
(* The inductive invariant.  NoLostWakeup needs to know that a taken lock has  *)
(* a holder, who notifies later, and that a coroutine whose topic came into    *)
(* the dict while it waited is about to be notified with all the others: the   *)
(* one that a failure wakes may be such a coroutine, which does not notify.    *)

\* Who holds a lock asks AWS, and nobody else does; who blocks holding the
\* condition's lock queues up for a lock.
LocksHeld ==
    \A p \in Callers : /\ \A n \in Locks : lock[n] = p <=> pc[p] = "creating" /\ mine[p] = n
                       /\ cond = p <=> pc[p] = "locking"

\* While a coroutine waits for a topic that is in the dict, another one is going
\* to notify all.
FoundIsNotified ==
    \A p \in Callers : pc[p] = "waiting" /\ topic[p] \in cached =>
        \E q \in Callers : pc[q] \in {"notify", "notifyAll"}

CacheInv == CacheTypeOK /\ LocksHeld /\ FoundIsNotified /\ NoLostWakeup

\* The initial states satisfy the invariant.
LEMMA CacheInitInv == CacheInit => CacheInv
BY NobodyIsNoCaller, ClosesAssumption
   DEF CacheInit, Locks, CacheInv, CacheTypeOK, Places, LocksHeld, FoundIsNotified, NoLostWakeup,
       Waiting

\* The steps of a call keep the types.
LEMMA CallStepTypes ==
  ASSUME CacheTypeOK, NEW p \in Callers, CallStep(p) \/ \E t \in Names : Call(p, t)
  PROVE  CacheTypeOK'
<1> USE ClosesAssumption DEF Goto
<1>1. /\ pc \in [Callers -> Places] /\ topic \in [Callers -> Names] /\ cached \subseteq Names
      /\ lock \in [Locks -> Callers \cup {Nobody}] /\ mine \in [Callers -> Locks]
      /\ closes \in Locks /\ cond \in Callers \cup {Nobody} /\ 0 \in Locks
  BY DEF CacheTypeOK, Locks
<1>2. {"idle", "enter", "waiting", "woken", "locking", "creating", "notify", "notifyAll", "abandon"} \subseteq Places
  BY DEF Places
<1>3. pc' \in [Callers -> Places]
  <2>1. CASE \E t \in Names : Call(p, t)
    BY <1>1, <1>2, <2>1 DEF Call
  <2>2. CASE Enter(p) \/ Resume(p) \/ Acquire(p)
    BY <1>1, <1>2, <2>2 DEF Enter, Resume, Acquire, Found
  <2>3. CASE Answered(p, {topic[p]}) \/ Answered(p, {}) \/ Raises(p)
    BY <1>1, <1>2, <2>3 DEF Answered, Raises
  <2>4. CASE NotifyOne(p) \/ NotifyAll(p)
    BY <1>1, <1>2, <2>4 DEF NotifyOne, NotifyAll
  <2> QED
    BY <2>1, <2>2, <2>3, <2>4 DEF CallStep
<1>4. /\ topic' \in [Callers -> Names] /\ cached' \subseteq Names
      /\ closes' \in Locks /\ cond' \in Callers \cup {Nobody}
  <2>1. CASE \E t \in Names : Call(p, t)
    BY <1>1, <2>1 DEF Call
  <2>2. CASE Enter(p) \/ Resume(p) \/ Acquire(p)
    BY <1>1, <2>2 DEF Enter, Resume, Acquire, Found
  <2>3. CASE Answered(p, {topic[p]}) \/ Answered(p, {}) \/ Raises(p)
    BY <1>1, <2>3 DEF Answered, Raises
  <2>4. CASE NotifyOne(p) \/ NotifyAll(p)
    BY <1>1, <2>4 DEF NotifyOne, NotifyAll
  <2> QED
    BY <2>1, <2>2, <2>3, <2>4 DEF CallStep
<1>5. lock' \in [Locks -> Callers \cup {Nobody}] /\ mine' \in [Callers -> Locks]
  <2>1. CASE \E t \in Names : Call(p, t)
    BY <1>1, <2>1 DEF Call
  <2>2. CASE Enter(p) \/ Resume(p) \/ Acquire(p)
    BY <1>1, <2>2 DEF Enter, Resume, Acquire, Found, Take
  <2>3. CASE Answered(p, {topic[p]}) \/ Answered(p, {}) \/ Raises(p)
    BY <1>1, <2>3 DEF Answered, Raises, Release
  <2>4. CASE NotifyOne(p) \/ NotifyAll(p)
    BY <1>1, <2>4 DEF NotifyOne, NotifyAll
  <2> QED
    BY <2>1, <2>2, <2>3, <2>4 DEF CallStep
<1> QED
  BY <1>3, <1>4, <1>5 DEF CacheTypeOK

\* A coroutine that queued up for its lock, and takes it when it is free, holds
\* that lock and no other, and no longer the lock of the condition.
LEMMA LockTaken ==
  ASSUME CacheTypeOK, LocksHeld, NEW p \in Callers, pc[p] = "locking", lock[mine[p]] = Nobody,
         pc' = [pc EXCEPT ![p] = "creating"], lock' = [lock EXCEPT ![mine[p]] = p],
         mine' = mine, cond' = Nobody
  PROVE  LocksHeld'
<1>1. mine[p] \in Locks /\ cond = p /\ Nobody \notin Callers
  BY NobodyIsNoCaller DEF CacheTypeOK, LocksHeld
<1> SUFFICES ASSUME NEW q \in Callers
             PROVE  /\ \A n \in Locks : lock'[n] = q <=> pc'[q] = "creating" /\ mine'[q] = n
                    /\ cond' = q <=> pc'[q] = "locking"
  BY DEF LocksHeld
<1>2. CASE q = p
  <2>1. pc'[q] = "creating" /\ mine'[q] = mine[p]
    BY <1>2 DEF CacheTypeOK
  <2>2. ASSUME NEW n \in Locks PROVE lock'[n] = q <=> mine'[q] = n
    BY <1>1, <1>2, <2>1, <2>2 DEF CacheTypeOK, LocksHeld
  <2> QED
    BY <1>1, <1>2, <2>1, <2>2
<1>3. CASE q # p
  <2>1. pc'[q] = pc[q] /\ mine'[q] = mine[q] /\ pc[q] # "locking"
    BY <1>1, <1>3 DEF CacheTypeOK, LocksHeld
  <2>2. ASSUME NEW n \in Locks PROVE lock'[n] = q <=> pc[q] = "creating" /\ mine[q] = n
    <3>1. CASE n = mine[p]
      BY <1>1, <1>3, <3>1 DEF CacheTypeOK, LocksHeld
    <3>2. CASE n # mine[p]
      BY <3>2 DEF CacheTypeOK, LocksHeld
    <3> QED
      BY <3>1, <3>2
  <2> QED
    BY <1>1, <2>1, <2>2
<1> QED
  BY <1>2, <1>3

\* A coroutine that has the ARN, or goes to ask for it, leaves those who wait as
\* they were, and those who are to notify them.
LEMMA FoundStays ==
  ASSUME CacheTypeOK, FoundIsNotified, NEW p \in Callers, pc[p] \notin {"notify", "notifyAll"},
         NEW place, place # "waiting", pc' = [pc EXCEPT ![p] = place],
         topic' = topic, cached' = cached
  PROVE  FoundIsNotified'
<1> SUFFICES ASSUME NEW r \in Callers, pc'[r] = "waiting", topic'[r] \in cached'
             PROVE  \E q \in Callers : pc'[q] \in {"notify", "notifyAll"}
  BY DEF FoundIsNotified
<1>1. pc[r] = "waiting" /\ topic[r] \in cached
  BY DEF CacheTypeOK
<1>2. PICK q \in Callers : pc[q] \in {"notify", "notifyAll"}
  BY <1>1 DEF FoundIsNotified
<1>3. pc'[q] = pc[q]
  BY <1>2 DEF CacheTypeOK
<1> QED
  BY <1>2, <1>3

\* Nobody waits in vain for a coroutine that goes to ask AWS.
LEMMA CreatorNotifies ==
  ASSUME CacheTypeOK, NEW p \in Callers, pc' = [pc EXCEPT ![p] = "creating"]
  PROVE  NoLostWakeup'
<1>1. pc'[p] = "creating"
  BY DEF CacheTypeOK
<1> QED
  BY <1>1 DEF NoLostWakeup, WillNotify

\* The steps of a call keep the invariant.
LEMMA CallStepInv ==
  ASSUME CacheInv, NEW p \in Callers, CallStep(p) \/ \E t \in Names : Call(p, t)
  PROVE  CacheInv'
<1>0. CacheTypeOK'
  BY CallStepTypes DEF CacheInv
<1> USE NobodyIsNoCaller, ClosesAssumption
    DEF CacheInv, Locks, Free, Take, Release, Found, CacheTypeOK, Places, LocksHeld,
        FoundIsNotified, NoLostWakeup, Waiting, WillNotify, Goto
<1>1. ASSUME NEW t \in Names, Call(p, t) PROVE CacheInv'
  <2>1. CacheTypeOK'
    BY <1>0
  <2>2. LocksHeld'
    BY <1>1 DEF Call
  <2>3. FoundIsNotified'
    BY <1>1 DEF Call
  <2>4. NoLostWakeup'
    BY <1>1 DEF Call
  <2> QED
    BY <2>1, <2>2, <2>3, <2>4
<1>2. CASE Enter(p)
  <2>1. CASE topic[p] \in cached
    <3>1. CacheTypeOK'
      BY <1>0
    <3>2. LocksHeld'
      BY <1>2, <2>1 DEF Enter
    <3>3. FoundIsNotified'
      <4>1. /\ pc[p] = "enter" /\ pc' = [pc EXCEPT ![p] = "idle"]
            /\ topic' = topic /\ cached' = cached
        BY <1>2, <2>1 DEF Enter
      <4>2. CacheTypeOK /\ FoundIsNotified
        OBVIOUS
      <4> HIDE DEF CacheInv, Locks, Free, Take, Release, Found, CacheTypeOK, Places, LocksHeld,
                   FoundIsNotified, NoLostWakeup, Waiting, WillNotify, Goto
      <4> QED
        BY <4>1, <4>2, FoundStays
    <3>4. NoLostWakeup'
      BY <1>2, <2>1 DEF Enter
    <3> QED
      BY <3>1, <3>2, <3>3, <3>4
  <2>2. CASE topic[p] \notin cached /\ ~Free(p)
    BY <1>2, <2>2 DEF Enter
  <2>3. CASE topic[p] \notin cached /\ Free(p)
    <3>1. CacheTypeOK'
      BY <1>0
    <3>2. LocksHeld'
      BY <1>2, <2>3 DEF Enter
    <3>3. FoundIsNotified' /\ NoLostWakeup'
      <4>1. /\ pc[p] = "enter" /\ pc' = [pc EXCEPT ![p] = "creating"]
            /\ topic' = topic /\ cached' = cached
        BY <1>2, <2>3 DEF Enter
      <4>2. CacheTypeOK /\ FoundIsNotified
        OBVIOUS
      <4> HIDE DEF CacheInv, Locks, Free, Take, Release, Found, CacheTypeOK, Places, LocksHeld,
                   FoundIsNotified, NoLostWakeup, Waiting, WillNotify, Goto
      <4> QED
        BY <4>1, <4>2, FoundStays, CreatorNotifies
    <3> QED
      BY <3>1, <3>2, <3>3
  <2> QED
    BY <2>1, <2>2, <2>3
<1>3. CASE Resume(p)
  <2>1. CASE topic[p] \in cached
    <3>1. CacheTypeOK'
      BY <1>0
    <3>2. LocksHeld'
      BY <1>3, <2>1 DEF Resume
    <3>3. FoundIsNotified'
      <4>1. /\ pc[p] = "woken" /\ pc' = [pc EXCEPT ![p] = "idle"]
            /\ topic' = topic /\ cached' = cached
        BY <1>3, <2>1 DEF Resume
      <4>2. CacheTypeOK /\ FoundIsNotified
        OBVIOUS
      <4> HIDE DEF CacheInv, Locks, Free, Take, Release, Found, CacheTypeOK, Places, LocksHeld,
                   FoundIsNotified, NoLostWakeup, Waiting, WillNotify, Goto
      <4> QED
        BY <4>1, <4>2, FoundStays
    <3>4. NoLostWakeup'
      BY <1>3, <2>1 DEF Resume
    <3> QED
      BY <3>1, <3>2, <3>3, <3>4
  <2>2. CASE topic[p] \notin cached /\ ~Free(p)
    BY <1>3, <2>2 DEF Resume
  <2>3. CASE topic[p] \notin cached /\ Free(p)
    <3>1. CacheTypeOK'
      BY <1>0
    <3>2. LocksHeld'
      BY <1>3, <2>3 DEF Resume
    <3>3. FoundIsNotified' /\ NoLostWakeup'
      <4>1. /\ pc[p] = "woken" /\ pc' = [pc EXCEPT ![p] = "creating"]
            /\ topic' = topic /\ cached' = cached
        BY <1>3, <2>3 DEF Resume
      <4>2. CacheTypeOK /\ FoundIsNotified
        OBVIOUS
      <4> HIDE DEF CacheInv, Locks, Free, Take, Release, Found, CacheTypeOK, Places, LocksHeld,
                   FoundIsNotified, NoLostWakeup, Waiting, WillNotify, Goto
      <4> QED
        BY <4>1, <4>2, FoundStays, CreatorNotifies
    <3> QED
      BY <3>1, <3>2, <3>3
  <2> QED
    BY <2>1, <2>2, <2>3
<1>4. CASE Acquire(p)
  <2>1. CacheTypeOK'
    BY <1>0
  <2>2. LocksHeld'
    <3>1. /\ pc[p] = "locking" /\ pc' = [pc EXCEPT ![p] = "creating"]
          /\ lock[mine[p]] = Nobody /\ lock' = [lock EXCEPT ![mine[p]] = p]
          /\ mine' = mine /\ cond' = Nobody
      BY <1>4 DEF Acquire
    <3>2. CacheTypeOK /\ LocksHeld
      OBVIOUS
    <3> HIDE DEF CacheInv, Locks, Free, Take, Release, Found, CacheTypeOK, Places, LocksHeld,
                 FoundIsNotified, NoLostWakeup, Waiting, WillNotify, Goto
    <3> QED
      BY <3>1, <3>2, LockTaken
  <2>3. FoundIsNotified' /\ NoLostWakeup'
    <3>1. /\ pc[p] = "locking" /\ pc' = [pc EXCEPT ![p] = "creating"]
          /\ topic' = topic /\ cached' = cached
      BY <1>4 DEF Acquire
    <3>2. CacheTypeOK /\ FoundIsNotified
      OBVIOUS
    <3> HIDE DEF CacheInv, Locks, Free, Take, Release, Found, CacheTypeOK, Places, LocksHeld,
                 FoundIsNotified, NoLostWakeup, Waiting, WillNotify, Goto
    <3> QED
      BY <3>1, <3>2, FoundStays, CreatorNotifies
  <2> QED
    BY <2>1, <2>2, <2>3
<1>5. CASE Answered(p, {topic[p]})
  BY <1>5 DEF Answered
<1>6. CASE Answered(p, {})
  BY <1>6 DEF Answered
<1>7. CASE Raises(p)
  BY <1>7 DEF Raises
<1>8. CASE NotifyOne(p)
  <2>1. PICK woken \in AtMostOneOf(Waiting) :
          pc' = [q \in Callers |->
                   IF q = p THEN IF pc[p] = "notify" THEN "notifyAll" ELSE "idle"
                   ELSE IF q \in woken THEN "woken" ELSE pc[q]]
    BY <1>8 DEF NotifyOne
  <2>2. /\ pc[p] \in {"notify", "abandon"}
        /\ UNCHANGED <<topic, cached, lock, mine, closes, cond>>
    BY <1>8 DEF NotifyOne
  <2>3. \A q \in woken : pc[q] = "waiting"
    BY DEF AtMostOneOf
  <2>4. CacheTypeOK' /\ LocksHeld'
    BY <2>1, <2>2, <2>3
  <2>5. FoundIsNotified'
    <3> SUFFICES ASSUME NEW r \in Callers, pc'[r] = "waiting", topic'[r] \in cached'
                 PROVE  \E q \in Callers : pc'[q] \in {"notify", "notifyAll"}
      OBVIOUS
    <3>1. pc[r] = "waiting" /\ topic[r] \in cached
      BY <2>1, <2>2
    <3>2. PICK q \in Callers : pc[q] \in {"notify", "notifyAll"}
      BY <3>1
    <3> QED
      BY <2>1, <2>2, <2>3, <3>2
  <2>6. NoLostWakeup'
    <3>1. CASE pc[p] = "notify" \/ Waiting = {}
      BY <2>1, <2>2, <3>1
    <3>2. CASE pc[p] = "abandon" /\ Waiting # {}
      <4>1. PICK w \in Waiting : woken = {w}
        BY <3>2 DEF AtMostOneOf
      <4>2. CASE topic[w] \in cached
        <5>1. PICK q \in Callers : pc[q] \in {"notify", "notifyAll"}
          BY <4>1, <4>2
        <5> QED
          BY <2>1, <2>2, <3>2, <4>1, <5>1
      <4>3. CASE topic[w] \notin cached
        BY <2>1, <2>2, <3>2, <4>1, <4>3
      <4> QED
        BY <4>2, <4>3
    <3> QED
      BY <2>2, <3>1, <3>2
  <2> QED
    BY <2>4, <2>5, <2>6
<1>9. CASE NotifyAll(p)
  BY <1>9 DEF NotifyAll
<1> QED
  BY <1>1, <1>2, <1>3, <1>4, <1>5, <1>6, <1>7, <1>8, <1>9 DEF CallStep

\* The invariant is inductive.
LEMMA CacheStepInv == CacheInv /\ [CacheNext]_cacheVars => CacheInv'
<1> SUFFICES ASSUME CacheInv, [CacheNext]_cacheVars PROVE CacheInv'
  OBVIOUS
<1>1. CASE Reset
  BY <1>1 DEF Reset, CacheInv, CacheTypeOK, LocksHeld, FoundIsNotified, NoLostWakeup, Waiting,
              WillNotify
<1>2. CASE ReplaceLock
  BY <1>2, ClosesAssumption DEF ReplaceLock, Locks, CacheInv, CacheTypeOK, LocksHeld, FoundIsNotified,
              NoLostWakeup, Waiting, WillNotify
<1>3. CASE UNCHANGED cacheVars
  BY <1>3 DEF cacheVars, CacheInv, CacheTypeOK, LocksHeld, FoundIsNotified, NoLostWakeup, Waiting,
              WillNotify
<1> QED
  BY <1>1, <1>2, <1>3, CallStepInv DEF CacheNext

-----------------------------------------------------------------------------

\* The inductive invariant holds in every reachable state.
THEOREM CacheInvariance == CacheSpec => []CacheInv
BY CacheInitInv, CacheStepInv, PTL DEF CacheSpec

\* The variables of the cache stay within their types.
THEOREM CacheTypeCorrect == CacheSpec => []CacheTypeOK
BY CacheInvariance, PTL DEF CacheInv

\* However many coroutines ask for a topic, one at a time asks AWS, but for those
\* that have different locks because the connector was closed.
THEOREM OneAtATime == CacheSpec => []OneCreator
<1>1. CacheInv => OneCreator
  BY DEF CacheInv, CacheTypeOK, LocksHeld, OneCreator
<1> QED
  BY <1>1, CacheInvariance, PTL

\* As long as a coroutine waits for a topic, another one is bound to notify.
THEOREM WakeupsKept == CacheSpec => []NoLostWakeup
BY CacheInvariance, PTL DEF CacheInv
=============================================================================
