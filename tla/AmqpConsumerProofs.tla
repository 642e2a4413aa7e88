-------------------------- MODULE AmqpConsumerProofs -------------------------
(* Safety of AmqpConsumer for any number of services and messages, any kinds,  *)
(* prefetch count, cache limit and number of deliveries.                       *)
EXTENDS AmqpConsumer, FiniteSetTheorems, TLAPS

\* The tags a delivery can have.
LEMMA Tags == MaxTag \in Nat \ {0} /\ 0 \in 0..MaxTag /\ 1 \in 1..(MaxTag + 1)
<1>1. MaxTag \in Nat \ {0}
  BY AmqpConstants
<1> QED
  BY <1>1

-----------------------------------------------------------------------------
(* Types.                                                                     *)

\* Taking messages back keeps the type of out.
LEMMA WithoutType ==
  ASSUME TypeOK, NEW ms \in SUBSET Messages
  PROVE  Without(ms) \in [Messages -> 0..MaxTag]
BY AmqpConstants DEF TypeOK, Without

\* A channel that closes keeps the types.
LEMMA CloseSubType ==
  ASSUME TypeOK, NEW s \in Services, CloseSub(s)
  PROVE  /\ out' \in [Messages -> 0..MaxTag]
         /\ sub' \in [Services -> {"none", "open", "consuming", "closed"}]
<1>1. out' \in [Messages -> 0..MaxTag]
  BY WithoutType DEF CloseSub, For
<1>2. sub' \in [Services -> {"none", "open", "consuming", "closed"}]
  BY DEF CloseSub, TypeOK
<1> QED
  BY <1>1, <1>2

BrokerType ==
    /\ queue \subseteq Messages
    /\ out \in [Messages -> 0..MaxTag]
    /\ next \in [Services -> 1..(MaxTag + 1)]
    /\ sub \in [Services -> {"none", "open", "consuming", "closed"}]
    /\ otherOpen \in BOOLEAN

\* So do the answers, whatever the broker finds under their tag.
LEMMA AnswerType ==
  ASSUME TypeOK, NEW m \in Messages, Ack(m) \/ Nack(m)
  PROVE  BrokerType'
<1> USE DEF BrokerType
<1>1. Without(Meant(m)) \in [Messages -> 0..MaxTag]
  BY WithoutType DEF Meant
<1>2. CASE Writable /\ Meant(m) = {} /\ ChannelError
  <2>1. CASE channel = "other"
    BY <1>2, <2>1 DEF ChannelError, TypeOK
  <2>2. CASE channel # "other"
    <3>1. channel \in Services /\ CloseSub(channel)
      BY <1>2, <2>2 DEF ChannelError, Writable
    <3> QED
      BY <1>2, <2>2, <3>1, CloseSubType DEF ChannelError, TypeOK
  <2> QED
    BY <2>1, <2>2
<1>3. CASE ~Writable /\ UNCHANGED broker
  BY <1>3 DEF broker, TypeOK
<1>4. CASE /\ Writable /\ Meant(m) # {}
           /\ queue' \in {queue, queue \ Meant(m)}
           /\ out' = Without(Meant(m))
           /\ UNCHANGED <<next, sub, otherOpen>>
  BY <1>1, <1>4 DEF TypeOK
<1> QED
  BY <1>2, <1>3, <1>4 DEF Ack, Nack

\* Remembering a uuid keeps the types.
LEMMA RememberType ==
  ASSUME TypeOK, NEW s \in Services, NEW u \in Messages, Remember(s, u)
  PROVE  /\ known' \in [Services -> SUBSET Messages]
         /\ old' \in [Services -> SUBSET Messages]
         /\ purged' \in [Services -> SUBSET Messages]
BY DEF TypeOK, Remember

MemoryType ==
    /\ known \in [Services -> SUBSET Messages]
    /\ old \in [Services -> SUBSET Messages]
    /\ purged \in [Services -> SUBSET Messages]

ClassType ==
    /\ phase \in [Services -> Phases]
    /\ hooked \in [Services -> BOOLEAN]
    /\ protocol \in Channels
    /\ channel \in Channels
    /\ publisher \in [Services -> {"idle", "connecting", "opening"}]

HandlerType ==
    /\ slot \in [Messages -> Slots]
    /\ tag \in [Messages -> 0..MaxTag]

Parts == /\ BrokerType /\ ClassType /\ HandlerType /\ MemoryType
         /\ settled \subseteq Messages

\* The type invariant in its parts.
LEMMA TypeParts == (TypeOK <=> Parts) /\ (TypeOK' <=> Parts')
BY DEF Parts, TypeOK, BrokerType, ClassType, HandlerType, MemoryType

\* A handler that moves on or ends keeps the type of its variables.
LEMMA HandlerMoves ==
  ASSUME HandlerType, NEW m \in Messages,
         (\E place \in Slots : Goto(m, place)) \/ End(m)
  PROVE  HandlerType'
BY AmqpConstants DEF HandlerType, Goto, End, Slots

\* Every step of a handler keeps the variables within their types.
LEMMA HandlerStepType ==
  ASSUME TypeOK, NEW m \in Messages, HandlerStep(m)
  PROVE  TypeOK'
<1> USE TypeParts DEF Parts
<1>1. CASE Discard(m)
  <2>1. BrokerType' /\ HandlerType'
    BY <1>1, AnswerType, HandlerMoves DEF Discard
  <2>2. UNCHANGED <<start, class, memory, settled>>
    BY <1>1 DEF Discard
  <2> QED
    BY <2>1, <2>2 DEF start, class, memory, ClassType, MemoryType
<1>2. CASE IgnoreDuplicate(m) \/ Finish(m)
  <2>1. HandlerType' /\ UNCHANGED <<broker, start, class, memory, settled>>
    BY <1>2, HandlerMoves DEF IgnoreDuplicate, Finish
  <2> QED
    BY <2>1 DEF broker, start, class, memory, BrokerType, ClassType, MemoryType
<1>3. CASE Unusable(m) \/ Invoke(m)
  <2>1. HandlerType'
    BY <1>3, HandlerMoves DEF Unusable, Invoke, Slots
  <2>2. MemoryType'
    <3>1. Of[m] \in Services /\ Uuid[m] \in Messages
      BY AmqpConstants
    <3>2. UNCHANGED memory \/ Remember(Of[m], Uuid[m])
      BY <1>3 DEF Unusable, Invoke
    <3> QED
      BY <3>1, <3>2, RememberType DEF memory, MemoryType
  <2>3. UNCHANGED <<broker, start, class, settled>>
    BY <1>3 DEF Unusable, Invoke
  <2> QED
    BY <2>1, <2>2, <2>3 DEF broker, start, class, BrokerType, ClassType
<1>4. CASE Return(m) \/ Raise(m)
  <2>1. BrokerType' /\ HandlerType'
    BY <1>4, AnswerType, HandlerMoves DEF Return, Raise, Slots
  <2>2. settled' \subseteq Messages /\ UNCHANGED <<start, class, memory>>
    BY <1>4 DEF Return, Raise
  <2> QED
    BY <2>1, <2>2 DEF start, class, memory, ClassType, MemoryType
<1>5. CASE InternalServiceError(m)
  <2>1. BrokerType' /\ HandlerType'
    BY <1>5, AnswerType, HandlerMoves DEF InternalServiceError, broker, BrokerType
  <2>2. MemoryType'
    BY <1>5 DEF InternalServiceError, MemoryType
  <2>3. UNCHANGED <<start, class, settled>>
    BY <1>5 DEF InternalServiceError
  <2> QED
    BY <2>1, <2>2, <2>3 DEF start, class, ClassType
<1> QED
  BY <1>1, <1>2, <1>3, <1>4, <1>5 DEF HandlerStep

\* So does every step of a service, its publishes and its connection.
LEMMA ServiceStepType ==
  ASSUME TypeOK, NEW s \in Services, ServiceStep(s)
  PROVE  TypeOK'
<1> USE TypeParts DEF Parts
<1>1. CASE Subscribe(s) \/ Connect(s) \/ Publish(s) \/ Reconnect(s)
           \/ ConnectFails(s) \/ StopRaises(s) \/ Stopped(s)
  <2>1. ClassType'
    BY <1>1 DEF Subscribe, Connect, Publish, Reconnect, ConnectFails, StopRaises,
                Stopped, ClassType, Channels, Phases, start, class
  <2>2. UNCHANGED <<broker, handlers, memory, settled>>
    BY <1>1 DEF Subscribe, Connect, Publish, Reconnect, ConnectFails, StopRaises,
                Stopped
  <2> QED
    BY <2>1, <2>2 DEF broker, handlers, memory, BrokerType, HandlerType, MemoryType
<1>2. CASE OpenChannel(s) \/ OpenOther(s)
  <2>1. ClassType'
    BY <1>2 DEF OpenChannel, OpenOther, Hook, ClassType, Channels, Phases
  <2>2. BrokerType'
    BY <1>2 DEF OpenChannel, OpenOther, BrokerType
  <2>3. UNCHANGED <<handlers, memory, settled>>
    BY <1>2 DEF OpenChannel, OpenOther
  <2> QED
    BY <2>1, <2>2, <2>3 DEF handlers, memory, HandlerType, MemoryType
<1>3. CASE Consume(s)
  BY <1>3 DEF Consume, BrokerType, ClassType, HandlerType, MemoryType, start, class,
              handlers, memory
<1>4. CASE Lost(s)
  <2>1. BrokerType'
    BY <1>4, CloseSubType DEF Lost, BrokerType
  <2> QED
    BY <1>4, <2>1 DEF Lost, ClassType, HandlerType, MemoryType, start, class,
                      handlers, memory
<1>5. CASE Minute(s)
  BY <1>5 DEF Minute, BrokerType, ClassType, HandlerType, MemoryType, broker, start,
              class, handlers
<1>6. CASE Stop(s)
  <2>1. CASE protocol = "other"
    <3>1. ClassType'
      BY <1>6, <2>1 DEF Stop, CloseProtocol, ClassType, Phases
    <3>2. BrokerType'
      BY <1>6, <2>1 DEF Stop, CloseProtocol, BrokerType
    <3> QED
      BY <1>6, <3>1, <3>2 DEF Stop, handlers, memory, HandlerType, MemoryType
  <2>2. CASE protocol # "other"
    <3>1. protocol \in Services /\ CloseSub(protocol)
          /\ UNCHANGED <<otherOpen, publisher>>
      BY <1>6, <2>2 DEF Stop, CloseProtocol, ClassType, Channels
    <3>2. ClassType'
      BY <1>6, <3>1 DEF Stop, ClassType, Phases
    <3>3. BrokerType'
      BY <1>6, <3>1, CloseSubType DEF Stop, BrokerType
    <3> QED
      BY <1>6, <3>2, <3>3 DEF Stop, handlers, memory, HandlerType, MemoryType
  <2> QED
    BY <2>1, <2>2
<1> QED
  BY <1>1, <1>2, <1>3, <1>4, <1>5, <1>6 DEF ServiceStep

LEMMA InitType == Init => TypeOK
<1> SUFFICES ASSUME Init PROVE TypeOK
  OBVIOUS
<1>1. BrokerType
  BY Tags DEF Init, BrokerType, NoTag, Nowhere
<1>2. ClassType
  BY DEF Init, ClassType, Phases, Channels
<1>3. HandlerType /\ MemoryType /\ settled \subseteq Messages
  BY Tags DEF Init, HandlerType, MemoryType, NoTag, Nothing, Slots
<1> QED
  BY <1>1, <1>2, <1>3, TypeParts DEF Parts

LEMMA TypeStep == TypeOK /\ [Next]_vars => TypeOK'
<1> SUFFICES ASSUME TypeOK, [Next]_vars PROVE TypeOK'
  OBVIOUS
<1>1. CASE UNCHANGED vars
  BY <1>1 DEF vars, broker, start, class, handlers, memory, TypeOK
<1>2. ASSUME NEW s \in Services, ServiceStep(s) PROVE TypeOK'
  BY <1>2, ServiceStepType
<1>3. CASE OtherLost
  BY <1>3 DEF OtherLost, start, class, handlers, memory, TypeOK
<1>4. CASE Restart
  BY <1>4, AmqpConstants, Tags
     DEF Restart, TypeOK, NoTag, Nowhere, Nothing, Phases, Channels, Slots
<1>5. ASSUME NEW m \in Messages, Deliver(m) PROVE TypeOK'
  <2>1. Of[m] \in Services /\ next[Of[m]] \in 1..MaxTag
    <3>1. Of[m] \in Services
      BY AmqpConstants
    <3>2. next[Of[m]] \in 1..(MaxTag + 1) /\ next[Of[m]] <= MaxTag
      BY <1>5, <3>1 DEF Deliver, TypeOK
    <3> QED
      BY <3>1, <3>2, Tags
  <2>2. next[Of[m]] + 1 \in 1..(MaxTag + 1)
    BY <2>1, Tags
  <2> QED
    BY <1>5, <2>1, <2>2 DEF Deliver, TypeOK, Slots, start, class, memory
<1>6. ASSUME NEW m \in Messages, HandlerStep(m) PROVE TypeOK'
  BY <1>6, HandlerStepType
<1> QED
  BY <1>1, <1>2, <1>3, <1>4, <1>5, <1>6 DEF Next

\* The variables stay within their types.
THEOREM TypeCorrect == Spec => []TypeOK
BY InitType, TypeStep, PTL DEF Spec

-----------------------------------------------------------------------------
(* Delivery tags.                                                             *)

\* The deliveries on the channel of a service have different tags, and a handler
\* holds the tag of no message but its own.
TagsDistinct ==
    /\ \A m \in Messages : /\ slot[m] # "none" => tag[m] # 0
                           /\ out[m] < next[Of[m]] /\ tag[m] < next[Of[m]]
    /\ \A m, n \in Messages :
          m # n /\ Of[m] = Of[n] /\ out[m] # 0 =>
              out[m] # out[n] /\ out[m] # tag[n]

\* What a step that delivers nothing may do about tags.
Fewer ==
    /\ next' = next
    /\ \A m \in Messages : /\ out'[m] \in {0, out[m]}
                           /\ \/ slot'[m] = "none" /\ tag'[m] \in {0, tag[m]}
                              \/ slot[m] # "none" /\ tag'[m] = tag[m]

LEMMA FewerTags ==
  ASSUME TypeOK, TagsDistinct, Fewer
  PROVE  TagsDistinct'
<1>1. \A m \in Messages : out'[m] \in {0, out[m]} /\ tag'[m] \in {0, tag[m]}
  BY DEF Fewer
<1>2. ASSUME NEW m \in Messages
      PROVE  /\ slot'[m] # "none" => tag'[m] # 0
             /\ out'[m] < next'[Of[m]] /\ tag'[m] < next'[Of[m]]
  <2>1. Of[m] \in Services /\ next[Of[m]] \in 1..(MaxTag + 1)
    BY AmqpConstants DEF TypeOK
  <2>2. 0 < next[Of[m]] /\ next' = next
    BY <2>1, Tags DEF Fewer
  <2> QED
    BY <1>1, <2>2 DEF TagsDistinct, Fewer
<1>3. ASSUME NEW m \in Messages, NEW n \in Messages,
             m # n, Of[m] = Of[n], out'[m] # 0
      PROVE  out'[m] # out'[n] /\ out'[m] # tag'[n]
  BY <1>1, <1>3 DEF TagsDistinct
<1> QED
  BY <1>2, <1>3 DEF TagsDistinct

\* An answer only takes messages from what is outstanding.
LEMMA AnswerTags ==
  ASSUME TypeOK, NEW m \in Messages, Ack(m) \/ Nack(m)
  PROVE  next' = next /\ \A n \in Messages : out'[n] \in {0, out[n]}
<1>1. \/ out' = out \/ out' = Without(Meant(m))
      \/ \E s \in Services : out' = Without(For(s))
  BY DEF Ack, Nack, ChannelError, CloseSub, Writable, broker
<1>2. next' = next
  BY DEF Ack, Nack, ChannelError, broker
<1> QED
  BY <1>1, <1>2 DEF Without

\* A handler that moves on keeps its tag, one that ends drops it.
LEMMA MovesTags ==
  ASSUME TypeOK, NEW m \in Messages, slot[m] # "none",
         (\E place \in Slots : Goto(m, place)) \/ End(m)
  PROVE  \A n \in Messages : \/ slot'[n] = "none" /\ tag'[n] \in {0, tag[n]}
                             \/ slot[n] # "none" /\ tag'[n] = tag[n]
BY DEF TypeOK, Goto, End

LEMMA HandlerStepTags ==
  ASSUME TypeOK, NEW m \in Messages, HandlerStep(m)
  PROVE  Fewer
<1>1. /\ slot[m] # "none"
      /\ (\E place \in Slots : Goto(m, place)) \/ End(m)
  BY DEF HandlerStep, Discard, IgnoreDuplicate, Unusable, Invoke, Return, Raise,
         InternalServiceError, Finish, Slots
<1>2. UNCHANGED broker \/ Ack(m) \/ Nack(m)
  BY DEF HandlerStep, Discard, IgnoreDuplicate, Unusable, Invoke, Return, Raise,
         InternalServiceError, Finish
<1>3. next' = next /\ \A n \in Messages : out'[n] \in {0, out[n]}
  BY <1>2, AnswerTags DEF broker
<1> QED
  BY <1>1, <1>3, MovesTags DEF Fewer

LEMMA ServiceStepTags ==
  ASSUME TypeOK, NEW s \in Services, ServiceStep(s)
  PROVE  Fewer
<1>1. next' = next /\ UNCHANGED handlers
  BY DEF ServiceStep, Subscribe, Connect, OpenChannel, Consume, Publish, Reconnect,
         OpenOther, ConnectFails, Stop, StopRaises, Stopped, Lost, Minute, broker
<1>2. out' = out \/ \E t \in Services : out' = Without(For(t))
  BY DEF ServiceStep, Subscribe, Connect, OpenChannel, Consume, Publish, Reconnect,
         OpenOther, ConnectFails, Stop, StopRaises, Stopped, Lost, Minute, broker,
         CloseProtocol, CloseSub, TypeOK, Channels
<1>3. \A m \in Messages : out'[m] \in {0, out[m]}
  BY <1>2 DEF Without
<1> QED
  BY <1>1, <1>3 DEF Fewer, handlers

LEMMA TagStep == TypeOK /\ TagsDistinct /\ [Next]_vars => TagsDistinct'
<1> SUFFICES ASSUME TypeOK, TagsDistinct, [Next]_vars PROVE TagsDistinct'
  OBVIOUS
<1>1. CASE UNCHANGED vars
  BY <1>1 DEF vars, broker, handlers, TagsDistinct
<1>2. ASSUME NEW s \in Services, ServiceStep(s) PROVE TagsDistinct'
  BY <1>2, ServiceStepTags, FewerTags
<1>3. CASE OtherLost
  BY <1>3 DEF OtherLost, handlers, TagsDistinct
<1>4. CASE Restart
  BY <1>4, AmqpConstants DEF Restart, TagsDistinct, NoTag
<1>5. ASSUME NEW m \in Messages, Deliver(m) PROVE TagsDistinct'
  <2>1. Of[m] \in Services /\ next[Of[m]] \in 1..(MaxTag + 1)
    BY AmqpConstants DEF TypeOK
  <2>2. \A n \in Messages : Of[n] \in Services /\ next[Of[n]] \in 1..(MaxTag + 1)
    BY AmqpConstants DEF TypeOK
  <2>3. /\ out' = [out EXCEPT ![m] = next[Of[m]]]
        /\ tag' = [tag EXCEPT ![m] = next[Of[m]]]
        /\ slot' = [slot EXCEPT ![m] = "raw"]
        /\ next' = [next EXCEPT ![Of[m]] = @ + 1]
    BY <1>5 DEF Deliver
  <2>4. \A n \in Messages : out[n] \in Nat /\ tag[n] \in Nat
    BY Tags DEF TypeOK
  <2>5. \A n \in Messages : next[Of[n]] \in Nat /\ next[Of[n]] <= next'[Of[n]]
    BY <2>2, <2>3, Tags DEF TypeOK
  <2>6. next[Of[m]] < next'[Of[m]] /\ next[Of[m]] # 0
    BY <2>1, <2>3, Tags DEF TypeOK
  <2>7. ASSUME NEW n \in Messages
        PROVE  /\ slot'[n] # "none" => tag'[n] # 0
               /\ out'[n] < next'[Of[n]] /\ tag'[n] < next'[Of[n]]
    BY <2>3, <2>4, <2>5, <2>6, Tags DEF TagsDistinct, TypeOK
  <2>8. ASSUME NEW k \in Messages, NEW n \in Messages,
               k # n, Of[k] = Of[n], out'[k] # 0
        PROVE  out'[k] # out'[n] /\ out'[k] # tag'[n]
    <3>1. CASE k = m
      <4>1. out'[k] = next[Of[m]] /\ out'[n] = out[n] /\ tag'[n] = tag[n]
        BY <2>3, <2>8, <3>1 DEF TypeOK
      <4>2. out[n] < next[Of[m]] /\ tag[n] < next[Of[m]]
        BY <2>8, <3>1 DEF TagsDistinct
      <4> QED
        BY <2>4, <2>5, <4>1, <4>2
    <3>2. CASE n = m
      <4>1. /\ out'[k] = out[k] /\ out'[n] = next[Of[m]] /\ tag'[n] = next[Of[m]]
            /\ out[k] < next[Of[m]]
        BY <2>3, <2>8, <3>2 DEF TypeOK, TagsDistinct
      <4> QED
        BY <2>4, <2>5, <4>1
    <3>3. CASE k # m /\ n # m
      BY <2>3, <2>8, <3>3 DEF TagsDistinct, TypeOK
    <3> QED
      BY <3>1, <3>2, <3>3
  <2> QED
    BY <2>7, <2>8 DEF TagsDistinct
<1>6. ASSUME NEW m \in Messages, HandlerStep(m) PROVE TagsDistinct'
  BY <1>6, HandlerStepTags, FewerTags
<1> QED
  BY <1>1, <1>2, <1>3, <1>4, <1>5, <1>6 DEF Next

\* The tags of a channel are told apart, whatever happens to its deliveries.
THEOREM TagsTold == Spec => [](TypeOK /\ TagsDistinct)
<1>1. Init => TypeOK /\ TagsDistinct
  <2>1. Init => TagsDistinct
    BY AmqpConstants DEF Init, TagsDistinct, NoTag
  <2> QED
    BY <2>1, InitType
<1> QED
  BY <1>1, TypeStep, TagStep, PTL DEF Spec

-----------------------------------------------------------------------------
(* Refinement.                                                                *)

\* In a process with one service an answer reaches the message it is meant for,
\* or none.
LEMMA AnswerMeans ==
  ASSUME TypeOK, TagsDistinct, \E s \in Services : Services = {s},
         NEW m \in Messages, slot[m] # "none", Ack(m)
  PROVE  queue' \in {queue, queue \ {m}}
<1>1. \A n \in Meant(m) : n = m
  <2> SUFFICES ASSUME NEW n \in Meant(m), n # m PROVE FALSE
    OBVIOUS
  <2>1. n \in Messages /\ out[n] = tag[m] /\ tag[m] # 0
    BY DEF Meant, TagsDistinct
  <2>2. Of[n] = Of[m]
    BY <2>1, AmqpConstants
  <2> QED
    BY <2>1, <2>2 DEF TagsDistinct
<1>2. queue' \in {queue, queue \ Meant(m)}
  BY DEF Ack, ChannelError, broker
<1> QED
  BY <1>1, <1>2 DEF Meant

\* In a process with one service the transport implements the at-least-once
\* promise.
THEOREM Refinement ==
  (\E s \in Services : Services = {s}) => (Spec => ImplementsAtLeastOnce)
<1> SUFFICES ASSUME \E s \in Services : Services = {s}
             PROVE  Spec => ImplementsAtLeastOnce
  OBVIOUS
<1>1. Init => Promise!Init
  BY DEF Init, Promise!Init
<1>2. TypeOK /\ TagsDistinct /\ [Next]_vars => [Promise!Next]_Promise!vars
  <2> SUFFICES ASSUME TypeOK, TagsDistinct, [Next]_vars
               PROVE  [Promise!Next]_Promise!vars
    OBVIOUS
  <2> USE DEF Promise!vars
  <2>1. CASE OtherLost \/ Restart \/ UNCHANGED vars
    BY <2>1 DEF OtherLost, Restart, vars, broker
  <2>2. ASSUME NEW s \in Services, ServiceStep(s) PROVE UNCHANGED <<queue, settled>>
    BY <2>2 DEF ServiceStep, Subscribe, Connect, OpenChannel, Consume, Publish,
                Reconnect, OpenOther, ConnectFails, Stop, StopRaises, Stopped, Lost,
                Minute, broker
  <2>3. ASSUME NEW m \in Messages, Deliver(m) PROVE UNCHANGED <<queue, settled>>
    BY <2>3 DEF Deliver
  <2>4. ASSUME NEW m \in Messages, HandlerStep(m) PROVE [Promise!Next]_Promise!vars
    <3>1. CASE Discard(m)
      <4>1. /\ queue' \in {queue, queue \ {m}} /\ UNCHANGED settled
            /\ m \in Discardable
        BY <3>1, AnswerMeans DEF Discard, Discardable
      <4> QED
        BY <4>1 DEF Promise!Next, Promise!Remove
    <3>2. CASE Return(m) \/ Raise(m)
      <4>1. queue' \in {queue, queue \ {m}} /\ settled' = settled \cup {m}
        BY <3>2, AnswerMeans DEF Return, Raise
      <4> QED
        BY <4>1 DEF Promise!Next, Promise!Handle, Promise!Finish
    <3>3. CASE IgnoreDuplicate(m) \/ Unusable(m) \/ Invoke(m) \/ Finish(m)
               \/ InternalServiceError(m)
      BY <3>3 DEF IgnoreDuplicate, Unusable, Invoke, Finish, InternalServiceError,
                  Nack, ChannelError, broker
    <3> QED
      BY <2>4, <3>1, <3>2, <3>3 DEF HandlerStep
  <2> QED
    BY <2>1, <2>2, <2>3, <2>4 DEF Next
<1> QED
  BY <1>1, <1>2, TagsTold, PTL DEF Spec, ImplementsAtLeastOnce, Promise!Spec

-----------------------------------------------------------------------------
(* Copies.                                                                    *)

Active(m) == Kind[m] = "uuid" /\ slot[m] \in {"run", "acked"}

\* While a handler is at work its uuid is remembered or was purged, copies are
\* not at work side by side unless it was purged, and what is old is remembered.
CopiesApart ==
    /\ \A m \in Messages : Active(m) =>
          Uuid[m] \in known[Of[m]] \cup purged[Of[m]]
    /\ \A m, n \in Messages :
          m # n /\ Of[m] = Of[n] /\ Uuid[m] = Uuid[n] /\ Active(m) /\ Active(n) =>
              Uuid[m] \in purged[Of[m]]
    /\ \A s \in Services : old[s] \subseteq known[s]

\* It is kept when no handler begins and no uuid is recorded or forgotten.
LEMMA NoneBegins ==
  ASSUME CopiesApart, known' = known, purged' = purged,
         \A s \in Services : old'[s] \subseteq known[s],
         \A m \in Messages : slot'[m] \in {"run", "acked"} =>
                                slot[m] \in {"run", "acked"}
  PROVE  CopiesApart'
<1>1. \A m \in Messages : Active(m)' => Active(m)
  BY DEF Active
<1> QED
  BY <1>1 DEF CopiesApart

\* Recording a uuid keeps every uuid, if only among the purged ones.
LEMMA RememberKeeps ==
  ASSUME TypeOK, CopiesApart, NEW s \in Services, NEW u \in Messages, Remember(s, u),
         u \notin known[s]
  PROVE  /\ u \in known'[s]
         /\ \A t \in Services : /\ known[t] \cup purged[t] \subseteq known'[t] \cup purged'[t]
                               /\ purged[t] \subseteq purged'[t]
                               /\ old'[t] \subseteq known'[t]
<1>1. u \notin old[s] /\ \A t \in Services : old[t] \subseteq known[t]
  BY DEF CopiesApart
<1>2. CASE /\ known' = [known EXCEPT ![s] = (known[s] \cup {u}) \ old[s]]
           /\ old' = [old EXCEPT ![s] = {}]
           /\ purged' = [purged EXCEPT ![s] = @ \cup old[s]]
  BY <1>1, <1>2 DEF TypeOK
<1>3. CASE known' = [known EXCEPT ![s] = known[s] \cup {u}] /\ UNCHANGED <<old, purged>>
  BY <1>1, <1>3 DEF TypeOK
<1> QED
  BY <1>2, <1>3 DEF Remember

LEMMA HandlerStepCopies ==
  ASSUME TypeOK, CopiesApart, NEW m \in Messages, HandlerStep(m)
  PROVE  CopiesApart'
<1>1. CASE Discard(m) \/ IgnoreDuplicate(m) \/ Return(m) \/ Raise(m) \/ Finish(m)
  <2>1. UNCHANGED memory
    BY <1>1 DEF Discard, IgnoreDuplicate, Return, Raise, Finish
  <2>2. \A n \in Messages : slot'[n] \in {"run", "acked"} => slot[n] \in {"run", "acked"}
    BY <1>1 DEF Discard, IgnoreDuplicate, Return, Raise, Finish, Goto, End, TypeOK
  <2> QED
    BY <2>1, <2>2, NoneBegins DEF memory, CopiesApart
<1>2. CASE Invoke(m) /\ m \notin Deduplicated
  <2>1. UNCHANGED memory /\ slot' = [slot EXCEPT ![m] = "run"] /\ Kind[m] # "uuid"
    BY <1>2 DEF Invoke, Goto, Deduplicated
  <2>2. \A n \in Messages : Active(n)' => Active(n)
    BY <2>1 DEF Active, TypeOK
  <2> QED
    BY <2>1, <2>2 DEF CopiesApart, memory
<1>3. CASE Unusable(m) \/ (Invoke(m) /\ m \in Deduplicated)
  <2>1. /\ Of[m] \in Services /\ Uuid[m] \in Messages
        /\ Remember(Of[m], Uuid[m]) /\ Uuid[m] \notin known[Of[m]]
    BY <1>3, AmqpConstants DEF Unusable, Invoke, IsKnown
  <2>2. /\ Uuid[m] \in known'[Of[m]]
        /\ \A t \in Services : /\ known[t] \cup purged[t] \subseteq known'[t] \cup purged'[t]
                              /\ purged[t] \subseteq purged'[t]
                              /\ old'[t] \subseteq known'[t]
    BY <2>1, RememberKeeps
  <2>3. \A n \in Messages : Active(n)' => Active(n) \/ n = m
    BY <1>3 DEF Active, Unusable, Invoke, Goto, End, TypeOK
  <2>4. \A n \in Messages : Of[n] \in Services
    BY AmqpConstants
  <2>5. ASSUME NEW n \in Messages, Active(n)'
        PROVE  Uuid[n] \in known'[Of[n]] \cup purged'[Of[n]]
    BY <2>2, <2>3, <2>4, <2>5 DEF CopiesApart
  <2>6. ASSUME NEW k \in Messages, NEW n \in Messages, k # n, Of[k] = Of[n],
               Uuid[k] = Uuid[n], Active(k)', Active(n)'
        PROVE  Uuid[k] \in purged'[Of[k]]
    <3>1. CASE Active(k) /\ Active(n)
      BY <2>2, <2>4, <2>6, <3>1 DEF CopiesApart
    <3>2. CASE \E j \in {k, n} : Active(j) /\ Uuid[j] = Uuid[m] /\ Of[j] = Of[m]
      BY <2>1, <2>2, <2>6, <3>2 DEF CopiesApart
    <3> QED
      BY <2>3, <2>6, <3>1, <3>2
  <2> QED
    BY <2>2, <2>5, <2>6 DEF CopiesApart
<1>4. CASE InternalServiceError(m)
  <2>1. /\ slot' = [slot EXCEPT ![m] = "none"] /\ slot[m] \in {"run", "acked"}
        /\ purged' = purged
    BY <1>4 DEF InternalServiceError, End
  <2>2. \A n \in Messages : Active(n)' => Active(n) /\ n # m
    BY <2>1 DEF Active, TypeOK
  <2>3. CASE UNCHANGED <<known, old>>
    BY <2>1, <2>2, <2>3 DEF CopiesApart
  <2>4. CASE Kind[m] # "uuid"
    <3>1. \/ UNCHANGED <<known, old>>
          \/ /\ known' = [known EXCEPT ![Of[m]] = known[Of[m]] \ {}]
             /\ old' = [old EXCEPT ![Of[m]] = old[Of[m]] \ {}]
      BY <1>4, <2>4 DEF InternalServiceError
    <3>2. known[Of[m]] \ {} = known[Of[m]] /\ old[Of[m]] \ {} = old[Of[m]]
      OBVIOUS
    <3>3. UNCHANGED <<known, old>>
      BY <3>1, <3>2 DEF TypeOK
    <3> QED
      BY <2>3, <3>3
  <2>5. CASE /\ Kind[m] = "uuid"
             /\ known' = [known EXCEPT ![Of[m]] = @ \ {Uuid[m]}]
             /\ old' = [old EXCEPT ![Of[m]] = @ \ {Uuid[m]}]
    <3>1. Active(m)
      BY <2>1, <2>5 DEF Active
    <3>2. ASSUME NEW n \in Messages, Active(n)'
          PROVE  Uuid[n] \in known'[Of[n]] \cup purged'[Of[n]]
      <4>1. Active(n) /\ n # m /\ Of[n] \in Services /\ Of[m] \in Services
        BY <2>2, <3>2, AmqpConstants
      <4>2. CASE Of[n] = Of[m] /\ Uuid[n] = Uuid[m]
        BY <2>1, <3>1, <4>1, <4>2 DEF CopiesApart
      <4>3. CASE Of[n] # Of[m] \/ Uuid[n] # Uuid[m]
        BY <2>1, <2>5, <4>1, <4>3 DEF CopiesApart, TypeOK
      <4> QED
        BY <4>2, <4>3
    <3>3. \A s \in Services : old'[s] \subseteq known'[s]
      BY <2>5 DEF CopiesApart, TypeOK
    <3>4. \A k, n \in Messages :
             k # n /\ Of[k] = Of[n] /\ Uuid[k] = Uuid[n] /\ Active(k)' /\ Active(n)' =>
                 Uuid[k] \in purged'[Of[k]]
      BY <2>1, <2>2 DEF CopiesApart
    <3> QED
      BY <3>2, <3>3, <3>4 DEF CopiesApart
  <2> QED
    BY <1>4, <2>3, <2>4, <2>5 DEF InternalServiceError
<1> QED
  BY <1>1, <1>2, <1>3, <1>4 DEF HandlerStep

LEMMA CopyStep == TypeOK /\ CopiesApart /\ [Next]_vars => CopiesApart'
<1> SUFFICES ASSUME TypeOK, CopiesApart, [Next]_vars PROVE CopiesApart'
  OBVIOUS
<1>1. CASE UNCHANGED vars \/ OtherLost
  BY <1>1 DEF vars, OtherLost, handlers, memory, CopiesApart, Active
<1>2. ASSUME NEW s \in Services, ServiceStep(s) PROVE CopiesApart'
  <2>1. UNCHANGED <<slot, known, purged>>
    BY <1>2 DEF ServiceStep, Subscribe, Connect, OpenChannel, Consume, Publish,
                Reconnect, OpenOther, ConnectFails, Stop, StopRaises, Stopped, Lost,
                Minute, handlers, memory
  <2>2. old' = old \/ old' = [old EXCEPT ![s] = known[s]]
    BY <1>2 DEF ServiceStep, Subscribe, Connect, OpenChannel, Consume, Publish,
                Reconnect, OpenOther, ConnectFails, Stop, StopRaises, Stopped, Lost,
                Minute, memory
  <2>3. \A t \in Services : old'[t] \subseteq known[t]
    BY <2>2 DEF CopiesApart, TypeOK
  <2> QED
    BY <2>1, <2>3, NoneBegins
<1>3. CASE Restart
  BY <1>3 DEF Restart, CopiesApart, Active, Nothing
<1>4. ASSUME NEW m \in Messages, Deliver(m) PROVE CopiesApart'
  <2>1. UNCHANGED memory /\ slot' = [slot EXCEPT ![m] = "raw"]
    BY <1>4 DEF Deliver
  <2>2. \A n \in Messages : slot'[n] \in {"run", "acked"} => slot[n] \in {"run", "acked"}
    BY <2>1 DEF TypeOK
  <2> QED
    BY <2>1, <2>2, NoneBegins DEF memory, CopiesApart
<1>5. ASSUME NEW m \in Messages, HandlerStep(m) PROVE CopiesApart'
  BY <1>5, HandlerStepCopies
<1> QED
  BY <1>1, <1>2, <1>3, <1>4, <1>5 DEF Next

\* Copies of a message are not handled side by side in a service, unless the
\* memory of the first was purged.
THEOREM CopiesOneByOne == Spec => []OneHandlerPerUuid
<1>1. Init => TypeOK /\ CopiesApart
  <2>1. Init => CopiesApart
    BY DEF Init, CopiesApart, Active, Nothing
  <2> QED
    BY <2>1, InitType
<1>2. CopiesApart => OneHandlerPerUuid
  BY DEF CopiesApart, OneHandlerPerUuid, Active
<1> QED
  BY <1>1, <1>2, TypeStep, CopyStep, PTL DEF Spec

-----------------------------------------------------------------------------
(* Answers.  A delivery stays unanswered on the channel that the class holds    *)
(* only where a handler has ignored it for the sake of a copy: one that no      *)
(* other message is a copy of is never ignored, for it is remembered only while *)
(* its own handler runs, and then it is answered or its channel is closed.      *)

Copies(m) == {n \in Deduplicated \ {m} : Of[n] = Of[m] /\ Uuid[n] = Uuid[m]}

\* Deliveries are outstanding on channels that consume, under the tag that their
\* handlers hold, and no handler is past its acknowledgement without having
\* made it; a service that does not consume yet remembers nothing.
AtHand ==
    /\ \A m \in Messages :
          /\ slot[m] # "none" /\ out[m] # 0 => out[m] = tag[m]
          /\ out[m] # 0 => sub[Of[m]] = "consuming" /\ m \in queue
          /\ slot[m] = "acked" /\ channel = Of[m] => out[m] = 0
          /\ sub[Of[m]] \in {"none", "open"} => slot[m] = "none"
    /\ \A s \in Services : sub[s] \in {"none", "open"} => known[s] = {}

\* A message without copies that is in the queue and remembered is being handled.
KnownByItself ==
    \A m \in Messages :
        /\ Kind[m] = "uuid" /\ Copies(m) = {} /\ m \in queue
        /\ Uuid[m] \in known[Of[m]] /\ Uuid[m] \notin purged[Of[m]]
        /\ channel = Of[m] /\ sub[Of[m]] # "closed"
        => slot[m] = "run"

\* EveryDeliveryAnswered, which leaves open whether copies matter to messages
\* that are not deduplicated.
Excused(m) ==
    \/ channel # Of[m]
    \/ Kind[m] = "unusable"
    \/ /\ Kind[m] = "uuid"
       /\ \/ Uuid[m] \in purged[Of[m]]
          \/ \E n \in Copies(m) : Uuid[m] \in known[Of[m]] \/ ~Unanswered(n)

UnansweredExcused == \A m \in Messages : Unanswered(m) => Excused(m)

AnswerInv == AtHand /\ KnownByItself /\ UnansweredExcused

\* What a step may do to the broker's side while it delivers nothing.
Retreats ==
    /\ queue' \subseteq queue
    /\ \A m \in Messages : \/ out'[m] = 0
                           \/ out'[m] = out[m] /\ m \in queue' /\ sub'[Of[m]] = "consuming"
    /\ \A s \in Services : /\ sub'[s] \in {"none", "open"} => sub[s] \in {"none", "open"}
                           /\ sub'[s] # "closed" => sub[s] # "closed"
                           /\ channel' = s => channel = s \/ sub[s] = "none"

\* A step that leaves the handlers and their memory alone keeps the invariant.
LEMMA RetreatKeeps ==
  ASSUME TypeOK, AnswerInv, Retreats, UNCHANGED <<slot, tag, known, purged>>
  PROVE  AnswerInv'
<1>1. \A m \in Messages : Of[m] \in Services
  BY AmqpConstants
<1>2. \A m \in Messages : channel' = Of[m] => channel = Of[m] \/ (out[m] = 0 /\ slot[m] = "none"
                                                                  /\ known[Of[m]] = {})
  BY <1>1 DEF Retreats, AnswerInv, AtHand
<1>3. AtHand'
  BY <1>1, <1>2 DEF Retreats, AnswerInv, AtHand
<1>4. KnownByItself'
  BY <1>1, <1>2 DEF Retreats, AnswerInv, KnownByItself, Copies, Deduplicated
<1>5. \A m \in Messages : Unanswered(m)' => Unanswered(m)
  BY DEF Retreats, Unanswered
<1>6. ASSUME NEW m \in Messages, Unanswered(m)', channel' = Of[m] PROVE Excused(m)'
  <2>1. Unanswered(m) /\ channel = Of[m] /\ Excused(m)
    BY <1>2, <1>5, <1>6 DEF AnswerInv, UnansweredExcused, Unanswered
  <2>2. Copies(m)' = Copies(m) /\ Copies(m) \subseteq Messages
    BY DEF Copies, Deduplicated
  <2> QED
    BY <1>5, <2>1, <2>2 DEF Excused
<1> QED
  BY <1>3, <1>4, <1>6 DEF AnswerInv, UnansweredExcused, Excused

LEMMA ServiceStepRetreats ==
  ASSUME TypeOK, AtHand, NEW s \in Services, ServiceStep(s)
  PROVE  Retreats /\ UNCHANGED <<slot, tag, known, purged>>
<1> USE DEF TypeOK, Retreats
<1>1. /\ UNCHANGED <<slot, tag, known, purged, queue>>
      /\ \A m \in Messages : out[m] # 0 => sub[Of[m]] = "consuming" /\ m \in queue
      /\ \A m \in Messages : Of[m] \in Services
  BY AmqpConstants DEF AtHand, ServiceStep, Subscribe, Connect, OpenChannel, Consume, Publish, Reconnect,
         OpenOther, ConnectFails, Stop, StopRaises, Stopped, Lost, Minute, broker, handlers, memory
<1>2. ASSUME UNCHANGED <<out, sub>>, channel' \in {channel, "none", "other"} PROVE Retreats
  BY <1>1, <1>2, ChannelsOfServices
<1>3. ASSUME NEW t \in Services, CloseSub(t), channel' = channel PROVE Retreats
  BY <1>1, <1>3 DEF CloseSub, Without, For
<1>4. CASE Subscribe(s) \/ Connect(s) \/ Publish(s) \/ Reconnect(s) \/ OpenOther(s)
           \/ ConnectFails(s) \/ StopRaises(s) \/ Stopped(s) \/ Minute(s)
  BY <1>1, <1>2, <1>4 DEF Subscribe, Connect, Publish, Reconnect, OpenOther, ConnectFails,
                          StopRaises, Stopped, Minute, broker, class
<1>5. CASE OpenChannel(s) \/ Consume(s)
  BY <1>1, <1>5 DEF OpenChannel, Consume, class
<1>6. CASE Stop(s)
  <2>1. protocol = "other" \/ protocol \in Services
    BY <1>6 DEF Stop, Channels
  <2> QED
    BY <1>1, <1>2, <1>3, <1>6, <2>1 DEF Stop, CloseProtocol
<1>7. CASE Lost(s)
  BY <1>1, <1>3, <1>7 DEF Lost, class
<1> QED
  BY <1>1, <1>4, <1>5, <1>6, <1>7 DEF ServiceStep

\* An answer only takes deliveries away, those of the channel it closes all.
LEMMA AnswerRetreats ==
  ASSUME TypeOK, AtHand, NEW m \in Messages, Ack(m) \/ Nack(m), channel' = channel
  PROVE  Retreats
<1> USE DEF TypeOK, Retreats
<1>1. /\ \A n \in Messages : out[n] # 0 => sub[Of[n]] = "consuming" /\ n \in queue
      /\ \A n \in Messages : Of[n] \in Services
  BY AmqpConstants DEF AtHand
<1>2. CASE Writable /\ Meant(m) = {} /\ ChannelError
  <2>1. CASE channel = "other"
    BY <1>1, <1>2, <2>1 DEF ChannelError
  <2>2. CASE channel # "other"
    <3>1. channel \in Services /\ CloseSub(channel) /\ UNCHANGED queue
      BY <1>2, <2>2 DEF ChannelError, Writable
    <3> QED
      BY <1>1, <3>1 DEF CloseSub, Without, For
  <2> QED
    BY <2>1, <2>2
<1>3. CASE UNCHANGED broker
  BY <1>1, <1>3 DEF broker
<1>4. CASE /\ queue' \in {queue, queue \ Meant(m)}
           /\ out' = Without(Meant(m))
           /\ sub' = sub
  BY <1>1, <1>4 DEF Without
<1> QED
  BY <1>2, <1>3, <1>4 DEF Ack, Nack

\* On the channel of its own service an answer reaches the delivery, if there
\* is one left; and an acknowledged message has left the queue, unless the
\* channel is closed.
LEMMA AnswerReaches ==
  ASSUME TypeOK, TagsDistinct, AtHand, NEW m \in Messages, slot[m] # "none", channel = Of[m],
         Ack(m) \/ Nack(m)
  PROVE  /\ out'[m] = 0
         /\ Ack(m) => m \notin queue' \/ sub'[Of[m]] = "closed"
<1>1. /\ Of[m] \in Services /\ tag[m] # 0 /\ out[m] \in {0, tag[m]} /\ channel # "other"
      /\ sub[Of[m]] \in {"consuming", "closed"} /\ (out[m] # 0 => sub[Of[m]] = "consuming")
  BY AmqpConstants, ChannelsOfServices DEF AtHand, TagsDistinct, TypeOK
<1>2. \A n \in Meant(m) : n = m /\ out[m] # 0
  BY <1>1 DEF Meant, TagsDistinct
<1>3. CASE Writable /\ Meant(m) # {}
  <2>1. Meant(m) = {m} /\ out' = Without(Meant(m))
    BY <1>2, <1>3 DEF Ack, Nack
  <2> QED
    BY <1>3, <2>1 DEF Without, Ack
<1>4. CASE Writable /\ Meant(m) = {} /\ ChannelError
  <2>1. CloseSub(Of[m])
    BY <1>1, <1>4 DEF ChannelError
  <2> QED
    BY <1>1, <2>1 DEF CloseSub, Without, For, TypeOK
<1>5. CASE ~Writable /\ UNCHANGED broker
  <2>1. sub[Of[m]] = "closed"
    BY <1>1, <1>5 DEF Writable, IsOpen
  <2> QED
    BY <1>1, <1>5, <2>1 DEF broker
<1> QED
  BY <1>3, <1>4, <1>5 DEF Ack, Nack


\* What a step of the handler of m does to the handlers, the memory and the
\* broker's side.
LEMMA HandlerStepEffect ==
  ASSUME TypeOK, TagsDistinct, AtHand, NEW m \in Messages, HandlerStep(m)
  PROVE  /\ Retreats /\ channel' = channel /\ slot[m] # "none"
         /\ \A n \in Messages \ {m} : slot'[n] = slot[n] /\ tag'[n] = tag[n]
         /\ slot'[m] # "none" => tag'[m] = tag[m]
         /\ slot'[m] = "acked" => slot[m] = "run" /\ Ack(m)
         /\ \A s \in Services \ {Of[m]} : known'[s] = known[s] /\ purged'[s] = purged[s]
<1>1. /\ slot[m] # "none" /\ channel' = channel
      /\ (\E place \in Slots : Goto(m, place)) \/ End(m)
  BY DEF HandlerStep, Discard, IgnoreDuplicate, Unusable, Invoke, Return, Raise,
         InternalServiceError, Finish, Slots, class
<1>2. UNCHANGED broker \/ Ack(m) \/ Nack(m)
  BY DEF HandlerStep, Discard, IgnoreDuplicate, Unusable, Invoke, Return, Raise,
         InternalServiceError, Finish
<1>3. Retreats
  <2>1. CASE UNCHANGED broker
    BY <1>1, <2>1, AmqpConstants DEF broker, Retreats, AtHand, TypeOK
  <2> QED
    BY <1>1, <1>2, <2>1, AnswerRetreats
<1>4. slot'[m] = "acked" => slot[m] = "run" /\ Ack(m)
  BY DEF HandlerStep, Discard, IgnoreDuplicate, Unusable, Invoke, Return, Raise,
         InternalServiceError, Finish, Goto, End, TypeOK
<1>5. /\ \A n \in Messages \ {m} : slot'[n] = slot[n] /\ tag'[n] = tag[n]
      /\ slot'[m] # "none" => tag'[m] = tag[m]
  BY <1>1 DEF Goto, End, TypeOK
<1>6. \A s \in Services \ {Of[m]} : known'[s] = known[s] /\ purged'[s] = purged[s]
  BY DEF HandlerStep, Discard, IgnoreDuplicate, Unusable, Invoke, Return, Raise,
         InternalServiceError, Finish, Remember, memory, TypeOK
<1> QED
  BY <1>1, <1>3, <1>4, <1>5, <1>6

\* What it does to the memory: it stays, the uuid of m is recorded, or that of a
\* running m is forgotten.
LEMMA HandlerStepMemory ==
  ASSUME TypeOK, CopiesApart, NEW m \in Messages, HandlerStep(m)
  PROVE  /\ purged[Of[m]] \subseteq purged'[Of[m]]
         /\ \/ UNCHANGED <<known, purged>>
            \/ /\ m \in Deduplicated /\ (Unusable(m) \/ Invoke(m))
               /\ Uuid[m] \in known'[Of[m]]
               /\ known'[Of[m]] \subseteq known[Of[m]] \cup {Uuid[m]}
               /\ known[Of[m]] \subseteq known'[Of[m]] \cup purged'[Of[m]]
            \/ /\ Kind[m] = "uuid" /\ InternalServiceError(m) /\ Nack(m)
               /\ known'[Of[m]] = known[Of[m]] \ {Uuid[m]} /\ purged' = purged
<1> USE DEF TypeOK
<1>1. Of[m] \in Services /\ Uuid[m] \in Messages
  BY AmqpConstants
<1>2. CASE UNCHANGED <<known, purged>>
  BY <1>2
<1>3. CASE m \in Deduplicated /\ (Unusable(m) \/ Invoke(m))
  <2>1. Remember(Of[m], Uuid[m]) /\ Uuid[m] \notin known[Of[m]]
    BY <1>3 DEF Unusable, Invoke, IsKnown
  <2>2. /\ Uuid[m] \in known'[Of[m]]
        /\ purged[Of[m]] \subseteq purged'[Of[m]]
        /\ known[Of[m]] \subseteq known'[Of[m]] \cup purged'[Of[m]]
    <3>1. \A t \in Services : /\ known[t] \cup purged[t] \subseteq known'[t] \cup purged'[t]
                              /\ purged[t] \subseteq purged'[t]
      BY <1>1, <2>1, RememberKeeps
    <3> QED
      BY <1>1, <2>1, <3>1, RememberKeeps
  <2>3. known'[Of[m]] \subseteq known[Of[m]] \cup {Uuid[m]}
    BY <1>1, <2>1 DEF Remember
  <2> QED
    BY <1>3, <2>2, <2>3
<1>4. CASE InternalServiceError(m) /\ ~UNCHANGED <<known, purged>>
  <2>1. /\ purged' = purged /\ Nack(m)
        /\ known' = [known EXCEPT ![Of[m]] = @ \ (IF Kind[m] = "uuid" THEN {Uuid[m]} ELSE {})]
    BY <1>4 DEF InternalServiceError
  <2>2. Kind[m] = "uuid"
    <3> SUFFICES ASSUME Kind[m] # "uuid" PROVE known' = known
      BY <1>4, <2>1
    <3>1. known[Of[m]] \ {} = known[Of[m]]
      OBVIOUS
    <3> QED
      BY <2>1, <3>1
  <2> QED
    BY <1>1, <1>4, <2>1, <2>2
<1> QED
  BY <1>2, <1>3, <1>4 DEF HandlerStep, Discard, IgnoreDuplicate, Unusable, Invoke, Return, Raise,
                          Finish, memory, Deduplicated

\* A handler that ends on the channel of its own service has answered, or it has
\* nothing left to answer, has ignored a copy, is given up, or lost its memory.
LEMMA HandlerEnds ==
  ASSUME TypeOK, TagsDistinct, CopiesApart, AtHand, NEW m \in Messages, HandlerStep(m),
         channel = Of[m], Unanswered(m)'
  PROVE  \/ Unusable(m)
         \/ IgnoreDuplicate(m)
         \/ Kind[m] = "uuid" /\ Uuid[m] \in purged'[Of[m]]
<1>1. slot[m] # "none" /\ out'[m] # 0 /\ slot'[m] = "none"
  BY HandlerStepEffect DEF Unanswered
<1>2. ~Ack(m) /\ ~Nack(m)
  BY <1>1, AnswerReaches
<1>3. ~Invoke(m)
  BY <1>1 DEF Invoke, Goto, TypeOK
<1>4. ~Finish(m)
  BY <1>1 DEF Finish, AtHand, broker
<1>5. CASE InternalServiceError(m)
  <2>1. /\ Kind[m] = "uuid" /\ Uuid[m] \notin known[Of[m]]
        /\ slot[m] \in {"run", "acked"} /\ purged' = purged
    BY <1>2, <1>5 DEF InternalServiceError
  <2> QED
    BY <2>1 DEF CopiesApart, Active
<1> QED
  BY <1>2, <1>3, <1>4, <1>5 DEF HandlerStep, Discard, Return, Raise


\* The steps of a handler keep the invariant, one conjunct at a time.
LEMMA HandlerAtHand ==
  ASSUME TypeOK, TagsDistinct, AtHand, NEW m \in Messages, HandlerStep(m)
  PROVE  AtHand'
<1>1. \A n \in Messages : Of[n] \in Services
  BY AmqpConstants
<1>2. /\ Retreats /\ channel' = channel /\ slot[m] # "none"
      /\ \A n \in Messages \ {m} : slot'[n] = slot[n] /\ tag'[n] = tag[n]
      /\ slot'[m] # "none" => tag'[m] = tag[m]
      /\ slot'[m] = "acked" => slot[m] = "run" /\ Ack(m)
      /\ \A s \in Services \ {Of[m]} : known'[s] = known[s]
  BY HandlerStepEffect
<1>3. slot'[m] = "acked" /\ channel' = Of[m] => out'[m] = 0
  BY <1>2, AnswerReaches
<1>4. sub'[Of[m]] \notin {"none", "open"}
  BY <1>1, <1>2 DEF AtHand, Retreats
<1>5. ASSUME NEW n \in Messages
      PROVE  /\ slot'[n] # "none" /\ out'[n] # 0 => out'[n] = tag'[n]
             /\ out'[n] # 0 => sub'[Of[n]] = "consuming" /\ n \in queue'
             /\ slot'[n] = "acked" /\ channel' = Of[n] => out'[n] = 0
             /\ sub'[Of[n]] \in {"none", "open"} => slot'[n] = "none"
  BY <1>1, <1>2, <1>3, <1>4 DEF AtHand, Retreats
<1>6. \A s \in Services : sub'[s] \in {"none", "open"} => known'[s] = {}
  BY <1>2, <1>4 DEF AtHand, Retreats
<1> QED
  BY <1>5, <1>6 DEF AtHand

LEMMA HandlerKnownByItself ==
  ASSUME TypeOK, TagsDistinct, CopiesApart, AtHand, KnownByItself, NEW m \in Messages, HandlerStep(m)
  PROVE  KnownByItself'
<1> SUFFICES ASSUME NEW n \in Messages, Kind[n] = "uuid", Copies(n) = {}, n \in queue',
                    Uuid[n] \in known'[Of[n]], Uuid[n] \notin purged'[Of[n]],
                    channel' = Of[n], sub'[Of[n]] # "closed"
             PROVE  slot'[n] = "run"
  BY DEF KnownByItself, Copies, Deduplicated
<1>1. Of[n] \in Services /\ Of[m] \in Services /\ n \in Deduplicated
  BY AmqpConstants DEF Deduplicated
<1>2. /\ Retreats /\ channel' = channel /\ slot[m] # "none"
      /\ \A k \in Messages \ {m} : slot'[k] = slot[k]
      /\ \A s \in Services \ {Of[m]} : known'[s] = known[s] /\ purged'[s] = purged[s]
  BY HandlerStepEffect
<1>3. n \in queue /\ channel = Of[n] /\ sub[Of[n]] # "closed" /\ Uuid[n] \notin purged[Of[n]]
  BY <1>1, <1>2, HandlerStepMemory DEF Retreats
<1>4. CASE n # m
  <2>1. m \in Deduplicated /\ Of[m] = Of[n] => Uuid[m] # Uuid[n]
    BY <1>1, <1>4 DEF Copies
  <2>2. Uuid[n] \in known[Of[n]]
    BY <1>1, <1>2, <2>1, HandlerStepMemory
  <2> QED
    BY <1>2, <1>3, <1>4, <2>2 DEF KnownByItself
<1>5. CASE n = m
  <2>1. CASE Ack(m)
    BY <1>2, <1>3, <1>5, <2>1, AnswerReaches
  <2>2. CASE Invoke(m)
    BY <1>5, <2>2 DEF Invoke, Goto, TypeOK
  <2>3. CASE IgnoreDuplicate(m) \/ Finish(m)
    <3>1. slot[m] # "run" /\ Uuid[m] \in known[Of[m]]
      BY <1>5, <2>3 DEF IgnoreDuplicate, Finish, memory
    <3> QED
      BY <1>3, <1>5, <3>1 DEF KnownByItself
  <2>4. CASE InternalServiceError(m)
    BY <1>1, <1>5, <2>4 DEF InternalServiceError, TypeOK
  <2>5. ~Unusable(m)
    BY <1>5 DEF Unusable
  <2> QED
    BY <2>1, <2>2, <2>3, <2>4, <2>5 DEF HandlerStep, Discard, Return, Raise
<1> QED
  BY <1>4, <1>5

LEMMA HandlerExcused ==
  ASSUME TypeOK, TagsDistinct, CopiesApart, AnswerInv, NEW m \in Messages, HandlerStep(m)
  PROVE  UnansweredExcused'
<1> SUFFICES ASSUME NEW n \in Messages, Unanswered(n)', ~(Kind[n] = "uuid" /\ Uuid[n] \in purged'[Of[n]]),
                    channel' = Of[n], Kind[n] # "unusable"
             PROVE  /\ Kind[n] = "uuid"
                    /\ \E k \in Copies(n) : Uuid[n] \in known'[Of[n]] \/ ~Unanswered(k)'
  BY DEF UnansweredExcused, Excused, Copies, Deduplicated
<1>1. /\ Of[n] \in Services /\ Of[m] \in Services
      /\ AtHand /\ KnownByItself /\ UnansweredExcused
  BY AmqpConstants DEF AnswerInv
<1>2. /\ Retreats /\ channel' = channel /\ slot[m] # "none"
      /\ \A k \in Messages \ {m} : slot'[k] = slot[k]
      /\ \A s \in Services \ {Of[m]} : known'[s] = known[s] /\ purged'[s] = purged[s]
  BY <1>1, HandlerStepEffect
<1>3. Kind[n] = "uuid" => Uuid[n] \notin purged[Of[n]]
  BY <1>1, <1>2, HandlerStepMemory
<1>4. CASE n = m
  <2>1. IgnoreDuplicate(m)
    BY <1>1, <1>2, <1>4, HandlerEnds DEF Unusable
  <2>2. Kind[m] = "uuid" /\ Uuid[m] \in known[Of[m]] /\ slot[m] = "raw" /\ UNCHANGED <<broker, memory>>
    BY <1>4, <2>1 DEF IgnoreDuplicate, Deduplicated, IsKnown
  <2>3. m \in queue /\ sub[Of[m]] = "consuming"
    BY <1>1, <1>4, <2>2 DEF AtHand, Unanswered, broker
  <2>4. Copies(m) # {}
    BY <1>1, <1>2, <1>3, <1>4, <2>2, <2>3 DEF KnownByItself
  <2> QED
    BY <1>4, <2>2, <2>4 DEF memory
<1>5. CASE n # m
  <2>1. Unanswered(n)
    BY <1>2, <1>5 DEF Unanswered, Retreats
  <2>2. /\ Kind[n] = "uuid"
        /\ \E k \in Copies(n) : Uuid[n] \in known[Of[n]] \/ ~Unanswered(k)
    BY <1>1, <1>2, <1>3, <2>1 DEF UnansweredExcused, Excused
  <2>3. \A k \in Copies(n) : k \in Messages /\ Of[k] = Of[n] /\ Uuid[k] = Uuid[n]
    BY DEF Copies, Deduplicated
  <2>4. CASE Uuid[n] \in known[Of[n]]
    <3>1. CASE Uuid[n] \in known'[Of[n]]
      BY <2>2, <3>1
    <3>2. CASE Uuid[n] \notin known'[Of[n]]
      <4>1. /\ Kind[m] = "uuid" /\ Nack(m) /\ Of[m] = Of[n] /\ Uuid[m] = Uuid[n]
        BY <1>1, <1>2, <2>2, <2>4, <3>2, HandlerStepMemory
      <4>2. m \in Copies(n)
        BY <1>5, <4>1 DEF Copies, Deduplicated
      <4>3. out'[m] = 0
        BY <1>1, <1>2, <4>1, AnswerReaches
      <4> QED
        BY <2>2, <4>2, <4>3 DEF Unanswered
    <3> QED
      BY <3>1, <3>2
  <2>5. ASSUME NEW k \in Copies(n), ~Unanswered(k)
        PROVE  Uuid[n] \in known'[Of[n]] \/ ~Unanswered(k)'
    <3>1. CASE k # m
      BY <1>2, <2>3, <2>5, <3>1 DEF Unanswered, Retreats
    <3>2. CASE k = m /\ Unanswered(k)'
      <4>1. m \in Deduplicated /\ Of[m] = Of[n] /\ Uuid[m] = Uuid[n]
        BY <3>2 DEF Copies
      <4>2. Unusable(m) \/ IgnoreDuplicate(m)
        BY <1>1, <1>2, <2>2, <3>2, <4>1, HandlerEnds
      <4>3. CASE Unusable(m)
        <5>1. ~UNCHANGED <<known, purged>> \/ Uuid[m] \in known'[Of[m]]
          BY <1>1, <4>1, <4>3, AmqpConstants, RememberKeeps DEF Unusable, IsKnown
        <5>2. ~InternalServiceError(m)
          BY <4>3 DEF Unusable, InternalServiceError
        <5> QED
          BY <4>1, <5>1, <5>2, HandlerStepMemory
      <4>4. CASE IgnoreDuplicate(m)
        BY <4>1, <4>4 DEF IgnoreDuplicate, IsKnown, memory
      <4> QED
        BY <4>2, <4>3, <4>4
    <3> QED
      BY <3>1, <3>2
  <2> QED
    BY <2>2, <2>4, <2>5
<1> QED
  BY <1>4, <1>5

LEMMA AnswerStep ==
  TypeOK /\ TagsDistinct /\ CopiesApart /\ AnswerInv /\ [Next]_vars => AnswerInv'
<1> SUFFICES ASSUME TypeOK, TagsDistinct, CopiesApart, AnswerInv, [Next]_vars PROVE AnswerInv'
  OBVIOUS
<1>1. AtHand /\ \A m \in Messages : Of[m] \in Services
  BY AmqpConstants DEF AnswerInv
<1>2. CASE UNCHANGED vars \/ OtherLost
  <2>1. UNCHANGED <<queue, out, sub, channel, slot, tag, known, purged>>
    BY <1>2 DEF vars, OtherLost, broker, class, handlers, memory
  <2>2. Retreats
    BY <1>1, <2>1 DEF Retreats, AtHand, TypeOK
  <2> QED
    BY <2>1, <2>2, RetreatKeeps
<1>3. ASSUME NEW s \in Services, ServiceStep(s) PROVE AnswerInv'
  BY <1>1, <1>3, ServiceStepRetreats, RetreatKeeps
<1>4. CASE Restart
  BY <1>4, AmqpConstants
     DEF Restart, AnswerInv, AtHand, KnownByItself, UnansweredExcused, Unanswered, Nothing, NoTag
<1>5. ASSUME NEW m \in Messages, Deliver(m) PROVE AnswerInv'
  <2>1. /\ slot[m] = "none" /\ sub[Of[m]] = "consuming" /\ m \in queue
        /\ out' = [out EXCEPT ![m] = next[Of[m]]]
        /\ tag' = [tag EXCEPT ![m] = next[Of[m]]]
        /\ slot' = [slot EXCEPT ![m] = "raw"]
        /\ UNCHANGED <<queue, sub, channel, known, purged>>
    BY <1>5 DEF Deliver, class, memory
  <2>2. AtHand'
    BY <1>1, <2>1 DEF AtHand, TypeOK
  <2>3. KnownByItself'
    BY <2>1 DEF AnswerInv, KnownByItself, TypeOK, Copies, Deduplicated
  <2>4. \A n \in Messages : Unanswered(n)' => Unanswered(n)
    BY <2>1 DEF Unanswered, TypeOK
  <2>5. \A n \in Messages : Excused(n) => Excused(n)'
    BY <2>1, <2>4 DEF Excused, Copies, Deduplicated
  <2> QED
    BY <2>2, <2>3, <2>4, <2>5 DEF AnswerInv, UnansweredExcused
<1>6. ASSUME NEW m \in Messages, HandlerStep(m) PROVE AnswerInv'
  BY <1>1, <1>6, HandlerAtHand, HandlerKnownByItself, HandlerExcused DEF AnswerInv
<1> QED
  BY <1>2, <1>3, <1>4, <1>5, <1>6 DEF Next

\* The handlers answer what they were given, on the channel the class holds: what
\* stays outstanding without a handler is unusable, or a copy of another message,
\* or was forgotten by a purge while it was being handled.
THEOREM AllAnswered == Spec => []EveryDeliveryAnswered
<1>1. Init => TypeOK /\ TagsDistinct /\ CopiesApart /\ AnswerInv
  <2> SUFFICES ASSUME Init PROVE TypeOK /\ TagsDistinct /\ CopiesApart /\ AnswerInv
    OBVIOUS
  <2>1. TypeOK
    BY InitType
  <2>2. TagsDistinct
    BY AmqpConstants DEF Init, TagsDistinct, NoTag
  <2>3. CopiesApart
    BY DEF Init, CopiesApart, Active, Nothing
  <2>4. AnswerInv
    BY AmqpConstants
       DEF Init, AnswerInv, AtHand, KnownByItself, UnansweredExcused, Unanswered, Nothing, NoTag
  <2> QED
    BY <2>1, <2>2, <2>3, <2>4
<1>2. AnswerInv => EveryDeliveryAnswered
  BY DEF AnswerInv, UnansweredExcused, Excused, EveryDeliveryAnswered, Copies
<1> QED
  BY <1>1, <1>2, TypeStep, TagStep, CopyStep, AnswerStep, PTL DEF Spec

=============================================================================
