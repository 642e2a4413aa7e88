----------------------------- MODULE AmqpConsumer ----------------------------
(* The receiving side of tomodachi/transport/amqp.py in one process, which may *)
(* run several services.  Each service subscribes on a channel of its own, but *)
(* sends its acknowledgements on cls.channel, which all services share and a   *)
(* publish may replace.                                                        *)
(*                                                                             *)
(* The broker is external.  It numbers the deliveries of each channel, takes   *)
(* back what is outstanding on a channel that closes, and closes a channel on  *)
(* which it is told of a delivery that is not outstanding there.               *)
EXTENDS Integers, FiniteSets

CONSTANTS
    Services,    \* the services of the process
    Messages,    \* the messages published to their queues
    Of,          \* Messages -> the service each is for
    Kind,        \* Messages -> how the handler can treat each of them
    Uuid,        \* Messages -> the message_uuid of its envelope
    Prefetch,    \* qos.queue_prefetch_count
    CacheLimit,  \* size at which the remembered uuids are purged: 100000
    MaxTag       \* bound on the deliveries of one channel

Kinds == {"malformed",  \* the envelope raises, or finds no message
          "unusable",   \* a uuid, but a message that is not a dict (a body that is
                        \* not UTF-8 raises before and is not answered either)
          "plain",      \* no envelope or no uuid: never deduplicated
          "uuid"}       \* handled and deduplicated by its uuid

ASSUME AmqpConstants ==
    /\ Messages \subseteq Nat /\ IsFiniteSet(Messages)
    /\ Of \in [Messages -> Services]
    /\ Kind \in [Messages -> Kinds]
    /\ Uuid \in [Messages -> Messages]
    /\ {Prefetch, MaxTag} \subseteq Nat \ {0}
    /\ CacheLimit \in Nat

ASSUME ChannelsOfServices == {"none", "other"} \cap Services = {}

VARIABLES
    queue,      \* messages the broker has
    out,        \* tag under which a message is outstanding on the channel of
                \* its service, or 0
    next,       \* next delivery tag of the channel of a service
    sub,        \* the channel a service subscribed on
    otherOpen,  \* is the channel of the latest reconnect open
    phase,      \* where the start and the stop of a service are
    hooked,     \* has connect wrapped the _stop_service of a service
    protocol,   \* cls.protocol: the connection of a service, or a later one
    channel,    \* cls.channel
    publisher,  \* the connect under way for a publish of a service
    slot,       \* where the handler of a message is
    tag,        \* the delivery_tag it was called with, or 0
    known,      \* _amqp_received_messages of a service
    old,        \* those recorded more than 60 seconds ago
    purged,     \* history: uuids a purge has dropped
    settled     \* history: messages a handler has ended for, other than with
                \* an internal service error

broker == <<queue, out, next, sub, otherOpen>>
start  == <<phase, hooked>>
class  == <<protocol, channel, publisher>>
handlers == <<slot, tag>>
memory == <<known, old, purged>>
vars   == <<broker, start, class, handlers, memory, settled>>

Phases == {"starting", "connecting", "opening", "up", "closing", "stopped"}
Slots  == {"none", "raw", "run", "acked"}
Channels == Services \cup {"none", "other"}

Discardable  == {m \in Messages : Kind[m] = "malformed"}
Deduplicated == {m \in Messages : Kind[m] \in {"unusable", "uuid"}}

Nowhere == [s \in Services |-> "none"]
Nothing == [s \in Services |-> {}]
NoTag   == [m \in Messages |-> 0]

Init ==
    /\ queue = Messages /\ out = NoTag /\ settled = {}
    /\ next = [s \in Services |-> 1]
    /\ sub = Nowhere /\ otherOpen = FALSE
    /\ phase = [s \in Services |-> "starting"]
    /\ hooked = [s \in Services |-> FALSE]
    /\ publisher = [s \in Services |-> "idle"]
    /\ protocol = "none" /\ channel = "none"
    /\ slot = [m \in Messages |-> "none"] /\ tag = NoTag
    /\ known = Nothing /\ old = Nothing /\ purged = Nothing

-----------------------------------------------------------------------------
(* The broker.                                                                *)

For(s)         == {m \in Messages : Of[m] = s}
Outstanding(s) == {m \in For(s) : out[m] # 0}

\* out, without the messages in ms.
Without(ms) == [m \in Messages |-> IF m \in ms THEN 0 ELSE out[m]]

IsOpen(s) == sub[s] \in {"open", "consuming"}

\* The subscribed channel of s closes, its deliveries return to the queue.
CloseSub(s) ==
    /\ sub' = [sub EXCEPT ![s] = "closed"]
    /\ out' = Without(For(s))

\* A message that waits is handed out.
Deliver(m) ==
    LET s == Of[m] IN
    /\ sub[s] = "consuming"
    /\ m \in queue /\ out[m] = 0
    /\ slot[m] = "none"
    /\ Cardinality(Outstanding(s)) < Prefetch
    /\ next[s] <= MaxTag
    /\ out' = [out EXCEPT ![m] = next[s]]
    /\ tag' = [tag EXCEPT ![m] = next[s]]
    /\ next' = [next EXCEPT ![s] = @ + 1]
    /\ slot' = [slot EXCEPT ![m] = "raw"]
    /\ UNCHANGED <<queue, sub, otherOpen, start, class, memory, settled>>

\* The connection of a subscribed channel is lost.
Lost(s) ==
    /\ IsOpen(s)
    /\ CloseSub(s)
    /\ UNCHANGED <<queue, next, otherOpen, start, class, handlers, memory, settled>>

\* The later connection is lost.
OtherLost ==
    /\ otherOpen
    /\ otherOpen' = FALSE
    /\ UNCHANGED <<queue, out, next, sub, start, class, handlers, memory, settled>>

\* Can cls.channel be written to?  Writing to None or to a closed channel raises.
Writable ==
    \/ channel \in Services /\ IsOpen(channel)
    \/ channel = "other" /\ otherOpen

\* What the broker finds outstanding on cls.channel under the tag of m.
Meant(m) == {n \in Messages : Of[n] = channel /\ out[n] = tag[m]}

\* Nothing: it closes cls.channel.
ChannelError ==
    /\ IF channel = "other"
       THEN otherOpen' = FALSE /\ UNCHANGED <<out, sub>>
       ELSE CloseSub(channel) /\ UNCHANGED otherOpen
    /\ UNCHANGED <<queue, next>>

\* basic_client_ack with the tag of m on cls.channel.
Ack(m) ==
    \/ /\ Writable /\ Meant(m) # {}
       /\ queue' = queue \ Meant(m)
       /\ out' = Without(Meant(m))
       /\ UNCHANGED <<next, sub, otherOpen>>
    \/ Writable /\ Meant(m) = {} /\ ChannelError
    \/ ~Writable /\ UNCHANGED broker

\* basic_client_nack: the message returns to the queue.
Nack(m) ==
    \/ /\ Writable /\ Meant(m) # {}
       /\ out' = Without(Meant(m))
       /\ UNCHANGED <<queue, next, sub, otherOpen>>
    \/ Writable /\ Meant(m) = {} /\ ChannelError
    \/ ~Writable /\ UNCHANGED broker

-----------------------------------------------------------------------------
(* Connecting: by subscribe when a service starts, by publish when there is no *)
(* channel or the channel turns out to be closed.  connect sets cls.protocol   *)
(* when the connection stands and cls.channel once it has opened a channel;    *)
(* the user's _start_service may publish at the same time.                     *)

Subscribe(s) ==
    /\ phase[s] = "starting"
    /\ phase' = [phase EXCEPT ![s] = "connecting"]
    /\ channel' = "none"
    /\ UNCHANGED <<broker, hooked, protocol, publisher, handlers, memory, settled>>

Connect(s) ==
    /\ phase[s] = "connecting"
    /\ phase' = [phase EXCEPT ![s] = "opening"]
    /\ protocol' = s
    /\ UNCHANGED <<broker, hooked, channel, publisher, handlers, memory, settled>>

\* The _stop_service of s is wrapped, unless the class has a channel by now.
Hook(s) == hooked' = [hooked EXCEPT ![s] = @ \/ channel = "none"]

\* Unless another service has closed the new connection in the meantime.
OpenChannel(s) ==
    /\ phase[s] = "opening" /\ sub[s] = "none"
    /\ phase' = [phase EXCEPT ![s] = "up"]
    /\ sub' = [sub EXCEPT ![s] = "open"]
    /\ Hook(s)
    /\ channel' = s
    /\ UNCHANGED <<queue, out, next, otherOpen, protocol, publisher, handlers,
                   memory, settled>>

\* The queue is declared and consumed, on the channel subscribe was returned.
Consume(s) ==
    /\ phase[s] = "up" /\ sub[s] = "open"
    /\ sub' = [sub EXCEPT ![s] = "consuming"]
    /\ UNCHANGED <<queue, out, next, otherOpen, start, class, handlers, memory,
                   settled>>

\* Bound: one publish connects at a time.
Publish(s) ==
    /\ phase[s] # "starting" /\ ~Writable
    /\ \A t \in Services : publisher[t] = "idle"
    /\ publisher' = [publisher EXCEPT ![s] = "connecting"]
    /\ UNCHANGED <<broker, start, protocol, channel, handlers, memory, settled>>

Reconnect(s) ==
    /\ publisher[s] = "connecting"
    /\ publisher' = [publisher EXCEPT ![s] = "opening"]
    /\ protocol' = "other"
    /\ UNCHANGED <<broker, start, channel, handlers, memory, settled>>

OpenOther(s) ==
    /\ publisher[s] = "opening"
    /\ publisher' = [publisher EXCEPT ![s] = "idle"]
    /\ Hook(s)
    /\ channel' = "other"
    /\ otherOpen' = TRUE
    /\ UNCHANGED <<queue, out, next, sub, phase, protocol, handlers, memory, settled>>

\* The broker cannot be reached or the connection is closed, publish raises.
ConnectFails(s) ==
    /\ publisher[s] # "idle"
    /\ publisher' = [publisher EXCEPT ![s] = "idle"]
    /\ UNCHANGED <<broker, start, protocol, channel, handlers, memory, settled>>

-----------------------------------------------------------------------------
(* Stopping, when the _stop_service of the service was wrapped.  cls.protocol  *)
(* is closed, whichever connection that is, and then forgotten.  When it is    *)
(* None or closed, closing raises and nothing more happens.                    *)

CloseProtocol ==
    IF protocol = "other"
    THEN /\ otherOpen' = FALSE
         /\ publisher' = [s \in Services |-> IF publisher[s] = "opening"
                                             THEN "idle" ELSE publisher[s]]
         /\ UNCHANGED <<out, sub>>
    ELSE CloseSub(protocol) /\ UNCHANGED <<otherOpen, publisher>>

Stop(s) ==
    /\ phase[s] = "up" /\ hooked[s] /\ protocol # "none"
    /\ phase' = [phase EXCEPT ![s] = "closing"]
    /\ CloseProtocol
    /\ UNCHANGED <<queue, next, hooked, protocol, channel, handlers, memory, settled>>

\* The stop raises, or does nothing about AMQP.
StopRaises(s) ==
    /\ phase[s] = "up"
    /\ \/ ~hooked[s] \/ protocol = "none"
       \/ protocol = "other" /\ ~otherOpen
       \/ protocol \in Services /\ sub[protocol] = "closed"
    /\ phase' = [phase EXCEPT ![s] = "stopped"]
    /\ UNCHANGED <<broker, hooked, class, handlers, memory, settled>>

Stopped(s) ==
    /\ phase[s] = "closing"
    /\ phase' = [phase EXCEPT ![s] = "stopped"]
    /\ channel' = "none"
    /\ protocol' = "none"
    /\ UNCHANGED <<broker, hooked, publisher, handlers, memory, settled>>

\* The process ends, after its stop or in the middle of anything, and another
\* one is started.
Restart ==
    /\ \E s \in Services : phase[s] # "starting"
    /\ out' = NoTag /\ UNCHANGED <<queue, settled>>
    /\ next' = [s \in Services |-> 1]
    /\ sub' = Nowhere /\ otherOpen' = FALSE
    /\ phase' = [s \in Services |-> "starting"]
    /\ hooked' = [s \in Services |-> FALSE]
    /\ publisher' = [s \in Services |-> "idle"]
    /\ protocol' = "none" /\ channel' = "none"
    /\ slot' = [m \in Messages |-> "none"] /\ tag' = NoTag
    /\ known' = Nothing /\ old' = Nothing /\ purged' = Nothing

-----------------------------------------------------------------------------
(* The handler.                                                               *)

Goto(m, place) == slot' = [slot EXCEPT ![m] = place] /\ UNCHANGED tag
End(m) == slot' = [slot EXCEPT ![m] = "none"] /\ tag' = [tag EXCEPT ![m] = 0]

\* A minute passes.
Minute(s) ==
    /\ old[s] # known[s]
    /\ old' = [old EXCEPT ![s] = known[s]]
    /\ UNCHANGED <<broker, start, class, handlers, known, purged, settled>>

\* A uuid is recorded; when there are too many, the old ones are dropped.
Remember(s, u) ==
    LET all == known[s] \cup {u} IN
    IF Cardinality(all) > CacheLimit
    THEN /\ known' = [known EXCEPT ![s] = all \ old[s]]
         /\ old' = [old EXCEPT ![s] = {}]
         /\ purged' = [purged EXCEPT ![s] = @ \cup old[s]]
    ELSE known' = [known EXCEPT ![s] = all] /\ UNCHANGED <<old, purged>>

IsKnown(m) == Uuid[m] \in known[Of[m]]

Discard(m) ==
    /\ slot[m] = "raw" /\ Kind[m] = "malformed"
    /\ Ack(m)
    /\ End(m)
    /\ UNCHANGED <<start, class, memory, settled>>

\* A uuid that is remembered: the handler returns, and answers nothing.
IgnoreDuplicate(m) ==
    /\ slot[m] = "raw" /\ m \in Deduplicated /\ IsKnown(m)
    /\ End(m)
    /\ UNCHANGED <<broker, start, class, memory, settled>>

\* The arguments cannot be taken from the message: nothing is answered either.
Unusable(m) ==
    /\ slot[m] = "raw" /\ Kind[m] = "unusable" /\ ~IsKnown(m)
    /\ Remember(Of[m], Uuid[m])
    /\ End(m)
    /\ UNCHANGED <<broker, start, class, settled>>

\* Mutant of Invoke: the uuid is looked up and not recorded.
InvokeUnrecorded(m) ==
    /\ slot[m] = "raw" /\ Kind[m] \in {"plain", "uuid"} /\ ~IsKnown(m)
    /\ Goto(m, "run")
    /\ UNCHANGED <<broker, start, class, memory, settled>>

\* The middlewares and the decorated function are invoked.
Invoke(m) ==
    /\ slot[m] = "raw" /\ Kind[m] \in {"plain", "uuid"}
    /\ IF m \in Deduplicated
       THEN ~IsKnown(m) /\ Remember(Of[m], Uuid[m])
       ELSE UNCHANGED memory
    /\ Goto(m, "run")
    /\ UNCHANGED <<broker, start, class, settled>>

\* The function returns.  An ack that raises is repeated at once and raises again.
Return(m) ==
    /\ slot[m] = "run"
    /\ settled' = settled \cup {m}
    /\ Ack(m)
    /\ IF Writable THEN Goto(m, "acked") ELSE End(m)
    /\ UNCHANGED <<start, class, memory>>

\* The function raises, or a middleware does, maybe after the acknowledgement,
\* which is then sent once more.
Raise(m) ==
    /\ slot[m] \in {"run", "acked"}
    /\ settled' = settled \cup {m}
    /\ Ack(m)
    /\ End(m)
    /\ UNCHANGED <<start, class, memory>>

\* Mutant of InternalServiceError: the message is acknowledged, not returned.
InternalServiceErrorAcks(m) ==
    /\ slot[m] \in {"run", "acked"}
    /\ Ack(m)
    /\ End(m)
    /\ UNCHANGED <<start, class, memory, settled>>

\* Mutant of InternalServiceError: the uuid is forgotten, the message kept.
InternalServiceErrorKeeps(m) ==
    /\ slot[m] \in {"run", "acked"}
    /\ known' = [known EXCEPT ![Of[m]] = @ \ {Uuid[m]}]
    /\ old' = [old EXCEPT ![Of[m]] = @ \ {Uuid[m]}]
    /\ End(m)
    /\ UNCHANGED <<broker, start, class, purged, settled>>

\* The function or a middleware raises an internal service error.  The uuid is
\* forgotten and the message returned; if a purge was faster, forgetting it
\* raises KeyError and the message is not answered.
InternalServiceError(m) ==
    LET uuids == IF Kind[m] = "uuid" THEN {Uuid[m]} ELSE {} IN
    /\ slot[m] \in {"run", "acked"}
    /\ \/ /\ uuids \subseteq known[Of[m]]
          /\ known' = [known EXCEPT ![Of[m]] = @ \ uuids]
          /\ old' = [old EXCEPT ![Of[m]] = @ \ uuids]
          /\ Nack(m)
       \/ /\ ~(uuids \subseteq known[Of[m]])
          /\ UNCHANGED <<broker, known, old>>
    /\ End(m)
    /\ UNCHANGED <<start, class, purged, settled>>

\* The middlewares around the function return too.
Finish(m) ==
    /\ slot[m] = "acked"
    /\ End(m)
    /\ UNCHANGED <<broker, start, class, memory, settled>>

-----------------------------------------------------------------------------

ServiceStep(s) ==
    \/ Subscribe(s) \/ Connect(s) \/ OpenChannel(s) \/ Consume(s)
    \/ Publish(s) \/ Reconnect(s) \/ OpenOther(s) \/ ConnectFails(s)
    \/ Stop(s) \/ StopRaises(s) \/ Stopped(s)
    \/ Lost(s) \/ Minute(s)

HandlerStep(m) ==
    \/ Discard(m) \/ IgnoreDuplicate(m) \/ Unusable(m)
    \/ Invoke(m) \/ Return(m) \/ Raise(m)
    \/ InternalServiceError(m) \/ Finish(m)

Next ==
    \/ \E s \in Services : ServiceStep(s)
    \/ OtherLost \/ Restart
    \/ \E m \in Messages : Deliver(m) \/ HandlerStep(m)

Spec == Init /\ [][Next]_vars

-----------------------------------------------------------------------------
(* Properties.                                                                *)

\* Every variable stays within its type.
TypeOK ==
    /\ queue \subseteq Messages
    /\ out \in [Messages -> 0..MaxTag]
    /\ tag \in [Messages -> 0..MaxTag]
    /\ next \in [Services -> 1..(MaxTag + 1)]
    /\ sub \in [Services -> {"none", "open", "consuming", "closed"}]
    /\ otherOpen \in BOOLEAN
    /\ phase \in [Services -> Phases]
    /\ protocol \in Channels
    /\ channel \in Channels
    /\ hooked \in [Services -> BOOLEAN]
    /\ publisher \in [Services -> {"idle", "connecting", "opening"}]
    /\ slot \in [Messages -> Slots]
    /\ known \in [Services -> SUBSET Messages]
    /\ old \in [Services -> SUBSET Messages]
    /\ purged \in [Services -> SUBSET Messages]
    /\ settled \subseteq Messages

\* A process with one service keeps the promise of a queue transport, although
\* it answers on whatever channel the class holds, twice when a middleware raises
\* late, and although channels close and processes end at any moment.
Promise == INSTANCE AtLeastOnce WITH pending <- queue, handled <- settled
ImplementsAtLeastOnce == Promise!Spec

\* Not so with two services in a process: the README on the decorator, the method
\* is "called whenever a AMQP / RabbitMQ message is received".  A handler that
\* answers on the channel of the other service removes a message nobody handled.
HandledBeforeRemoved == Messages \ queue \subseteq settled \cup Discardable

\* Copies of a message are not handled side by side in a service, unless the
\* memory of the first was purged.
OneHandlerPerUuid ==
    \A m, n \in Messages :
        /\ m # n /\ Of[m] = Of[n] /\ Uuid[m] = Uuid[n]
        /\ {Kind[m], Kind[n]} = {"uuid"}
        /\ {slot[m], slot[n]} = {"run"}
        => Uuid[m] \in purged[Of[m]]

Unanswered(m) == out[m] # 0 /\ slot[m] = "none"

\* The handlers answer what they were given: a delivery stays outstanding without
\* a handler only if it is unusable or a copy of a message that is remembered, or
\* has another copy that is answered or in a handler's hands.  It may also do so
\* when the class holds another channel by now, and when a purge dropped the uuid
\* while it was being handled.
EveryDeliveryAnswered ==
    \A m \in Messages : Unanswered(m) =>
        \/ channel # Of[m]
        \/ Kind[m] = "unusable"
        \/ Kind[m] = "uuid" /\ Uuid[m] \in purged[Of[m]]
        \/ \E n \in Deduplicated \ {m} :
              /\ Of[n] = Of[m] /\ Uuid[n] = Uuid[m]
              /\ Uuid[m] \in known[Of[m]] \/ ~Unanswered(n)

=============================================================================
