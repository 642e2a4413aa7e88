----------------------------- MODULE AtLeastOnce -----------------------------
(* What a queue transport of tomodachi promises about a message, whatever the *)
(* broker: it leaves the broker only once some handler has run to its end for *)
(* it, or because it can never be given to a handler.                         *)
CONSTANTS Messages,     \* the messages published to the queue
          Discardable   \* those no handler can ever be invoked for

VARIABLES pending,      \* the messages the broker still owes
          handled       \* the messages a handler has completed for

vars == <<pending, handled>>

Init == /\ pending = Messages
        /\ handled = {}

\* A handler completes for a message, possibly not for the first time and
\* possibly after another consumer's completion removed the message.
Handle(m) == /\ handled' = handled \cup {m}
             /\ UNCHANGED pending

\* The broker forgets a message.
Remove(m) == /\ m \in pending
             /\ m \in handled \cup Discardable
             /\ pending' = pending \ {m}
             /\ UNCHANGED handled

\* A handler completes and removes its message in one go.
Finish(m) == /\ handled' = handled \cup {m}
             /\ pending' = pending \ {m}

Next == \E m \in Messages : Handle(m) \/ Remove(m) \/ Finish(m)

Spec == Init /\ [][Next]_vars

=============================================================================
