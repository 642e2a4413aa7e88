-------------------------- MODULE MCSqsSubscription --------------------------
(* Two processes of a service with a function for one topic; or one process  *)
(* whose service also has a function for a pattern that matches two topics,   *)
(* on a queue that it names by its ARN; or one whose second function, without *)
(* a topic, consumes the dead-letter queue of the first.                      *)
EXTENDS SqsSubscription
CONSTANTS a, b, dead, t1, t2, t3, p1, p2
MCNew == [policy |-> {}, visibility |-> "30", redrive |-> Off, kms |-> Off]
MCSettings == {[policy |-> {t1}, visibility |-> "0", redrive |-> dead, kms |-> "key"]}
MCOne == [queue |-> a, byArn |-> FALSE, wildcard |-> FALSE, topics |-> {t1}, filter |-> "new",
          visibility |-> "60", kms |-> Unset, redrive |-> dead]
MCTwo == [queue |-> b, byArn |-> FALSE, wildcard |-> TRUE, topics |-> {t2, t3}, filter |-> Unset,
          visibility |-> Unset, kms |-> Off, redrive |-> Off]
MCArn == [MCTwo EXCEPT !.byArn = TRUE]
MCPlain == [MCOne EXCEPT !.redrive = Off]
MCBare == [MCOne EXCEPT !.queue = dead, !.topics = {}, !.redrive = Off]
MCDeployments == {[x \in {p1, p2} |-> <<MCOne>>],
                  [x \in {p1, p2} |-> IF x = p1 THEN <<MCPlain, MCArn>> ELSE <<>>],
                  [x \in {p1, p2} |-> IF x = p1 THEN <<MCOne, MCBare>> ELSE <<>>]}
\* A deployment for FilterApplied, which the decorator's pattern violates.
MCFiltered == {[x \in {p1} |-> <<[MCTwo EXCEPT !.filter = "new"]>>]}
MCPages == <<{t1, t2, t3}>>
=============================================================================
