--------------------------- MODULE MCSqsConsumer ----------------------------
(* Instances of SqsConsumer for TLC.                                          *)
EXTENDS SqsConsumer, TLC

CONSTANTS c1, c2

Symmetric == Permutations({c1, c2})

\* An ordered group.
GroupKind == <<"malformed", "discard", "uuid", "plain", "unusable">>
GroupUuid == <<1, 2, 3, 4, 5>>
=============================================================================
