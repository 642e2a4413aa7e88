--------------------------- MODULE MCAmqpConsumer ----------------------------
(* Instances of AmqpConsumer for TLC.                                         *)
EXTENDS AmqpConsumer

\* Two copies of a message, an unusable and a malformed one, for one service.
MixedKind == <<"uuid", "uuid", "unusable", "malformed">>
MixedUuid == <<1, 1, 3, 4>>
MixedOf   == <<"a", "a", "a", "a">>

\* A message for each of two services.
PairKind == <<"plain", "plain">>
PairUuid == <<1, 2>>
PairOf   == <<"a", "b">>
=============================================================================
