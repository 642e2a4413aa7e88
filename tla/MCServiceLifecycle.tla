------------------------- MODULE MCServiceLifecycle --------------------------
(* Instances of ServiceLifecycle for TLC.                                     *)
EXTENDS ServiceLifecycle, TLC

\* Two SQS consumers, a scheduled function, an HTTP server and an AMQP connection.
AllUnits == {"q1", "q2", "job", "web", "bus"}
AllTransport == ("q1" :> "sqs") @@ ("q2" :> "sqs") @@ ("job" :> "schedule")
                @@ ("web" :> "http") @@ ("bus" :> "amqp")
=============================================================================
