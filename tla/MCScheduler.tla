----------------------------- MODULE MCScheduler -----------------------------
(* Two services: one calls its function every second, and at once when it   *)
(* is started; the other has a timestamp, which the search finds again for  *)
(* a second after it has passed.                                            *)
EXTENDS Scheduler, TLC
CONSTANTS beat, stamp
MCEvery == beat :> 1 @@ stamp :> 5
MCBehind == beat :> 0 @@ stamp :> 1
=============================================================================
