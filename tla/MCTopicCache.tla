---------------------------- MODULE MCTopicCache -----------------------------
(* Instances of TopicCache for TLC.                                           *)
EXTENDS TopicCache

CONSTANTS p1, p2, p3
=============================================================================
