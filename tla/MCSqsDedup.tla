----------------------------- MODULE MCSqsDedup ------------------------------
(* An instance of SqsDedup for TLC: two messages, and one that the receive    *)
(* loop cannot use.                                                           *)
EXTENDS SqsDedup

UuidOrUnusable == <<"uuid", "uuid", "unusable">>
EachItsOwn == <<1, 2, 3>>
=============================================================================
