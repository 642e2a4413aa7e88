----------------------------- MODULE MCAwsCalls ------------------------------
(* Instances of AwsCalls for TLC.                                             *)
EXTENDS AwsCalls, TLC
CONSTANTS p1, p2, p3
MCKinds == {(p1 :> "publish") @@ (p2 :> k) : k \in {"send", "delete"}}
=============================================================================
