-------------------------- MODULE MCApprovalBroker --------------------------
(* Small instance of ApprovalBroker for TLC. *)
EXTENDS ApprovalBroker, TLC

CONSTANTS c1, c2, c3, r1, r2, r3

\* Three calls of three runs; c1 and c3 carry the same approval id.
MCIdOf == (c1 :> "a") @@ (c2 :> "b") @@ (c3 :> "a")
MCRunOf == (c1 :> r1) @@ (c2 :> r2) @@ (c3 :> r3)
=============================================================================
