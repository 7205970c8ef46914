-------------------------- MODULE MCApprovalReview --------------------------
(* Small instance of ApprovalReview for TLC. *)
EXTENDS ApprovalReview, TLC

CONSTANTS c1, c2, r1, k1

\* Two requests of one run with one key: they share a review, or its cached answer.
MCIdOf == (c1 :> "i1") @@ (c2 :> "i2")
MCRunOf == (c1 :> r1) @@ (c2 :> r1)
MCKeyOf == (c1 :> k1) @@ (c2 :> k1)
MCPostureOf == (r1 :> "auto")
=============================================================================
