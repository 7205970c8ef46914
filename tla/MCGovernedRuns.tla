---------------------------- MODULE MCGovernedRuns ----------------------------
(* Small instances of GovernedRuns: which todo a request names, and its turn key. *)
EXTENDS GovernedRuns, TLC

CONSTANTS q1, q2, t1, t2, k1, k2

OneRequest == q1 :> t1
ItsKey     == q1 :> k1
OneTodo    == (q1 :> t1) @@ (q2 :> t1)
OwnKeys    == (q1 :> k1) @@ (q2 :> k2)
===============================================================================
