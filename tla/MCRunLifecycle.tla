--------------------------- MODULE MCRunLifecycle ---------------------------
(* Small instance of RunLifecycle for TLC. *)
EXTENDS RunLifecycle, TLC

CONSTANTS r1, r2

MCKinds == {"modelCalls"}
MCCapacity == [k \in MCKinds |-> 2]

\* Two runs of one workspace, both allowed to write to it.
MCRequest ==
    [r \in {r1, r2} |->
        [run |-> r, workspace |-> "w", access |-> "write",
         priority |-> "background", need |-> [k \in MCKinds |-> 1]]]

=============================================================================
