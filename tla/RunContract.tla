----------------------------- MODULE RunContract -----------------------------
(***************************************************************************)
(* What the event log promises about a run (packages/contracts/src/        *)
(* index.ts): its status moves along TRANSITIONS only, and it is closed    *)
(* once, by the event that names the final status it has.                  *)
(***************************************************************************)
CONSTANT Runs

VARIABLES
    status,  \* the status the run's log shows, "none" before run.created
    closed   \* the final event the log holds, "none" before there is one

vars == <<status, closed>>

\* The RunStatus values and the TRANSITIONS table ('timed-out' is in the table,
\* and no code enters it).
Ended == {"completed", "failed", "cancelled", "timed-out", "needs-recovery"}

Transitions(s) ==
    CASE s = "created"          -> {"queued", "failed", "needs-recovery"}
      [] s = "queued"           -> {"planning", "cancelling", "failed", "needs-recovery"}
      [] s = "planning"         -> {"executing", "waiting-approval", "cancelling", "failed",
                                    "timed-out", "needs-recovery"}
      [] s = "executing"        -> {"planning", "waiting-approval", "cancelling", "completed",
                                    "failed", "timed-out", "needs-recovery"}
      [] s = "waiting-approval" -> {"executing", "cancelling", "failed", "timed-out",
                                    "needs-recovery"}
      [] s = "cancelling"       -> {"cancelled", "failed", "needs-recovery"}
      [] OTHER                  -> {}

Init ==
    /\ status = [r \in Runs |-> "none"]
    /\ closed = [r \in Runs |-> "none"]

Create(r) ==
    /\ status[r] = "none"
    /\ status' = [status EXCEPT ![r] = "created"]
    /\ UNCHANGED closed

Move(r) ==
    /\ \E to \in Transitions(status[r]) : status' = [status EXCEPT ![r] = to]
    /\ UNCHANGED closed

Close(r) ==
    /\ status[r] \in Ended
    /\ closed[r] = "none"
    /\ closed' = [closed EXCEPT ![r] = status[r]]
    /\ UNCHANGED status

Next == \E r \in Runs : Create(r) \/ Move(r) \/ Close(r)

Spec == Init /\ [][Next]_vars
=============================================================================
