---------------------------- MODULE GovernedRuns ----------------------------
(***************************************************************************)
(* Governed runs of one goal: the saga that admits a run (goal-admission.ts*)
(* and RunManager.start), the writeback that settles it when it has ended  *)
(* (goal-writeback.ts), the monitor that retries it (goal-recovery-monitor *)
(* .ts) and the start of the daemon (main.ts), which reconciles both logs. *)
(* The goal's log and the runs' logs survive a crash; nothing else does,   *)
(* and no transaction spans the two.  A step ends where the code awaits an *)
(* append: a crash falls between any two, and so may another caller.       *)
(***************************************************************************)
EXTENDS GoalControl, FiniteSets

CONSTANTS
  Clients,                \* connections that admit and retry, one request at a time
  Monitor,                \* the recovery monitor's own caller
  MaxAutoRetriesPerTodo,  \* maxAutoRetriesPerTodo of main.ts
  MaxFaults               \* bound: crashes of the daemon and appends refused as stale, together

ASSUME CallersAssumption == Monitor \notin Clients /\ MaxFaults \in Nat

Callers == Clients \cup {Monitor}

VARIABLES
  p,         \* the projection of goal_events
  run,       \* what RunManager and run_events know of the request's run
  announced, \* runs whose log holds run.completed, run.failed or run.needs_recovery
  caller,    \* what each caller does
  job,       \* runLocks: who holds the lock of a run
  live,      \* terminal events RunManager has published and no writeback job has taken
  rec,       \* the reconciliation under way
  daemon, faults

vars == <<p, run, announced, caller, job, live, rec, daemon, faults>>

Idle == [pc |-> "idle", id |-> Nobody, rev |-> 0, todo |-> Nobody, attempt |-> 0, of |-> Nobody]
NoReconciliation == [for |-> "none", left |-> {}]

\* "starting" is RunManager.start() waiting for the memory recall: the run id is taken, and
\* nothing logged. "leaked": start() threw there, and the id stays taken.
Logged(i) == run[i] \notin {"none", "starting", "leaked"}
\* "completing" and "failing": the status is logged, the terminal event is not.
EndedUnhappily(i) == run[i] \in {"failing", "failed", "needs-recovery"}

Init ==
  /\ p = Empty
  /\ run = [i \in Ids |-> "none"] /\ announced = {}
  /\ caller = [c \in Callers |-> Idle]
  /\ job = [i \in Ids |-> "none"] /\ live = {}
  /\ rec = NoReconciliation /\ daemon = "up" /\ faults = 0

Goto(c, r) == caller' = [caller EXCEPT ![c] = r]

\* The caller is answered, or refused: a retry then gives the old run's lock back.
Leave(c) ==
  /\ Goto(c, Idle)
  /\ job' = IF caller[c].of = Nobody THEN job ELSE [job EXCEPT ![caller[c].of] = "none"]

\* The run exists: a retry has its creation recorded, under the lock.
Answer(c) ==
  IF caller[c].of = Nobody THEN Leave(c) ELSE Goto(c, [caller[c] EXCEPT !.pc = "record"]) /\ UNCHANGED job

\* STALE_REVISION: who reads the goal and then appends, without the goal's lock in between, is
\* refused if somebody else has appended meanwhile. Nobody else does while the daemon starts.
Refused ==
  /\ daemon = "up" /\ faults < MaxFaults
  /\ faults' = faults + 1
  /\ UNCHANGED p

-----------------------------------------------------------------------------
(* GoalAdmissionService.admit(). *)

\* assertGoalState() and selectTodo(); whether anything else refuses (gates, claim,
\* capabilities, scheduler, workspace, sandbox) is left open.
Admissible(i, todo) ==
  /\ TurnKey(i) \notin SpentKeys(p)
  /\ ~\E j \in Ids : p.quota[j] = "reserved" /\ TurnKey(j) = TurnKey(i)
  /\ p.done[todo] = Nobody

\* A client sends a request whose id has no binding, with the current revision. Clients
\* number their attempts as they like; here they say 1.
Admit(c, i) ==
  /\ daemon = "up" /\ p.replays /\ caller[c] = Idle
  /\ ~IsBound(p, i) /\ Admissible(i, TodoOf[i])
  /\ Goto(c, [pc |-> "admit", id |-> i, rev |-> p.rev, todo |-> TodoOf[i], attempt |-> 1, of |-> Nobody])
  /\ UNCHANGED <<p, run, announced, job, live, rec, daemon, faults>>

\* The revision a caller expects when it goes on; from "start" on it needs none.
Expected(pc, q) == IF pc = "start" THEN 0 ELSE q.rev

\* A client sends a request again that is bound: the saga goes on where it stopped.
AdmitAgain(c, i) ==
  /\ daemon = "up" /\ p.replays /\ caller[c] = Idle
  /\ IsBound(p, i) /\ ~Logged(i) /\ p.quota[i] \in {"none", "reserved"}
  /\ \E pc \in {"reserve", "start"} :
       /\ pc = "reserve" <=> p.quota[i] = "none"
       /\ Goto(c, [pc |-> pc, id |-> i, rev |-> Expected(pc, p), todo |-> p.binding[i].todo,
                   attempt |-> p.binding[i].attempt, of |-> Nobody])
  /\ UNCHANGED <<p, run, announced, job, live, rec, daemon, faults>>

\* One append of the saga: the first time under the revision it expects, later as a no-op.
\* `at` is the revision under which the log has the event, `new` the log with it, `then`
\* where the caller goes on; without either the request is refused.
Append(c, at, new, then) ==
  LET me == caller[c]
      on(q) == p' = q /\ Goto(c, [me EXCEPT !.pc = then, !.rev = Expected(then, q)]) /\ UNCHANGED job
  IN
  /\ \/ p.replays /\ at = Nobody /\ me.rev = p.rev /\ on(new)
     \/ p.replays /\ at # Nobody /\ Repeats(at, me.rev, TRUE) /\ on(p)
     \/ /\ \/ ~p.replays
           \/ IF at = Nobody THEN me.rev # p.rev ELSE ~Repeats(at, me.rev, FALSE)
        /\ Leave(c) /\ UNCHANGED p
  /\ UNCHANGED <<run, announced, live, rec, daemon, faults>>

Admission(c) ==
  /\ caller[c].pc = "admit"
  /\ Append(c, p.admission[caller[c].id], RecordAdmission(p, caller[c].id), "bind")

\* Mutant: the reservation is left for later.
AfterBindingNothing(i) == "start"

AfterBinding(i) == IF p.quota[i] = "none" THEN "reserve" ELSE "start"

Binding(c) ==
  LET me == caller[c] IN
  /\ me.pc = "bind"
  /\ Append(c, IF IsBound(p, me.id) THEN p.binding[me.id].since ELSE Nobody,
            CreateBinding(p, me.id, me.todo, me.attempt, me.of), AfterBinding(me.id))

Reservation(c) ==
  /\ caller[c].pc = "reserve"
  /\ Append(c, p.reserved[caller[c].id], ReserveQuota(p, caller[c].id), "start")

\* RunManager.start(). It may refuse before it takes the id; a taken id is a conflict,
\* which is an answer if the run is logged and a failure if it is not.
Start(c) ==
  LET me == caller[c]  i == me.id IN
  /\ me.pc = "start"
  /\ \/ /\ run[i] = "none"
        /\ run' = [run EXCEPT ![i] = "starting"]
        /\ Goto(c, [me EXCEPT !.pc = "recalling"]) /\ UNCHANGED job
     \/ Logged(i) /\ Answer(c) /\ UNCHANGED run
     \/ ~Logged(i) /\ Goto(c, [me EXCEPT !.pc = "undo"]) /\ UNCHANGED <<run, job>>
  /\ UNCHANGED <<p, announced, live, rec, daemon, faults>>

\* The recall is over: the loop logs run.created, or start() throws.
Recalled(c) ==
  LET me == caller[c]  i == me.id IN
  /\ me.pc = "recalling"
  /\ \/ run' = [run EXCEPT ![i] = "active"] /\ Answer(c)
     \/ /\ run' = [run EXCEPT ![i] = "leaked"]
        /\ Goto(c, [me EXCEPT !.pc = "undo"]) /\ UNCHANGED job
  /\ UNCHANGED <<p, announced, live, rec, daemon, faults>>

\* Mutant: the reservation is released as it was read before the start.
UndoUnchecked(c) ==
  /\ caller[c].pc = "undo"
  /\ p' = ReleaseUnchecked(p, caller[c].id)
  /\ Leave(c)
  /\ UNCHANGED <<run, announced, live, rec, daemon, faults>>

\* releaseAfterStartFailure(), whose errors are swallowed.
Undo(c) ==
  /\ caller[c].pc = "undo"
  /\ \/ p' = (IF p.replays THEN ReleaseIfReserved(p, caller[c].id) ELSE p) /\ UNCHANGED faults
     \/ p.replays /\ p.quota[caller[c].id] = "reserved" /\ Refused
  /\ Leave(c)
  /\ UNCHANGED <<run, announced, live, rec, daemon>>

-----------------------------------------------------------------------------
(* GoalRunWritebackService.retryGoverned(). *)

\* Mutant: the old attempt keeps its reservation.
KeepOld(i) == p

\* What a retry does first: it gives back what the old attempt holds.
ReleaseOld(i) == ReleaseIfReserved(p, i)

\* The lock of the old run is taken and its reservation released. If that is refused as
\* stale, so is the retry, and nothing has happened.
Retry(c, i) ==
  /\ daemon = "up" /\ p.replays /\ caller[c] = Idle /\ job[i] = "none"
  /\ EndedUnhappily(i) /\ IsBound(p, i)
  /\ p' = ReleaseOld(i)
  /\ job' = [job EXCEPT ![i] = "retry"]
  /\ Goto(c, [Idle EXCEPT !.pc = "retry", !.of = i])

UserRetry(c, i) == Retry(c, i) /\ UNCHANGED <<run, announced, live, rec, daemon, faults>>

\* Request ids not made up yet.
Unused == {n \in Retries : ~IsBound(p, n) /\ p.admission[n] = Nobody /\ \A c \in Callers : caller[c].id # n}

\* A fresh request for the same todo is admitted at the revision now, or refused.
Readmit(c) ==
  LET me == caller[c]  old == p.binding[me.of] IN
  /\ me.pc = "retry"
  /\ \/ \E n \in Unused :
          /\ p.replays /\ Admissible(n, old.todo)
          /\ Goto(c, [pc |-> "admit", id |-> n, rev |-> p.rev, todo |-> old.todo,
                      attempt |-> old.attempt + 1, of |-> me.of])
          /\ UNCHANGED job
     \/ Leave(c)
  /\ UNCHANGED <<p, run, announced, live, rec, daemon, faults>>

\* recordRetryCreated(), whose errors are swallowed too.
RecordRetry(c) ==
  /\ caller[c].pc = "record"
  /\ \/ p' = (IF p.replays THEN RecordRetryCreated(p, caller[c].id) ELSE p) /\ UNCHANGED faults
     \/ p.replays /\ ~p.retried[caller[c].id] /\ Refused
  /\ Leave(c)
  /\ UNCHANGED <<run, announced, live, rec, daemon>>

-----------------------------------------------------------------------------
(* The runs, seen from here: RunLifecycle has their inside.  The terminal   *)
(* event is an append of its own, after the one of the terminal status.     *)

Close(i) ==
  /\ run[i] = "active" /\ daemon = "up"
  /\ \E end \in {"completing", "failing"} : run' = [run EXCEPT ![i] = end]
  /\ UNCHANGED <<p, announced, caller, job, live, rec, daemon, faults>>

ClosedAs(status) ==
  CASE status = "completing" -> "completed" [] status = "failing" -> "failed" [] OTHER -> status

Announce(i) ==
  /\ run[i] \in {"completing", "failing"}
  /\ run' = [run EXCEPT ![i] = ClosedAs(@)]
  /\ announced' = announced \cup {i} /\ live' = live \cup {i}
  /\ UNCHANGED <<p, caller, job, rec, daemon, faults>>

-----------------------------------------------------------------------------
(* GoalRunWritebackService: processTerminal() runs under the run's lock,    *)
(* for a published event ("live") or for the reconciliation ("rec").        *)

\* The evidence a run gets, when it has none: the verifier is asked about a completed run.
Verdicts(i) == IF run[i] = "failed" THEN {"failed"} ELSE {"validated", "failed", "inconclusive"}

\* The first half: record the recovery of an interrupted run, and be done; or see that
\* the run has evidence.
Process(i, who) ==
  /\ job[i] = "none" /\ p.replays
  /\ \/ /\ run[i] = "needs-recovery"
        /\ p' = RecordRecovery(p, i) /\ UNCHANGED job
     \/ /\ run[i] # "needs-recovery" /\ p.evidence[i] # "none"
        /\ job' = [job EXCEPT ![i] = who] /\ UNCHANGED p
     \/ /\ run[i] # "needs-recovery" /\ p.evidence[i] = "none"
        /\ \E verdict \in Verdicts(i) : p' = RecordValidation(p, i, verdict)
        /\ job' = [job EXCEPT ![i] = who]

\* The verdict is not recorded, as the append is refused. It is acted upon all the same, but a
\* run that is not known to be validated gets no further than to give its reservation back.
GoesOn(i, who) ==
  /\ job[i] = "none" /\ p.replays
  /\ run[i] # "needs-recovery" /\ p.evidence[i] = "none"
  /\ job' = [job EXCEPT ![i] = who]
  /\ Refused

\* The first half fails: the recovery is not recorded, or a verdict that is not recorded says
\* that the run is validated, and the write service knows of no such evidence.
Fails(i) ==
  /\ job[i] = "none" /\ p.replays
  /\ IF run[i] = "needs-recovery" THEN ~p.recovery[i]
     ELSE run[i] = "completed" /\ p.evidence[i] = "none" /\ p.quota[i] = "reserved"
  /\ UNCHANGED job
  /\ Refused

\* For a published event, whose errors are swallowed.
ProcessLive(i) ==
  /\ i \in live
  /\ (Process(i, "live") /\ UNCHANGED faults) \/ GoesOn(i, "live") \/ Fails(i)
  /\ live' = live \ {i}
  /\ UNCHANGED <<run, announced, caller, rec, daemon>>

\* finalize() has nothing to do: the reservation was given back, or this run's delivery is recorded.
Delivered(i) == p.quota[i] = "released" \/ (p.quota[i] = "consumed" /\ p.done[p.binding[i].todo] = i)

\* Mutant: the evidence's status is not looked at.
SettledWhatever(i) == IF Delivered(i) \/ p.quota[i] = "none" THEN p ELSE CompleteAndConsume(p, i)

\* What the second half appends, for the evidence that is recorded, or for none.
Settled(i) ==
  IF p.evidence[i] # "validated" THEN ReleaseIfReserved(p, i)
  ELSE IF Delivered(i) THEN p
  ELSE CompleteAndConsume(p, i)

\* Whether it can: the write service refuses a todo that another run has completed.
MaySettle(i) == p.evidence[i] = "validated" => Delivered(i) \/ MayComplete(p, i)

Settle(i) ==
  /\ job[i] = "live"
  /\ \/ p' = (IF p.replays /\ MaySettle(i) THEN Settled(i) ELSE p) /\ UNCHANGED faults
     \/ p.replays /\ MaySettle(i) /\ Settled(i) # p /\ Refused
  /\ job' = [job EXCEPT ![i] = "none"]
  /\ UNCHANGED <<run, announced, caller, live, rec, daemon>>

\* reconcile(): every binding of the goal whose run has a terminal event, one by one. An
\* error ends it: a tick goes on without, the start of the daemon does not.
Abort == IF rec.for = "startup" THEN daemon' = "refused" /\ rec' = NoReconciliation
         ELSE rec' = [for |-> "decision", left |-> {}] /\ UNCHANGED daemon

Reconciling == \E i \in Ids : job[i] = "rec"

\* Mutant: a run that has evidence counts as settled.
UnsettledUnchecked(i) == i \in announced /\ p.evidence[i] = "none"

\* What the reconciliation makes of a binding.
Unsettled(i) == i \in announced

ReconcileRun(i) ==
  /\ i \in rec.left /\ ~Reconciling
  /\ \/ /\ Unsettled(i) /\ p.replays
        /\ (Process(i, "rec") /\ UNCHANGED faults) \/ GoesOn(i, "rec")
        /\ rec' = [rec EXCEPT !.left = @ \ {i}] /\ UNCHANGED daemon
     \/ Unsettled(i) /\ ~p.replays /\ job[i] = "none" /\ Abort /\ UNCHANGED <<p, job, faults>>
     \/ Unsettled(i) /\ Fails(i) /\ Abort
     \/ ~Unsettled(i) /\ rec' = [rec EXCEPT !.left = @ \ {i}] /\ UNCHANGED <<p, job, daemon, faults>>
  /\ UNCHANGED <<run, announced, caller, live>>

ReconcileSettle(i) ==
  /\ job[i] = "rec"
  /\ job' = [job EXCEPT ![i] = "none"]
  /\ \/ p.replays /\ MaySettle(i) /\ p' = Settled(i) /\ UNCHANGED <<rec, daemon, faults>>
     \/ ~(p.replays /\ MaySettle(i)) /\ Abort /\ UNCHANGED <<p, faults>>
     \/ p.replays /\ MaySettle(i) /\ Settled(i) # p /\ Abort /\ Refused
  /\ UNCHANGED <<run, announced, caller, live>>

Bound == {i \in Ids : IsBound(p, i)}
Reconciliation(for) == [for |-> for, left |-> IF p.replays THEN Bound ELSE {}]

ReconcileEnd ==
  /\ rec.for \in {"startup", "tick"} /\ rec.left = {} /\ ~Reconciling
  /\ IF rec.for = "startup" THEN daemon' = "up" /\ rec' = NoReconciliation
     ELSE rec' = [rec EXCEPT !.for = "decision"] /\ UNCHANGED daemon
  /\ UNCHANGED <<p, run, announced, caller, job, live, faults>>

-----------------------------------------------------------------------------
(* GoalRecoveryMonitor.runTick(). *)

Tick ==
  /\ daemon = "up" /\ rec = NoReconciliation /\ caller[Monitor] = Idle
  /\ rec' = Reconciliation("tick")
  /\ UNCHANGED <<p, run, announced, caller, job, live, daemon, faults>>

\* The latest of some bindings: highest attempt, and the newest of these.
Latest(S) == CHOOSE i \in S : \A j \in S :
  \/ p.binding[j].attempt < p.binding[i].attempt
  \/ p.binding[j].attempt = p.binding[i].attempt /\ p.binding[j].since <= p.binding[i].since

\* remainingDeliveryQuota() > 0.
HasQuota == p.recovery[Latest(Bound)] \/ \A i \in Ids : p.quota[i] # "reserved"

\* isLaunchable(), and what retryGoverned() asks of the run in onEligible().
Launchable(i, todo) ==
  LET attempts == {j \in Bound : p.binding[j].todo = todo} IN
  /\ attempts # {} /\ i = Latest(attempts)
  /\ Cardinality(attempts) < MaxAutoRetriesPerTodo
  /\ EndedUnhappily(i) /\ p.evidence[i] \notin {"validated", "inconclusive"}

Launch(i) ==
  /\ rec.for = "decision" /\ Bound # {} /\ HasQuota
  /\ \E todo \in Todos : p.done[todo] = Nobody /\ Launchable(i, todo)
  /\ Retry(Monitor, i)
  /\ rec' = NoReconciliation
  /\ UNCHANGED <<run, announced, live, daemon, faults>>

Pass ==
  /\ rec.for = "decision"
  /\ rec' = NoReconciliation
  /\ UNCHANGED <<p, run, announced, caller, job, live, daemon, faults>>

-----------------------------------------------------------------------------
(* The daemon (main.ts): a crash forgets all but the two logs; a start      *)
(* recovers the runs, then reconciles the goal, before it listens.          *)

Crash ==
  /\ daemon \in {"up", "booting"} /\ faults < MaxFaults
  /\ faults' = faults + 1 /\ daemon' = "down"
  /\ run' = [i \in Ids |-> IF Logged(i) THEN ClosedAs(run[i]) ELSE "none"]
  /\ caller' = [c \in Callers |-> Idle]
  /\ job' = [i \in Ids |-> "none"] /\ live' = {} /\ rec' = NoReconciliation
  /\ UNCHANGED <<p, announced>>

Boot ==
  /\ daemon \in {"down", "refused"}
  /\ LET cut == {i \in Ids : run[i] = "active"} IN
     /\ run' = [i \in Ids |-> IF i \in cut THEN "needs-recovery" ELSE run[i]]
     /\ announced' = announced \cup cut
  /\ daemon' = "booting" /\ rec' = Reconciliation("startup")
  /\ UNCHANGED <<p, caller, job, live, faults>>

-----------------------------------------------------------------------------
CallerStep(c) ==
  Admission(c) \/ Binding(c) \/ Reservation(c) \/ Start(c) \/ Recalled(c) \/ Undo(c) \/ Readmit(c) \/ RecordRetry(c)
RunStep(i) == Close(i) \/ Announce(i)
JobStep(i) == ProcessLive(i) \/ Settle(i)
MonitorStep ==
  \/ \E i \in Ids : ReconcileRun(i) \/ ReconcileSettle(i) \/ Launch(i)
  \/ ReconcileEnd \/ Tick \/ Pass

Next ==
  \/ \E c \in Clients : \/ \E i \in Requests : Admit(c, i) \/ AdmitAgain(c, i)
                        \/ \E i \in Ids : UserRetry(c, i)
  \/ \E c \in Callers : CallerStep(c)
  \/ \E i \in Ids : RunStep(i) \/ JobStep(i)
  \/ MonitorStep
  \/ Crash \/ Boot

Spec == Init /\ [][Next]_vars

\* What goes on by itself: the sagas of callers, runs, writeback jobs, the monitor's timer,
\* and the restart of a daemon that is down. Clients and crashes owe nothing. Who waits for
\* the lock of a run is served in turn, so users that retry cannot keep the reconciliation off.
Fairness ==
  /\ \A c \in Callers : WF_vars(CallerStep(c))
  /\ \A i \in Ids : WF_vars(RunStep(i)) /\ WF_vars(JobStep(i))
  /\ WF_vars(MonitorStep) /\ WF_vars(Boot)
  /\ \A i \in Ids : SF_vars(ReconcileRun(i))

FairSpec == Spec /\ Fairness

-----------------------------------------------------------------------------
(* Properties. *)

Pcs == {"idle", "admit", "bind", "reserve", "start", "recalling", "undo", "retry", "record"}

\* The shape of the state; no run is active in a daemon that is not up, none is announced
\* that has not ended, and a lock is held by whoever is at work under it.
TypeOK ==
  /\ p \in Projection
  /\ run \in [Ids -> {"none", "starting", "leaked", "active", "completing", "failing",
                      "completed", "failed", "needs-recovery"}]
  /\ live \subseteq announced
  /\ announced \subseteq {i \in Ids : run[i] \in {"completed", "failed", "needs-recovery"}}
  /\ caller \in [Callers -> [pc : Pcs, id : Ids \cup {Nobody}, rev : Nat, todo : Todos \cup {Nobody},
                             attempt : Nat, of : Ids \cup {Nobody}]]
  /\ \A i \in Ids : job[i] = "retry" <=> \E c \in Callers : caller[c].of = i
  /\ \A i \in Ids : job[i] = "rec" => rec.for \in {"startup", "tick"}
  /\ rec \in [for : {"none", "startup", "tick", "decision"}, left : SUBSET Ids]
  /\ daemon \in {"up", "down", "booting", "refused"} /\ faults \in 0..MaxFaults

\* A todo is done exactly by a run that completed, was validated, and paid with its own
\* reservation: the pair todo.completed / quota.consumed is never torn, never written
\* for a run that failed or was interrupted, and never twice: the log can be replayed,
\* or every read of the goal would throw from then on.
DeliveryIsEarned ==
  /\ p.replays
  /\ \A i \in Bound : p.quota[i] = "consumed" \/ p.done[p.binding[i].todo] = i =>
    /\ p.quota[i] = "consumed" /\ p.done[p.binding[i].todo] = i
    /\ p.evidence[i] = "validated" /\ run[i] = "completed"

\* The order of the two logs: a run has its admission, its binding and a reservation.
GoalLogFirst ==
  \A i \in Ids : run[i] # "none" => p.admission[i] # Nobody /\ IsBound(p, i) /\ p.quota[i] # "none"

\* "a binding before run.created": no run exists, in memory or in run_events, without
\* its admission, its binding and a reservation in goal_events, whatever crashed between.
BoundBeforeRun == TypeOK /\ GoalLogFirst

\* "recovery cannot silently accumulate quota holds": once a run has been retried, its
\* reservation is given back and stays so.
RetriedHoldsNothing ==
  \A i \in Bound : p.binding[i].of # Nobody => p.quota[p.binding[i].of] # "reserved"

\* A reservation is settled once: released stays released, consumed stays consumed,
\* however late the undo of a failed start or a second terminal event comes.
SettledOnce ==
  [][\A i \in Ids : p.quota[i] \in {"released", "consumed"} => p'.quota[i] = p.quota[i]]_vars

\* Two runs of one todo are validated: the second can never be settled (see RestartSucceeds).
Twins == \E i \in Bound : /\ p.evidence[i] = "validated" /\ p.quota[i] = "reserved"
                         /\ p.done[p.binding[i].todo] \notin {Nobody, i}

\* A run that has ended, and said so, is settled: its reservation does not stay open,
\* whatever crashes between its evidence and its settlement, as long as no todo is
\* delivered by two runs.
EndedIsSettled ==
  []~Twins => \A i \in Ids : (i \in announced /\ run[i] # "needs-recovery") ~> p.quota[i] # "reserved"

\* docs/specs/58-goal-control-and-harness-completion.md:248: a completed todo or a consumed
\* reservation is a no-op for the writeback. Then the reconciliation at the start of
\* the daemon throws at nothing, and the daemon comes up. (It does not: the run GovernedRestart.)
RestartSucceeds == daemon # "refused"

=============================================================================
