---------------------------- MODULE RunLifecycle ----------------------------
(***************************************************************************)
(* The life of runs in one daemon: RunManager (apps/daemon/src/            *)
(* run-manager.ts) starts, cancels, approves and recovers runs; AgentLoop  *)
(* (packages/agent/src/index.ts) drives each of them through model turns   *)
(* and tool calls; the Scheduler gives it a lease; the approval broker     *)
(* settles the consent a tool call waits for; the event store keeps a log  *)
(* per run that survives a crash of the daemon.                            *)
(*                                                                         *)
(* Each run's loop is a sequential program.  A step runs it to its next    *)
(* await: it leaves the events to append in todo, which Append writes one  *)
(* by one, so that cancellations, decisions, other runs and a crash fall   *)
(* between any two of them.  The log keeps the events that say something   *)
(* about status, consent and execution; model text, usage and the outcome *)
(* of calls are left out.                                                  *)
(***************************************************************************)
EXTENDS Integers, Sequences, FiniteSets

CONSTANTS
    Runs,             \* run ids; each is started at most once
    Request,          \* the SchedulerRequest of each run
    Kinds, Capacity, MaxActiveRuns, MaxAcquires,   \* see Scheduler
    MaxTurns,         \* config.limits.maxTurns
    MaxToolCalls,     \* config.limits.maxToolCalls
    MaxCallsPerTurn,  \* model bound on the tool calls one model answer asks for
    MaxCrashes,       \* model bound on daemon crashes
    MaxFaults         \* model bound on appends that reject

\* parseRunConfig() takes positive limits, and toSchedulerRequest() asks for the run it is
\* given, with a request the scheduler understands.
ASSUME RunLifecycleAssumption ==
    /\ MaxTurns \in Nat \ {0} /\ MaxToolCalls \in Nat /\ MaxCallsPerTurn \in Nat
    /\ MaxActiveRuns \in Nat /\ MaxAcquires \in Nat /\ Capacity \in [Kinds -> Nat]
    /\ \A r \in Runs :
          /\ Request[r].run = r
          /\ Request[r].access \in {"read", "write"}
          /\ Request[r].priority \in {"interactive", "background"}
          /\ Request[r].need \in [Kinds -> Nat]

VARIABLES
    log,          \* the event store: the events of each run
    daemon,       \* "down", "recovering" or "up" (listening)
    scan,         \* the runs recoverAfterRestart() has still to look at
    controllers,  \* RunManager.controllers: the runs a cancel can reach
    pc,           \* where each run's loop will go on when todo is written
    todo,         \* the events its current step has still to append
    aborted,      \* the runs whose RunManager controller has fired (the loop's own, which
                  \* follows it, also fires as a loop fails, and is not looked at again)
    approval,     \* the promise of waitForDecision() the run's tool call made
    turn,         \* turnIndex
    left,         \* tool calls of this turn not yet executed
    spent,        \* toolCallCount
    crashes, faults,
    order, queue, active, granted, released        \* the Scheduler's

S == INSTANCE Scheduler WITH Requests <- {Request[r] : r \in Runs}

locals == <<turn, left, spent>>
bounds == <<crashes, faults>>
lease == <<order, queue, active, granted, released>>
vars == <<log, daemon, scan, controllers, pc, todo, aborted, approval, locals, bounds, lease>>

-----------------------------------------------------------------------------
(* Events and what the log says *)

Status(s) == [type |-> "run.status", arg |-> s]
Event(t) == [type |-> t, arg |-> ""]
ToolStarted(attempt) == [type |-> "tool.started", arg |-> attempt]
Decided(d) == [type |-> "approval.decided", arg |-> d]

EndedStatuses == {"completed", "failed", "cancelled", "timed-out"}

\* The event that closes a run with each final status.
FinalEvent(s) ==
    Event(IF s = "completed" THEN "run.completed"
          ELSE IF s = "failed" THEN "run.failed"
          ELSE IF s = "cancelled" THEN "run.cancelled"
          ELSE "run.needs_recovery")

\* latestRunStatus(), and the status of snapshot(): 'created' until the first event that
\* names a status, and what it names until the next.
NamesStatus(e) == e.type \in {"run.status", "run.needs_recovery"}
StatusIn(e) == IF e.type = "run.status" THEN e.arg ELSE "needs-recovery"
StatusAfter(events) ==
    LET after[n \in 0 .. Len(events)] ==
            IF n = 0 THEN "created"
            ELSE IF NamesStatus(events[n]) THEN StatusIn(events[n]) ELSE after[n - 1]
    IN  after

StatusOf(events) == IF events = <<>> THEN "none" ELSE StatusAfter(events)[Len(events)]

StatusNow(r) == StatusOf(log[r])

HoldsLease(r) == \E l \in S!Outstanding : l.req.run = r

Live(r) == pc[r] \notin {"none", "recalling", "ended", "titled", "dead"}

\* The loop of r goes on at label l after it has appended events.
Continue(r, l, events) ==
    /\ pc' = [pc EXCEPT ![r] = l]
    /\ todo' = [todo EXCEPT ![r] = events]

At(r, l) == daemon = "up" /\ pc[r] = l /\ todo[r] = <<>>

EndingDirect(s) == <<Status(s), FinalEvent(s)>>

\* What fail(), cancel() and a final answer append: the status and its final event, a
\* cancellation by way of 'cancelling'.
Ending(s) ==
    (IF s = "cancelled" THEN <<Status("cancelling")>> ELSE <<>>) \o <<Status(s), FinalEvent(s)>>

\* `return await fail(...)`, `return await cancel(...)`.
Fail(r) == Continue(r, "finally", Ending("failed"))
Cancelled(r) == Continue(r, "finally", Ending("cancelled"))

-----------------------------------------------------------------------------
(* The event store *)

NoChangeButLog ==
    UNCHANGED <<daemon, scan, controllers, pc, aborted, approval, locals, bounds, lease>>

\* append(): the next event of r is durable.
Append1(r) ==
    /\ daemon # "down"
    /\ todo[r] # <<>>
    /\ log' = [log EXCEPT ![r] = Append(@, Head(todo[r]))]
    /\ todo' = [todo EXCEPT ![r] = Tail(@)]
    /\ NoChangeButLog

-----------------------------------------------------------------------------
(* RunManager.start() and AgentLoop.run() up to the first turn *)

\* start(): the id is free; the controller is registered, then memory, knowledge
\* and conversation are recalled.
Start(r) ==
    /\ daemon = "up"
    /\ log[r] = <<>>
    /\ r \notin controllers
    /\ controllers' = controllers \cup {r}
    /\ Continue(r, "recalling", <<>>)
    /\ UNCHANGED <<log, daemon, scan, aborted, approval, locals, bounds, lease>>

\* start() throws while it recalls: the caller gets the error, and the controller
\* stays registered.
StartThrows(r) ==
    /\ At(r, "recalling")
    /\ faults < MaxFaults
    /\ faults' = faults + 1
    /\ Continue(r, "none", <<>>)
    /\ UNCHANGED <<log, daemon, scan, controllers, aborted, approval, locals, crashes, lease>>

Unchanged1 == UNCHANGED <<log, daemon, scan, controllers, aborted, approval, locals, bounds>>

\* run() begins; the context fits its budget or the run fails before it is queued.
Begin(r) ==
    /\ At(r, "recalling")
    /\ \/ Continue(r, "queued", <<Event("run.created"), Status("queued")>>)
       \/ Continue(r, "finally",
             <<Event("run.created")>> \o Ending("failed"))
    /\ Unchanged1 /\ UNCHANGED lease

\* The abort check after 'queued', then scheduler.acquire(), which may refuse.
Acquire(r) ==
    /\ At(r, "queued")
    /\ IF r \in aborted THEN Cancelled(r) /\ UNCHANGED lease
       ELSE IF S!Known(r) \/ ~S!CanEverGrant(Request[r]) THEN Fail(r) /\ UNCHANGED lease
       ELSE S!Acquire(Request[r]) /\ Continue(r, "acquiring", <<>>)
    /\ Unchanged1

\* The acquire() promise has settled: with a lease, or rejected by cancelQueued().
Acquired(r) ==
    /\ At(r, "acquiring")
    /\ \A e \in queue : e.req.run # r
    /\ IF r \in aborted \/ ~HoldsLease(r)
       THEN Cancelled(r)
       ELSE Continue(r, "turn", <<Status("planning")>>)
    /\ Unchanged1 /\ UNCHANGED lease

-----------------------------------------------------------------------------
(* Turns *)

\* The head of the turn loop: abort check, turn.started, 'executing', the request.
BeginTurn(r) ==
    /\ At(r, "turn")
    /\ IF r \in aborted
       THEN Cancelled(r) /\ UNCHANGED turn
       ELSE Continue(r, "model", <<Status("executing")>>)
            /\ turn' = [turn EXCEPT ![r] = @ + 1]
    /\ UNCHANGED <<log, daemon, scan, controllers, aborted, approval, left, spent, bounds, lease>>

\* The tool-call limit, checked before any of the answer's n calls is made.
MayCall(r, n) == spent[r] + n <= MaxToolCalls

\* The model's stream ends: with an abort, an error or a limit, inside the try block
\* around it ("inStream") or after it; with a final answer; or with n tool calls.
ModelAnswers(r) ==
    /\ At(r, "model")
    /\ \/ /\ \E l \in {"inStream", "finally"} :
             Continue(r, l, Ending(IF r \in aborted THEN "cancelled" ELSE "failed"))
          /\ UNCHANGED left
       \/ /\ r \notin aborted
          /\ Continue(r, "finally", Ending("completed"))
          /\ UNCHANGED left
       \/ /\ r \notin aborted
          /\ \E n \in 1 .. MaxCallsPerTurn :
                IF MayCall(r, n)
                THEN Continue(r, "call", <<>>) /\ left' = [left EXCEPT ![r] = n]
                ELSE Fail(r) /\ UNCHANGED left
    /\ UNCHANGED <<log, daemon, scan, controllers, aborted, approval, turn, spent, bounds, lease>>

\* The turn's calls are done: turn limit, or back to 'planning'.
EndTurn(r) ==
    /\ At(r, "call")
    /\ left[r] = 0
    /\ IF turn[r] >= MaxTurns THEN Fail(r) ELSE Continue(r, "turn", <<Status("planning")>>)
    /\ Unchanged1 /\ UNCHANGED lease

-----------------------------------------------------------------------------
(* executeToolCall() *)

\* The call's result, success or an error the model may recover from, is kept.
CallDone(r) ==
    /\ Continue(r, "call", <<>>)
    /\ left' = [left EXCEPT ![r] = @ - 1]
    /\ spent' = [spent EXCEPT ![r] = @ + 1]

\* A known tool with well-formed arguments is started; any other call is answered
\* with an error.
CallTool(r) ==
    /\ At(r, "call")
    /\ left[r] > 0
    /\ \/ Continue(r, "attempt1", <<ToolStarted("first")>>) /\ UNCHANGED <<left, spent>>
       \/ CallDone(r)
    /\ UNCHANGED <<log, daemon, scan, controllers, aborted, approval, turn, bounds, lease>>

\* runtime.execute() settles, other than by asking for consent: with a result or
\* an error for the model, or with an error that ends the run.
Execute(r) ==
    /\ At(r, "attempt1") \/ At(r, "attempt2")
    /\ \/ CallDone(r)
       \/ Continue(r, "toolFailed", <<>>) /\ UNCHANGED <<left, spent>>
    /\ UNCHANGED <<log, daemon, scan, controllers, aborted, approval, turn, bounds, lease>>

\* runtime.execute() rejects with APPROVAL_REQUIRED.  The first time the broker is
\* asked, which may refuse, before the request is in the log; a second time the call
\* fails.
RequireApproval(r) ==
    \/ /\ At(r, "attempt1")
       /\ \E first \in {"refused", IF r \in aborted THEN "cancelled" ELSE "waiting"} :
             approval' = [approval EXCEPT ![r] = first]
       /\ Continue(r, "decision", <<Event("approval.required"), Status("waiting-approval")>>)
       /\ UNCHANGED <<log, daemon, scan, controllers, aborted, locals, bounds, lease>>
    \/ /\ At(r, "attempt2")
       /\ Continue(r, "toolFailed", <<Event("approval.required")>>)
       /\ Unchanged1 /\ UNCHANGED lease

DecisionFailsOpen(r) ==
    /\ At(r, "decision")
    /\ approval[r] # "waiting"
    /\ \/ /\ approval[r] \in {"allow", "expired"}
          /\ Continue(r, "approve", <<Status("executing")>>)
       \/ /\ approval[r] = "deny"
          /\ Continue(r, "toolFailed", <<Decided("deny")>>)
       \/ /\ approval[r] \in {"cancelled", "refused"}
          /\ Continue(r, "toolFailed", <<>>)
    /\ Unchanged1 /\ UNCHANGED lease

\* The decision promise has settled.
Decision(r) ==
    /\ At(r, "decision")
    /\ approval[r] # "waiting"
    /\ \/ /\ approval[r] = "allow"
          /\ Continue(r, "approve", <<Decided("allow"), Status("executing")>>)
       \/ /\ approval[r] = "deny"
          /\ Continue(r, "toolFailed", <<Decided("deny")>>)
       \/ /\ approval[r] = "expired"
          /\ Continue(r, "toolFailed", <<Event("approval.expired")>>)
       \/ /\ approval[r] \in {"cancelled", "refused"}
          /\ Continue(r, "toolFailed", <<>>)
    /\ Unchanged1 /\ UNCHANGED lease

\* runtime.approve() records the grant and the call is tried again, or it throws.
Approve(r) ==
    /\ At(r, "approve")
    /\ \/ Continue(r, "attempt2", <<ToolStarted("second")>>)
       \/ Continue(r, "toolFailed", <<>>)
    /\ Unchanged1 /\ UNCHANGED lease

\* A failed call ends the run: cancelled if its signal has fired, else failed.
ToolFailed(r) ==
    /\ At(r, "toolFailed")
    /\ IF r \in aborted THEN Cancelled(r) ELSE Fail(r)
    /\ Unchanged1 /\ UNCHANGED lease

-----------------------------------------------------------------------------
(* The end of a loop *)

FinishKeepingLease(r) ==
    /\ At(r, "finally") \/ At(r, "inStream")
    /\ controllers' = controllers \ {r}
    /\ Continue(r, "ended", <<>>)
    /\ UNCHANGED <<log, daemon, scan, aborted, approval, locals, bounds, lease>>

ReleaseLease(r) ==
    IF HoldsLease(r)
    THEN \E l \in S!Outstanding : l.req.run = r /\ S!Release(l)
    ELSE UNCHANGED lease

\* The finally block gives the lease back; start()'s handler forgets the controller.
Finish(r) ==
    /\ At(r, "finally") \/ At(r, "inStream")
    /\ ReleaseLease(r)
    /\ controllers' = controllers \ {r}
    /\ Continue(r, "ended", <<>>)
    /\ UNCHANGED <<log, daemon, scan, aborted, approval, locals, bounds>>

\* The status change of an ending inside the stream's try block.
CaughtByStream(r) == pc[r] = "inStream" /\ Head(todo[r]).type = "run.status"

AppendRejects(r) ==
    /\ daemon = "up"
    /\ Live(r) /\ todo[r] # <<>>
    /\ faults < MaxFaults
    /\ faults' = faults + 1

\* An append() rejects: run() rejects too, past its finally block, and nothing closes
\* the log.
LoopThrows(r) ==
    /\ AppendRejects(r)
    /\ ~CaughtByStream(r)
    /\ ReleaseLease(r)
    /\ controllers' = controllers \ {r}
    /\ Continue(r, "dead", <<>>)
    /\ UNCHANGED <<log, daemon, scan, aborted, approval, locals, crashes>>

\* An append() rejects, and the catch block around the stream, finding the loop's own
\* controller fired, cancels the run: from the status it has, which may be 'cancelling'.
StreamThrows(r) ==
    /\ AppendRejects(r)
    /\ CaughtByStream(r)
    /\ Continue(r, "finally",
          IF Head(todo[r]) = Status("cancelled") THEN todo[r] ELSE Ending("cancelled"))
    /\ UNCHANGED <<log, daemon, scan, controllers, aborted, approval, locals, crashes, lease>>

\* generateRunTitle() of a completed run.
Title(r) ==
    /\ At(r, "ended")
    /\ StatusNow(r) = "completed"
    /\ Continue(r, "titled", <<Event("run.titled")>>)
    /\ Unchanged1 /\ UNCHANGED lease

LoopStep(r) ==
    \/ Append1(r) \/ Begin(r) \/ Acquire(r) \/ Acquired(r)
    \/ BeginTurn(r) \/ ModelAnswers(r) \/ EndTurn(r)
    \/ CallTool(r) \/ Execute(r) \/ RequireApproval(r)
    \/ Decision(r) \/ Approve(r) \/ ToolFailed(r) \/ Finish(r)

-----------------------------------------------------------------------------
(* Requests, timers, crashes *)

\* The run has a snapshot that has not ended, and a controller not fired before.
Cancellable(r) ==
    /\ r \in controllers \ aborted
    /\ StatusNow(r) \notin EndedStatuses \cup {"none", "needs-recovery"}

\* cancel(): the signal rejects the decision promise and takes the request off the
\* scheduler's queue.
Cancel(r) ==
    /\ daemon = "up"
    /\ Cancellable(r)
    /\ aborted' = aborted \cup {r}
    /\ approval' = [approval EXCEPT ![r] = IF @ = "waiting" THEN "cancelled" ELSE @]
    /\ IF \E e \in queue : e.req.run = r THEN S!CancelQueued(r) ELSE UNCHANGED lease
    /\ UNCHANGED <<log, daemon, scan, controllers, pc, todo, locals, bounds>>

\* approve(): the broker accepts the first decision on a pending request; expire():
\* the request's deadline passes.
Settle(r) ==
    /\ daemon = "up"
    /\ approval[r] = "waiting"
    /\ \E verdict \in {"allow", "deny", "expired"} :
          approval' = [approval EXCEPT ![r] = verdict]
    /\ UNCHANGED <<log, daemon, scan, controllers, pc, todo, aborted, locals, bounds, lease>>

\* The daemon dies; only the logs survive.
Crash ==
    /\ daemon # "down"
    /\ crashes < MaxCrashes
    /\ crashes' = crashes + 1
    /\ daemon' = "down"
    /\ scan' = {} /\ controllers' = {} /\ aborted' = {}
    /\ pc' = [r \in Runs |-> "none"]
    /\ todo' = [r \in Runs |-> <<>>]
    /\ approval' = [r \in Runs |-> "none"]
    /\ turn' = [r \in Runs |-> 0] /\ left' = [r \in Runs |-> 0] /\ spent' = [r \in Runs |-> 0]
    /\ order' = 0 /\ queue' = {} /\ active' = {} /\ granted' = {} /\ released' = {}
    /\ UNCHANGED <<log, faults>>

\* main.ts: recover, then listen.
Boot ==
    /\ daemon = "down"
    /\ daemon' = "recovering"
    /\ scan' = {r \in Runs : log[r] # <<>>}
    /\ UNCHANGED <<log, controllers, pc, todo, aborted, approval, locals, bounds, lease>>

RecoverNotCreated(r) ==
    /\ daemon = "recovering"
    /\ r \in scan /\ \A q \in Runs : todo[q] = <<>>
    /\ scan' = scan \ {r}
    /\ todo' = [todo EXCEPT ![r] = IF StatusNow(r) = "created" THEN <<>>
                                   ELSE IF StatusNow(r) \in EndedStatuses \cup {"needs-recovery"}
                                   THEN <<>>
                                   ELSE <<Status("needs-recovery"), FinalEvent("needs-recovery")>>]
    /\ UNCHANGED <<log, daemon, controllers, pc, aborted, approval, locals, bounds, lease>>

\* recoverAfterRestart(), one run: marked unless it has ended or was marked before.
Recover(r) ==
    /\ daemon = "recovering"
    /\ r \in scan /\ \A q \in Runs : todo[q] = <<>>
    /\ scan' = scan \ {r}
    /\ todo' = [todo EXCEPT ![r] =
                   IF StatusNow(r) \in EndedStatuses \cup {"needs-recovery"} THEN <<>>
                   ELSE <<Status("needs-recovery"), FinalEvent("needs-recovery")>>]
    /\ UNCHANGED <<log, daemon, controllers, pc, aborted, approval, locals, bounds, lease>>

Listen ==
    /\ daemon = "recovering"
    /\ scan = {} /\ \A q \in Runs : todo[q] = <<>>
    /\ daemon' = "up"
    /\ UNCHANGED <<log, scan, controllers, pc, todo, aborted, approval, locals, bounds, lease>>

-----------------------------------------------------------------------------
Init ==
    /\ log = [r \in Runs |-> <<>>]
    /\ daemon = "up"
    /\ scan = {} /\ controllers = {} /\ aborted = {}
    /\ pc = [r \in Runs |-> "none"]
    /\ todo = [r \in Runs |-> <<>>]
    /\ approval = [r \in Runs |-> "none"]
    /\ turn = [r \in Runs |-> 0] /\ left = [r \in Runs |-> 0] /\ spent = [r \in Runs |-> 0]
    /\ crashes = 0 /\ faults = 0
    /\ S!Init

Next ==
    \/ \E r \in Runs :
          \/ Start(r) \/ StartThrows(r) \/ LoopStep(r) \/ Title(r)
          \/ LoopThrows(r) \/ StreamThrows(r)
          \/ Cancel(r) \/ Settle(r) \/ Recover(r)
    \/ Crash \/ Boot \/ Listen

\* The event loop runs what is ready; model streams and tools settle (both have
\* timeouts); an approval's timer fires; the daemon is started again.
Fairness ==
    /\ \A r \in Runs : WF_vars(LoopStep(r)) /\ WF_vars(Settle(r)) /\ WF_vars(Recover(r))
    /\ WF_vars(Boot) /\ WF_vars(Listen)

Spec == Init /\ [][Next]_vars /\ Fairness

-----------------------------------------------------------------------------
(* Properties *)

\* Shape of the state.
TypeOK ==
    /\ daemon \in {"down", "recovering", "up"}
    /\ scan \subseteq Runs /\ controllers \subseteq Runs /\ aborted \subseteq Runs
    /\ \A r \in Runs :
          /\ approval[r] \in {"none", "waiting", "allow", "deny", "expired",
                                "cancelled", "refused"}
          /\ turn[r] \in 0 .. MaxTurns
          /\ left[r] \in 0 .. MaxCallsPerTurn
          /\ spent[r] + left[r] \in 0 .. MaxToolCalls
    /\ S!TypeOK

\* Where a log closes its run, and with which status's event.
Closes(e) == e.type \in {"run.completed", "run.failed", "run.cancelled", "run.needs_recovery"}
Closings(events) == {n \in 1 .. Len(events) : Closes(events[n])}
ClosesAs(e) ==
    IF e.type = "run.completed" THEN "completed"
    ELSE IF e.type = "run.failed" THEN "failed"
    ELSE IF e.type = "run.cancelled" THEN "cancelled"
    ELSE "needs-recovery"
ClosedAs(events) ==
    LET at == Closings(events) IN
    IF at = {} THEN "none"
    ELSE IF \E m, n \in at : m # n THEN "twice"
    ELSE ClosesAs(events[CHOOSE n \in at : TRUE])

\* The loop, cancellations, crashes and recovery together keep the contract of a
\* run's log: TRANSITIONS, and at most one final event, of the status it ended in.
Contract == INSTANCE RunContract WITH
    status <- [r \in Runs |-> StatusNow(r)],
    closed <- [r \in Runs |-> ClosedAs(log[r])]
KeepsContract == Contract!Spec

\* Leases and loops go together: no lease outlives its loop, and while a run's tool
\* may be executing the run holds its lease, and no other run that could conflict
\* with it on the workspace executes a tool.
LeasesHaveOwners ==
    /\ TypeOK
    /\ \A r \in Runs :
        /\ HoldsLease(r) => Live(r)
        /\ pc[r] \in {"attempt1", "attempt2"} =>
            /\ HoldsLease(r)
            /\ \A q \in Runs \ {r} : pc[q] \in {"attempt1", "attempt2"}
                                        => ~S!WorkspaceConflicts(Request[q], Request[r])

\* The log of a second attempt shows consent: it comes right after an 'allow'
\* (and the status change it causes), given for the attempt before it.
RetryHasConsent ==
    \A r \in Runs : \A n \in 1 .. Len(log[r]) :
        log[r][n] = ToolStarted("second") =>
            /\ n > 5
            /\ log[r][n - 1] = Status("executing")
            /\ log[r][n - 2] = Decided("allow")
            /\ log[r][n - 3] = Status("waiting-approval")
            /\ log[r][n - 4] = Event("approval.required")
            /\ log[r][n - 5] = ToolStarted("first")

\* Once the daemon listens, a run whose log is open has a loop that will close it
\* (or the event store failed under that loop): recovery left none behind.  A
\* cancellation reaches every live loop, and none that was cancelled still waits
\* in the scheduler's queue for a lease.
NoOrphanedRun ==
    /\ daemon = "up" =>
        \A r \in Runs : \/ Live(r) \/ pc[r] = "dead"
                       \/ StatusNow(r) \in EndedStatuses \cup {"needs-recovery", "none"}
    /\ \A r \in Runs : Live(r) =>
        /\ r \in controllers
        /\ r \in aborted => \A e \in queue : e.req.run # r

\* Every run that was begun comes to an end, and gives its lease back.
EveryRunEnds ==
    \A r \in Runs :
        log[r] # <<>> ~> /\ ~HoldsLease(r)
                         /\ \/ StatusNow(r) \in EndedStatuses \cup {"needs-recovery"}
                            \/ pc[r] = "dead"
=============================================================================
