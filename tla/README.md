# VibeGo in TLA+

VibeGo is a daemon that runs coding agents: a client starts a run, an agent loop drives
it through model turns and tool calls, a scheduler decides which runs may hold a
workspace, the user (or a reviewing model) is asked for consent, and everything that
happens is appended to an event log that survives a crash. A run may be *governed*: it is
then bound to a todo of a goal, holds a quota reservation, and delivers the todo if its
result is validated. Around this core the daemon keeps sessions with MCP servers, host
processes, a memory sidecar that it updates in place, and a database it can restore.

This directory holds models of these parts, the TLC configurations that check them on small
instances, and proofs about all of them for every instance. Paths below are relative to
the repository.

    tlc -config MCScheduler.cfg MCScheduler.tla        # one run; see "Runs"
    tlapm SchedulerProofs.tla                          # one module of proofs

`PROJECT.json` is the index: the components, the runs with their properties, the source
lines of every definition (`map`), one mutation per property that breaks it (`mutants`),
the disagreements found (`findings`), the hazards, and the theorems.

## 1. Inventory

### The modelled parts

| Component | State it keeps | Operations | Talks to |
|---|---|---|---|
| Scheduler `packages/scheduler` | queue, active map, order counter | `acquire`, `cancelQueued`, `lease.release`, `pump` | called by the agent loop and by `RunManager.cancel` |
| Approval broker `packages/agent/src/approval.ts` | pending map, bounded history, one timer and one abort listener per entry | `waitForDecision`, `decide`, `expire`, `onAbort` | the loop waits; HTTP routes decide |
| LLM approval review `packages/agent/src/approval-review*.ts` | reviews in flight, cache, waiters and verdicts per review | `waitForDecision`, `review`, `disposeRun` | wraps the approval broker, asks a model |
| Agent loop `packages/agent/src/index.ts` | turn index, tool-call count, the lease | `run`, one `await` after another | scheduler, broker, model, tools, event store |
| Policy, tools, sandbox `packages/policy`, `tool-adapters`, `sandbox-runtime` | grants per run; one host process per call | `evaluate`, `approve`, `execute`, `run`, `terminate` | called by the agent loop |
| Run manager `apps/daemon/src/run-manager.ts` | controllers per run, the listeners of the event store | `start`, `cancel`, `decideApproval`, `snapshot`, `recoverAfterRestart`, `publish` | loop, scheduler, broker, store, SSE |
| Run event store and contract `packages/storage`, `packages/contracts` | `run_events`: an append-only log per run | `append`, `readEvents` | everything above |
| SSE endpoint and client stream `server.ts`, `packages/client-sdk` | per connection: pending events, `sentSeq`; per client: cursor, reconnect budget | `handleSse`, `streamRunEvents` | store, network |
| Goal Control v1 `packages/goal-control/src/v1.ts` | `goal_events`: admission, binding, quota, evidence, recovery, todo | the mutations, each under the goal's lock and an expected revision | admission, writeback |
| Governed admission `goal-admission.ts` | none | `admit`: a saga of three appends and a start | Goal Control, run manager |
| Writeback and monitor `goal-writeback.ts`, `goal-recovery-monitor.ts`, `main.ts` | lock per run, jobs in flight, the tick | `processTerminal`, `reconcile`, `retryGoverned`, `runTick`, the daemon's start | run manager's events, Goal Control, admission |
| Skill and MCP `packages/skill-mcp`, `mcp-*.ts` of the daemon | settings and status, the current binding, references per binding, session state, pending calls, a ledger per run | `patch`, `probe`, `activate`, `deactivate`, `capture`, `release`, `close`, calls | run manager, external servers |
| Memory runtime `tencent-memory-runtime-supervisor.ts` | pointers in memory and in three files, installed revisions, the sidecar process | `start`, `close`, `update`, `rollback` | settings, the sidecar |
| Backup and restore `packages/storage/src/{backup,restore-*}.ts` | files: current, previous, snapshot, staged, temporary ones | `create`, `preflight`, `stage`, `apply` | the daemon's database |

What is hard in each, and what makes it correct:

- **Scheduler.** Every method is synchronous, but the promises it resolves are not: a lease
  may be released late, twice, or after its run id was granted again. Correct: the active
  map is exactly the leases callers hold; no conflict on a workspace; no limit exceeded;
  nobody waits who would fit; peers are served in order; no wakeup is lost.
- **Approval broker.** Decision, deadline and abort race for one entry; the history of
  settled ids is bounded, so an id can be forgotten and used again. Correct: one winner;
  "accepted" is said exactly if the waiting call is told so; every wait ends.
- **Approval review.** Calls share a review while it is in flight and its cached answer
  afterwards; a run may end, a wait may expire or be decided while the reviewer thinks.
  Correct: one provider call per key, an audit trail that says what happened, an automatic
  allow only on a valid verdict that is in time, and no step the broker alone could not take.
- **Agent loop and run manager.** Between any two awaits the user cancels or decides,
  another run is granted the workspace, an append rejects, or the daemon dies. Correct:
  the log moves along the contract's transitions and is closed once; a call is repeated
  only with consent; leases never outlive loops; recovery leaves no run open; every run ends.
- **Tool calls.** Consent is kept in a cache whose key has no arguments, may be one-shot and
  may run out between the two attempts; a process may be told to stop three ways while it
  ends by itself. Correct: no effect without consent; no process outlives its call.
- **SSE.** Events are stored, published, replayed and read concurrently, over connections
  that break. Correct: no gap, no repetition, no reordering, and no early end.
- **Governed runs.** Two logs, no transaction across them: a crash, a duplicate request, a
  retry or another run of the same todo can come between any two appends. Correct: a run
  is bound before it exists; a reservation is settled once; a todo is delivered by one
  validated run that pays with its own reservation; what ended is settled eventually.
- **MCP.** Nothing serialises activations, settings change while one is opening, and runs
  share a channel. Correct: a binding in use stays open and a retired one closes; "ready"
  means a session with the server the settings name; no call gets another one's answer.
- **Memory runtime.** Three files are written one after another, a switch is undone by hand,
  and `start()` and `close()` are not in the queue of the updates. Correct: no pointer to a
  revision that was not proven; memory, files and process agree at rest; an update never
  takes the running sidecar away.
- **Restore.** A sequence of copies, links and renames, each of which may fail, next to
  another restore and a daemon that writes. Correct: the latest data is always in some
  file; a restore is applied whole or not at all; no snapshot or previous is overwritten.

### The rest

| Component | State | Status |
|---|---|---|
| Goal Control v0 `packages/goal-control/src/{index,write}.ts` | goals, todos, gates, claims | planned; `GovernedRuns` takes its refusals as arbitrary |
| Observability `packages/observability` | recorder of attempts | not wired into the daemon; exports are computations |
| Model providers | none | streaming HTTP; an outcome in `RunLifecycle` |
| Authentication, certificates | sessions, one certificate | single synchronous objects, low priority |
| Settings, secrets, workspaces | key-value rows | one call per change |
| Context, web interface, test kit | none | pure, presentation, fakes |

## 2. Modules

```
RunContract        what a run's log promises (abstract)
    ^ refined by
RunLifecycle  ----- INSTANCE ----> Scheduler
ApprovalReview ---- INSTANCE ----> ApprovalBroker     (and shown to keep to it)
GovernedRuns  ------ EXTENDS ----> GoalControl
SseStream    ToolCalls    McpBinding    MemoryRuntime    Restore
MC<module>         the instance TLC checks
<module>Proofs     EXTENDS the module with its proofs
```

Two modules of proofs speak of a second system as well: `RunLifecycleProofs` of `SseStream`,
whose log is that of a run, and `McpBindingProofs` of `ToolCalls`. They extend both, which is
why `SseStream` and `McpBinding` prefix the usual names (`SseInit`, `McpSpec`, ...).

### Scheduler

`order`, `queue` and `active` are the fields of the class (`active` is keyed by run id in the
code; the model keeps the set of entries and shows that ids are unique). `granted` and
`released` are the callers' side: the leases that resolved promises carry, and their
`released` flags. `Acquire`, `CancelQueued` and `Release` are the methods, each with the
`pump()` it ends in; `cancelQueued()` does not pump. `Pump` states the loop as one pass in
queue order, and `PumpIsTheLoop` compares it in every step with the loop written out as a
recursive operator in `MCScheduler`. A request carries the access and the resources it
needs as data: no default or normalisation of the code decides between them.

### ApprovalBroker

`pending` and `history` are the two maps, `promise` what each call was told. Wall-clock
time is one event per call, `Due`: its deadline has passed. The timer (`Expire`) fires some
time later, so decisions that arrive in between are covered. The loop of a run makes its
calls in turn, so a run waits for one decision at a time.

### ApprovalReview

The review broker next to an instance of `ApprovalBroker`, whose variables it shares. A
review is named by the call that begins it; `inFlight` and `cache` are the maps by key,
`waiters` the counter, `handle[c]` the review call `c` shares. `review()` is split at its
awaits: `Begin` or `Join`, the answer (`Review`), its record (`Record`), the leaving
(`Leave`), and `Finish` of each call, which may resolve the wait. `Dispose` is the end of a
run. `verdicts` is the audit trail. `KeepsAuthority` is a refinement: with the reviewer at
its side the broker takes only steps it may take by itself.

### RunContract and RunLifecycle

`RunContract` is the abstract specification: statuses move along `TRANSITIONS`, which is what
`assertTransition()` lets pass, and the log is closed at most once, by the event of the
status it has. `RunLifecycle` composes the run
manager, the loop of every run, the scheduler (`S == INSTANCE Scheduler`, whose operations
are conjuncts of the loop's steps) and the store, and implements `RunContract` under the
mapping that reads status and closing event off each log (`KeepsContract`). The status is
read the way `latestRunStatus()` does, the last event that names one (`StatusAfter`).

A loop's step goes from one `await` to the next. The events the step appends are left in
`todo[r]` and written one at a time by `Append1`, so every interleaving *between* appends
is explored: a cancellation after `run.created`, a decision after `approval.required`, a
crash between the terminal status and the terminal event. `pc[r]` names the await. An
append that rejects (`LoopThrows`) ends the loop as in the code: the `finally` block
releases the lease, nothing is logged. The exception is an ending logged from inside the
`try` block around the model's stream: its `catch` cancels the run instead
(`StreamThrows`), from whatever status the failed ending had reached. `Crash` keeps only
`log`; `Boot`, `Recover` and `Listen` are the start of the daemon. The broker is seen from
the loop's side only (what a wait can come to); `ApprovalBroker` has its inside.

### ToolCalls

One call from `tool.requested` to its effect. `phase[c]` is the await it is at; `grants[r]`
the keys in the run's `SessionApprovalCache` that have not expired; `process[c]` its host
process. `Evaluate` is the policy (static refusals, cache, decision) and `Consume` the
one-shot use of a grant that `has()` makes, which `Execute` and `Approve` both go through.
`Lapse` lets a grant run out between any two steps. `Handle` is the handler of the tool,
which the code starts whether or not the run is cancelled by then; a handler that needs a
process goes on to `Spawn`. `Terminate` stands for the time limit and the output limit,
`Abort` for the run's cancellation, `Close` for the end of the process. `Escape` is the other
way a call's wait can end: the child cannot be signalled, emits `error`, the call is rejected,
and the process goes on by itself (`"escaped"`).

### SseStream

One run, one client, the connections it opens one after the other. Storing an event and
publishing it are separate steps, and `handleSse()` is split where it awaits: subscription,
replay from the log, hand-over to live events. `node:sqlite` answers synchronously, so
these awaits resolve in microtasks and no network event falls between them; stores and
publications do, since `append()` awaits as well. `Store` appends any event that may follow
in a log (`Following`): the run goes on or closes, once; its title and the audit events of
its reviews, such as the revocation when the run is disposed of, may come after that. A
connection the client has abandoned is noticed only once the handler is live. `Break` loses the frames on their way.

### GoalControl and GovernedRuns

`GoalControl` is the write service for one goal. A mutation reads the projection and appends
under the goal's lock (there is one service object in the daemon), so each is an operator
from projection to projection: the record `p`, one field per fact the later code looks at.

`GovernedRuns` has the callers. `caller[c]` is a connection (or the monitor) inside
`admit()` or `retryGoverned()`: where it is, the revision it expects next and, for a retry,
the old run, whose lock it holds. `run` is what memory and `run_events` know of a request's
run, reduced to what the goal sees of `RunLifecycle`; `announced` the runs with a terminal
event in their log. `job` is `runLocks`, `live` the published terminal events not yet taken
up, `rec` a reconciliation under way and what it has still to look at. A step ends at each
append, and a crash falls between any two of them.

`binding[i].of`, the run that request `i` retries, is kept with the binding so that
properties can name it; the code knows it in `retryGoverned()` only and records it after the
start, in `retry_created`. The undoing of a failed start and that record swallow what the mutations
throw; they do nothing when the log does not replay (`p.replays`).

The admission saga passes its revision on from append to append (`Expected`); a request that
is overtaken is refused. The writeback, the undo and `retry_created` read the goal anew, and an
append of theirs may still be refused as stale (`Refused`): a verdict that is not
recorded is acted upon all the same (`GoesOn`), but one that says validated gets no further
(`Fails`), nor do a recovery and a settlement that are refused. `MaxFaults` bounds
crashes and such refusals together.

What admission asks besides (gates, claims, capabilities,
workspace, sandbox) is an arbitrary refusal, and the verifier's verdict an arbitrary choice.

### McpBinding

`settings` and `status` are those of `McpSettingsManager`; an activation names the session
it opens, `snap[a]` is the settings it began with. A revision is a server's id, version,
manifest and transport; `ServerOf` is the id and the manifest of it, all that
`recordProbeResult()` compares. `OpenFails` assumes that a provider which fails or times out
closes its own session: the repository has the interface of a provider, and none. `current`, `retired` and `refs` are the
binding manager's. A run captures the binding in `start()`; `Recalled` is the rest of
`start()`, which may throw and leave the reference for good (`run[r] = "stuck"`). A call is
asked, written, held by the server and answered; the answer is read off `wire` and matched
with the pending table (`Read`), or matches nothing (`Unmatched`). A timeout, an abort or an
error answer closes the session for all its runs (`Abandon`, `Broken`).

### MemoryRuntime

`mem` is what the supervisor has in memory, `disk` its three files (`pointers.json` and two
mirrors), `side` the sidecar in use, `procs` the processes that run. Two tasks run side by
side: `queue`, the serialised updates and rollbacks, and `start`, which is not serialised
with them. `task[t].at` is the await; the three writes of `persistState()` are three steps
(`Write`), each of which may fail. A fault is a failed write or a crash.

`QuietIsConsistent` has two exceptions. One is a `start()` or `close()` that overlapped an
operation (`overlapped`; see section 5). The other is about the files alone: with a second
fault they may name other revisions than memory does. A crash after the first of the three
writes and a failed write in the next life, or a failed switch whose undoing fails as well,
leave the files as they were in between; TLC shows both with `MaxFaults = 2`. What the
pointers name stays installed whole all the same, after any number of faults.

### Restore

`files` maps each path to `[data, ino]` or to nothing; a hard link shares the `ino`, a
rename carries it along. Jobs are calls of `create()`, `stage()` and `apply()`; every copy,
link and rename is a step that may fail, and an error waits in `result` for the handlers,
which are steps as well (`Undo`, `Rollback`, `Finally`). A removal may fail too, and the code
ignores that: `Remove` lets any of the files stay, at the cost of a fault, and `litter` is
the set of paths this happened to, which no step looks at. `Write` is the daemon writing to
its database by its path. The data is a version number, or damaged; a digest compares it.

## 3. Runs

| Run | Instance | Distinct states | Shows |
|---|---|---|---|
| `scheduler` | 5 requests, 2 leases, 3 model calls, 1 sandbox, 5 acquires | 43,335 | books, exclusion, limits, work conservation, order among peers, `Pump` = the loop, no lost wakeup |
| `approval_broker` | 3 calls, two with one id; 2 pending, 1 remembered | 43,850 | one winner, truthful answers, every wait ends |
| `run_lifecycle` | 2 writers of one workspace, 2 turns, 1 tool call, 1 crash, 1 fault | 893,755 | contract refined, leases owned, consent, no orphan, every run ends |
| `sse_stream` | 4 events, 2 connections, 1 restart | 189,578 | no gap, no repetition, everything arrives |
| `governed_runs` | 1 request sent by 2 clients, 1 retry, the monitor, 1 crash or refused append | 417,106 | bound before run, earned delivery, a retried run holds nothing, settled once, what ended is settled |
| `memory_runtime` | 3 revisions, 2 retained, 3 operations, 1 patch, 1 fault | 3,919,093 | proven pointers, consistency at rest, service through updates |
| `approval_review` | 2 calls of one run with one key, 2 pending, 1 remembered | 568,210 | one live review per key and a verdict for each that is over, warranted allow, the broker's authority kept, every review ends |
| `mcp` | 2 activations, 3 revisions of 2 servers, 2 runs with a call each, 1 patch | 1,060,087 | bindings in use stay open, ready means bound, answers are own, retired sessions close |
| `tool_calls` | 5 calls of 2 runs, 2 keys, one of them always prompting and with processes | 498,560 | effects have consent, processes are held, every call ends |
| `restore` | 1 backup, 1 staging, 2 applies, 1 write, 4 faults, 1 death | 1,820,577 | latest data survives, whole or nothing, nothing replaced or removed |
| `restore_lost` | the same | violation | the last copy of the current data is removed |
| `governed_restart` | 2 requests for one todo | violation | the daemon does not come up |

### Bounds, and why they are enough

- *Scheduler.* The requests are the smallest set with every kind of pair: write/write,
  write/read, read/read on one workspace, different workspaces that compete for a kind,
  both priorities. `MaxAcquires` bounds calls, not the queue; a run may ask again after it
  has released, which gives the late release of an old lease. The proofs need no bound.
- *Broker.* Three calls are one more than fit (`MaxPending` 2), and a history of one is
  forgotten by the next settlement, so an id is reused while pending, remembered and
  forgotten.
- *Review.* Two calls of one key share a review in flight, share its cached answer, or
  begin two in turn, as they come; the run may end at any point of either.
- *Lifecycle.* Two runs that exclude each other give waiting, cancellation in the queue and
  hand-over. Turn and call bounds are the program's own limits; two turns let a run come
  back to `planning`. One crash and one failed append fall anywhere.
- *Tool calls.* Two calls per key in one run, since grants outlive a call; a call of another
  run with the same key, since they must not cross runs.
- *SSE.* Four events allow one before the first cursor, one replayed, one published during
  the replay, one live; two connections make one resumption; a restart may hit either.
- *Governed runs.* The saga is sequential per request, so two clients with the same
  request, plus the monitor, give every kind of collision: duplicate admission,
  user retry against monitor retry, undo against a start that succeeded.
  `maxAutoRetriesPerTodo` is the daemon's 3. The one fault is a crash or a refused
  append, anywhere; several of either are left to the proofs, which need no bound.
- *MCP.* Two activations overlap or follow each other, and one patch between makes the
  first one stale. Two of the three revisions have one server id and manifest, so that a
  patch of the version or the transport alone is among them; `MCSpec` begins with one of
  these two, from which the patch can do all that it can from another. Two runs share a
  session or hold two different ones.
- *Memory.* Three revisions with two retained make pruning happen; three operations give
  update, failed update and rollback; the search ends at depth 82 by itself.
- *Restore.* Four faults are a refused rename, a failed install, a failed repair and one
  more in the handlers, or a failed removal; two applies collide on `previous`.

`SYMMETRY` swaps the two equal applies of `restore`, which checks no liveness; the other runs
do without.

### Deadlock

It is checked where the system can always go on (broker, governed runs, where the monitor
ticks forever). The others really stop: when the bounded requests are served, every run,
call or job has ended, or the client's stream is over.

### Fairness

Weak fairness, of what goes on by itself; never of users, cancellations, faults,
crashes or lost connections. Strong fairness once, for a lock that is served in turn.

- Scheduler: leases are released; `AgentLoop.run()` does so in a `finally` block, and
  `EveryRunEnds` shows that it is reached.
- Broker: time passes and a due timer fires. Review: the same, and the reviewer answers or
  fails, since its provider honours the deadline's abort signal.
- Lifecycle: a loop that can go on does; models and tools have timeouts, so their awaits
  settle; an approval's wait settles (`EveryWaitEnds` of the broker); the daemon is
  started again and recovers.
- Tool calls: the loop goes on, requests for consent expire, limits are timers. That a
  process which is told to terminate does so is an assumption about the process: the last
  resort of `defaultTerminateTree` is SIGTERM, which it may ignore.
- SSE: the daemon's publications and handlers, the client's connects and reads.
- MCP: a run's start and end, and the deadline of a call; nothing of the server.
- Governed runs (`FairSpec`): each caller's saga, each run and its writeback job, the
  monitor's timer, the restart. `ReconcileRun` is strongly fair: `withRunLock()` queues who
  waits for a run's lock (`goal-writeback.ts:566`), so users that retry a run again and again,
  and are refused, do not keep the reconciliation off.
- Memory and restore state safety only.

## 4. Proofs

Each module below proves the listed properties for every value of the constants, from the
named assumption of its model (types of the constants, and that limits are numbers): for
any number of runs, requests, operations, failures and crashes. The theorems of a module
rest on inductive invariants: each holds initially and is kept by every action, one step of
the proof per action. The large modules stack them, each level using the ones below.

| Module | Properties proved | Invariants |
|---|---|---|
| `SchedulerProofs` | `TypeOK`, `LeasesMatchBooks`, `WorkspaceExclusive`, `WithinCapacity`, `WorkConserving`, `PeersInOrder` | `IInv` |
| `ApprovalBrokerProofs` | `EntriesMatchPromises`, `LateAnswersAreTrue`, `OneWinner` | `IInv` |
| `ApprovalReviewProofs` | `AskedOnce`, `TrailIsSound`, `AllowIsWarranted`, `KeepsAuthority`, `OneVerdict` | `IInv`, the broker's, `WInv` |
| `RunLifecycleProofs`, of runs | `RetryHasConsent`, `KeepsContract`, `LeasesHaveOwners`, `NoOrphanedRun` | `IInv`, `CInv`, the scheduler's books, `LInv`, `TInv` |
| `RunLifecycleProofs`, of the stream | `NoGapNoRepeat` | `StreamInv`, and `ClosingInv` of the runs |
| `GovernedRunsProofs` | `BoundBeforeRun`, `DeliveryIsEarned`, `RetriedHoldsNothing`, `SettledOnce` | `IInv`, `NInv`, `Locks`, `Earned` |
| `McpBindingProofs`, of MCP | `InUseIsOpen`, `ReadyIsBound`, `CallsAreOwn` | `IInv` |
| `McpBindingProofs`, of tool calls | `EffectHasConsent`, `ProcessesAreHeld` | `ConsentInv` |
| `MemoryRuntimeProofs` | `PointersProven`, `QuietIsConsistent`, `ServiceSurvivesUpdate` | `IInv`, `MInv` |
| `RestoreProofs` | `LatestSurvives`, `EndsWhole`, `NeverReplaced` | `RestoreInv` |

**Scheduler.** That a release cannot delete another run's entry needs the active map to be
the outstanding leases *with one entry per run*, and that a grant is a new lease needs
queue and leases to be disjoint and every number used to be below `order` (`Numbered`). The
limits have to be stated for `active` (`Fit`), where `pump()` looks, and are carried over
to the callers by the books. Work conservation is part of the invariant, because
`cancelQueued()` does not pump: it is preserved there only since it held before. The
argument about `Pump` is the heart: a grant is tried in the order `Before`, against the
leases and the grants before it; the entry tried last among the granted (`LastTried`) fits
next to all others, hence all fit together (`PumpFits`). Usage only grows with the set
(`UsageMonotone`), so who was refused stays refused (`PumpIInv`), and a later entry that is
no easier cannot have been granted in its place (`PumpInOrder`).

**Approval broker.** That map and promises agree needs the broker's use of ids and runs: a
run has one entry at most and none once it is aborted (`OnePerRun`). `OneWinner` is then a
fact about single steps.

**Approval review.** The invariant joins what the broker's map says of runs that are over
(`Waiting`), what the maps by key name (`Named`, `UnderWay`) and what each phase has emitted
(`Trail`). `KeepsAuthority` maps each step to a step or a stutter of the broker, whose own
invariant is thereby carried over (`BrokerStaysTrue`). For `OneVerdict` the counter of
waiters has to be right: it is the number of calls that hold a handle and wait
(`WaitersCounted`), so that the last one that leaves is the one that revokes the review.

**Run lifecycle.** `RetryHasConsent` speaks of the log; a loop decides by where it is, and
what it decided last may still be on its way. The invariant says of log and `todo` together
that every second attempt follows consent to the first, and what they end in at each place
of the loop where that matters (`EndsAt`); and that there is no loop while the daemon is not
up (`NoLoops`).

The refinement `KeepsContract` needs to know what the log says when an event is appended to
it. `StatusAfter` folds a function over the log, and that appending an event changes its
result as the event says (`StatusGrows`) is an induction over the length of the log: the
prover has no induction rule for a predicate it is given, but for one that is written out,
a counterexample of least length serves (`Least`, from the well-foundedness of `<`). `CInv`
then says for each place of the loop which status the log has once `todo` is written, and
that each event in between is a legal step (`Story`); recovery, which reads the same log
after a crash, finds it where a crash may leave it.

The loop calls the scheduler; that each of its steps is a step of the scheduler's
specification, its restart, or none of its business (`SchedulerUsedAsSpecified`) makes the
scheduler's books hold here, and `Owns` says who is entitled to what is in them: a lease
belongs to a loop that goes on and has not reached its `finally`, a queued request to a loop
that waits. `NoOrphanedRun` needs to know that recovery has dealt with every open log before
the daemon listens.

**SSE.** `NoGapNoRepeat` speaks of the client and the log; in between are the connections.
`StreamInv` says of each that what waits in it are the last events published since it
subscribed, in a row (`WaitsIn`); that its replay goes on from the cursor without a gap and
reaches at least up to what waits (`Replays`), so that the two overlap and `sentSeq` drops
what comes twice; and that a live connection has sent all that was published (`WithinLog`):
the next event published is then the next one to send. Of the connection the client reads,
the wire holds just what comes next for its cursor (`OnTheWire`), also after a break or a
restart, since a new request names the cursor. Every one of these is a run of consecutive
numbers, `After(b, n)`, and the lemmas on such runs (what one more event, a head or a drop
makes of them) carry the proof; `Send` is the one fold, and its steps come in two kinds,
events that were sent and events that follow.

The stream of the model has a log of its own, so the last theorem, `StreamServesTheLog`,
connects the two: the log of a run of `RunLifecycle`, seen as `SseStream` sees it, grows only
by what `Following` allows, so that no second closing event follows the first. It rests on the
closing event being the last that a step of the loop, or of recovery, has to append
(`ClosesLast`), and on all that `RunLifecycle` appends to a closed log being its title
(`TitleOnly`). The audit events of the reviews, which `RunLifecycle` leaves out, are written
to the same log, also after its closing event; none of them closes. This is what lets the
client and `handleSse()` stop at the first final event.

**Tool calls.** The invariant adds whose consent each grant rests on (`GrantsAreEarned`),
that a call past its check has consent, and that a run has one call under way
(`OneAtATime`): this is why no other call can take the grant of one that always prompts.
`ProcessesAreHeld` speaks of the processes that the daemon can signal (`Alive`); one that has
escaped is past any claim.

**Governed runs.** Each mutation of the goal's log only adds (`Adds`), so what a caller read
before an append still holds after everybody else's appends; the place it has come to in
its saga then tells what the log has (`Sagas`). `GoalLogFirst` is the part of
`BoundBeforeRun` about admission, binding and reservation coming before the run. The rest
is about the runs (`RunsKnown`): a run has one request, a request one run, and a retry in
the making has a name that nobody else uses. `LocksHeld` is mutual exclusion per old run,
with the reconciliation and the jobs as further holders: the retry of a run excludes its
writeback. `Earned` relates todo, quota and evidence: completion and consumption come
together (`NeverTorn`, without any hypothesis), by a run that completed and was validated.

`DeliveryIsEarned` holds if distinct requests carry distinct turn keys (`KeysAreOwn`), and
this is necessary. Without it TLC finds the log damaged: the daemon dies between the
binding and the reservation of a request, another request with the same key is admitted and
reserves, and the first, sent again, goes on with its reservation without looking at the
key once more; when both are consumed the log does not replay. VibeGo's own client makes a
fresh key for each request (`apps/web/src/main.tsx:263`), and so does a retry
(`goal-writeback.ts:215`), which is the hypothesis; see section 5.

**MCP.** A candidate that is opening is not referred to yet (`Fresh`), references are the
runs that hold a binding (`Counted`), after the shutdown nothing is bound again (`InUse`),
and what the channel still carries belongs to calls that wait (`Flow`). `ReadyIsBound` is a
part of the invariant itself, for the server id and the manifest that the code compares.

**Memory runtime.** For `PointersProven`: pointers travel from memory into the arguments of
a write, into the files, and after a crash back into memory; the invariant speaks of all
three places.

`ServiceSurvivesUpdate` holds whatever overlaps, because the operation of the queue never
holds the sidecar in use as one it is going to stop (`Apart`): neither its candidate before
the switch nor, after it, the one it replaced. That takes fresh process ids (`Fresh`: those
in sight are finitely many) and `Types`.

`QuietIsConsistent` is about a state of rest, and says nothing of the way there. `Calm` does:
as long as nothing overlapped, one task at most is under way, and of that task `Good` says
what it may be relied on at each of its awaits: which pointers it writes (`Intends`), how
many of the files say so already (`Wrote`), which process serves (`Serving`), that every
revision named in memory, in the files or in the task is whole (`NamesWhole`), and what the
files say as a function of the faults so far (`Recorded`: with none they are as memory
says, with one they are read as memory says, outside of the steps that switch or undo).
`Pruning` is where this pays: the removal of a revision is safe since, at that point, the
files name nothing but what memory protects.

**Restore.** Three things are in danger: the current database, what `previous` keeps, and
the temporary copies. Who may touch `previous` is settled by whose copy it is: a hard link
shares the file, so `Own(j)` says that its `ino` is the copy job `j` made. From the link on
it belongs to `j` at every step until `j` removes it, and stays behind just if `j` applied
the restore, called for manual recovery or died (`Owns`); another job's link fails as long
as it is there. It holds the data `j` remembered, which is the latest from the last check
on unless a write raced it (`Seen`). Temporary files are there in certain steps only
(`OwnTemps`), the two renames that go the way round have their own account (`Swapping`), and
`Where` puts it together: the latest data is under its own name, in the `previous` of a job
that may have replaced it, or aside in the file the swap moved it to. Each step of an apply
job is proved to leave that job good and to be harmless to the others, which only
`previous` and `current` can be touched through; so the number of jobs does not matter.
Since a removal may fail, what a job has left behind is told from what it still needs by
`litter`: a temporary file outside the steps it belongs to, or a `previous` whose maker is
past it, is there only as litter.

That `None` is no file, no data and no outcome (`NoneAssumption`) is what `null` is in the
code. TLC checked `RestoreInv` before it was proved, with two applies, two writes, four
faults and two deaths (3.8 million distinct states, more than the run affords).

Only model-checked: liveness (every `…Ends`, `…Arrives`, `…Leaves`, `…Closes`,
`EndedIsSettled`), which is out of the prover's reach, and `PumpIsTheLoop`, which uses a
recursive operator. Every other property of the runs that pass is proved.

## 5. Findings

1. **The daemon may not start again** (`governed_restart`). Two validated runs of one todo:
   the writeback of the second throws in every reconciliation, and the start of the daemon
   rethrows, though `docs/specs/58-goal-control-and-harness-completion.md:248` promises a
   no-op. `EndedIsSettled` is stated under the absence of such twins for this reason.
2. **A failed restore removes the last copy** (`restore_lost`). A swap that goes the way
   round and cannot be undone throws `MANUAL_RECOVERY_REQUIRED`, and the `finally` block
   then removes the file the current database was moved to; `previous` is gone already.
   `docs/specs/53-host-install-upgrade-backup-recovery.md:118` says no evidence is deleted.
   `LatestSurvives` excepts exactly this case.

Other places where code and documents part, seen while modelling; the models take the step
as the code does, and no run is about them:

- A reader that arrives later passes a waiting writer (`packages/scheduler/src/index.ts:133`;
  spec 02:115 says FIFO). What holds is `PeersInOrder`.
- Status and `run.needs_recovery` are two appends; after a crash between them the next
  recovery skips the run (`run-manager.ts:531`; spec 22:18). The same holds of a terminal
  status and its event: recovery skips the run, a governed run's reservation stays open.
- The snapshot shows no lease for a run in `waiting-approval` (`run-manager.ts:429`; spec
  21:30).
- After a crash between binding and reservation, a resumed saga does not look at the turn
  key again, and two requests may consume one key (`goal-admission.ts:233`; spec 58:162, ADR
  0036:39). A duplicate that meets `RUN_ID_CONFLICT` while the first still recalls memory
  releases the reservation under which the first then runs.
- Setting the memory mode to off leaves the sidecar running (`agent-memory-settings.ts:183`;
  spec 39:408). A `start()` that overlaps an update can overwrite the sidecar in use; a
  `close()` during an update leaves the new sidecar behind. `QuietIsConsistent` excepts both.
- A restore that cannot remove its `previous` or a temporary file says nothing of it: it
  reports plain failure, or success, and the `previous` that stays makes every later apply
  refuse (`restore-apply.ts:115`, `:185`, `:188-194`). `EndsWhole` allows what a failed
  removal left.
- A host process that cannot be signalled outlives its call, which fails with
  `PROCESS_START_FAILED` (`host-process.ts:257`); the run goes on and its lease with it.
  `ProcessesAreHeld` excepts it.
- A patch of an MCP server's version or transport while an activation opens it goes unnoticed:
  `ready` then stands for a session with the server of before (`mcp-settings.ts:160`).
- Disabling MCP leaves the active binding in place for later runs (ADR 0023), a late
  activation with the same revision replaces a newer good binding, one timeout closes a
  session for all its runs while the status stays ready, and a `start()` that throws after
  the capture keeps its reference and run id until the daemon restarts.
- A grant's key has no arguments: for a tool that does not always prompt, one approval
  covers every later call of the tool until its ttl (`packages/policy/src/index.ts:70`).
- A write of the daemon between a restore's last check and its rename is lost.

## 6. Not modelled, and why

The models cover the control state of the daemon's core; by lines that is a small share of
the repository, most of which is a web interface, HTTP routes and their validation, model
clients, schemas, configuration records and scripts. Those have little state that two actors
share, and a model of them would repeat them.

- Model output, context selection, token accounting, titles' text, HTTP parsing, SQL: no
  control state depends on them.
- `retryRecovered` and branching: they start another run from an old configuration.
- `maxWallTimeMs` and the status `timed-out`: no code enters it.
- `expireQuota`: nothing calls it. Handoffs: nothing in the daemon depends on them.
- More than one goal: goals share nothing but the store.
- `EndedIsSettled` assumes that appends are refused as stale finitely often: the monitor tries
  again at each tick, but nothing keeps other requests from being first each time.
- An append that is durable and rejects all the same: a listener would have to throw in
  `publish()`, and neither of the two there are does.
- A crash inside the two appends of a recovery is in `RunLifecycle` only as the crash that
  follows one of them; in `GovernedRuns` a recovered run is marked and announced in one step.
- Clients number their attempts as they like; in `GovernedRuns` they all say 1. Which requests
  share a turn key is a constant (`KeyOf`); the run gives each its own.
- Memory: sidecars that die by themselves, orphans left by a crash, the providers. A `start()`
  that overlaps another one, which two patches of the settings can bring about
  (`agent-memory-settings.ts:184`), or that a `close()` overlaps: in `MemoryRuntime` a patch
  and `close()` wait for the `start()` under way.
- MCP: the live activation service is modelled although the daemon does not construct it
  yet; the skill catalogue, capability schemas and a disconnect with no call pending are not.
- Restore: only the main database file is copied, as in the code; the write-ahead log is not
  followed, nor what the daemon writes after a restore.
- A second daemon on the same database: the repository allows one.

## 7. Plan

Done: the modules of section 2 and the proofs of section 4, which leave no safety property
of the passing runs but `PumpIsTheLoop` to model checking alone.

Next models: `GoalClaims`, claims and gates of Goal Control v0, which `GovernedRuns` takes
as an arbitrary refusal, and what the monitor may assume of active runs when it launches;
pairing and sessions of `packages/auth`; the renewal of certificates.

Next proofs: those of the new models, and from `StreamServesTheLog` on, that a stream over
the logs of `RunLifecycle` itself keeps `NoGapNoRepeat`.
