----------------------------- MODULE ToolCalls ------------------------------
(***************************************************************************)
(* A tool call of a run, from the model's request to its effect:           *)
(* executeToolCall of packages/agent/src/index.ts, the ToolExecutorRuntime *)
(* and ToolExecutor of packages/tool-adapters, the ApprovalPolicy and its  *)
(* grant cache of packages/policy, the SandboxResolver of packages/sandbox *)
(* and the HostRestrictedProcessRunner of packages/sandbox-runtime.        *)
(*                                                                         *)
(* A run makes its calls one after the other.  Each runtime has a policy   *)
(* of its own, made for the run, so grants are kept per run.  Their key    *)
(* has no arguments: calls of one tool share it.  Between any two awaits   *)
(* of a call its run may be cancelled, and a grant may run out.            *)
(*                                                                         *)
(* The approval broker is here only what it promises: one answer, unless   *)
(* the run is cancelled first (module ApprovalBroker).                     *)
(***************************************************************************)
EXTENDS FiniteSets

CONSTANTS
    Runs, Calls,
    RunOf,     \* the run of each call
    KeyOf,     \* createApprovalCacheKey of its intent
    KindOf,    \* "read", "ask" or "forbidden"; "strict" for alwaysPrompt
    Processes  \* the calls whose handler starts a host process

ASSUME CallsAssumption ==
    /\ RunOf \in [Calls -> Runs]
    /\ \A c \in Calls : KindOf[c] \in {"read", "ask", "strict", "forbidden"}
    /\ \A c, d \in Calls : KeyOf[c] = KeyOf[d] => KindOf[c] = KindOf[d]
    /\ Processes \subseteq Calls

VARIABLES
    phase,   \* where each call is
    retried, \* the calls at their second attempt
    grants,  \* SessionApprovalCache of each run: the keys that have not expired
    aborted, \* the runs whose signal is aborted
    over,    \* the runs whose loop has returned
    process, \* the host process of each call
    allowed, \* the calls the user allowed
    ran      \* the calls that took effect

vars == <<phase, retried, grants, aborted, over, process, allowed, ran>>

Keys == {KeyOf[c] : c \in Calls}
Active == {"starting", "resolving", "planning", "running", "waiting", "granting"}
\* The host process is there, and so is whoever waits for it.
Alive == {"running", "terminating"}

Init ==
    /\ phase = [c \in Calls |-> "idle"]
    /\ retried = {} /\ allowed = {} /\ ran = {}
    /\ grants = [r \in Runs |-> {}]
    /\ aborted = {} /\ over = {}
    /\ process = [c \in Calls |-> "none"]

At(c, p) == phase[c] = p
Go(c, p) == phase' = [phase EXCEPT ![c] = p]

\* The call ends, and its run goes on.
Return(c) == Go(c, "done") /\ UNCHANGED over

\* The call ends, and its run fails or is cancelled with it.
Fail(c) == Go(c, "done") /\ over' = over \cup {RunOf[c]}

-----------------------------------------------------------------------------
(* Policy *)

\* ApprovalPolicy.evaluate: the static refusals, the cache, the policy.
Evaluate(c) ==
    IF KindOf[c] = "forbidden" THEN "forbidden"
    ELSE IF KindOf[c] = "read" \/ KeyOf[c] \in grants[RunOf[c]] THEN "allow" ELSE "prompt"

\* A mutant of Consume: every grant lasts until it expires.
ConsumeNothing(c) == UNCHANGED grants

\* SessionApprovalCache.has: an alwaysPrompt grant is good for one look.
Consume(c) ==
    grants' = IF KindOf[c] = "strict"
              THEN [grants EXCEPT ![RunOf[c]] = @ \ {KeyOf[c]}] ELSE grants

\* A grant is older than the ttl it was given.
Lapse(r, k) ==
    /\ k \in grants[r]
    /\ grants' = [grants EXCEPT ![r] = @ \ {k}]
    /\ UNCHANGED <<phase, retried, aborted, over, process, allowed, ran>>

-----------------------------------------------------------------------------
(* The call *)

\* tool.requested and tool.started are appended; or the tool is unknown, or
\* its arguments are no JSON, which the model is told.
Request(c) ==
    /\ At(c, "idle") /\ RunOf[c] \notin over
    /\ \A d \in Calls : RunOf[d] = RunOf[c] => phase[d] \notin Active
    /\ Go(c, "starting") \/ Go(c, "done")
    /\ UNCHANGED <<retried, grants, aborted, over, process, allowed, ran>>

\* ToolExecutor.execute, up to the sandbox.  The first refusal for want of
\* consent asks the user, the second one fails the run.
Execute(c) ==
    /\ At(c, "starting")
    /\ \/ Evaluate(c) = "allow" /\ Go(c, "resolving") /\ UNCHANGED over
       \/ Evaluate(c) = "forbidden" /\ Fail(c)
       \/ Evaluate(c) = "prompt" /\ IF c \in retried THEN Fail(c)
                                     ELSE Go(c, "waiting") /\ UNCHANGED over
    /\ Consume(c)
    /\ UNCHANGED <<retried, aborted, process, allowed, ran>>

\* The sandbox is there or not; then the handler runs, whether the run is
\* cancelled by now or not.  It refuses its input, or takes effect, or, if it
\* needs a process, plans it.
Handle(c) ==
    /\ At(c, "resolving")
    /\ \/ Fail(c) /\ UNCHANGED ran
       \/ Return(c) /\ UNCHANGED ran
       \/ /\ c \in Processes
          /\ Go(c, "planning") /\ UNCHANGED <<over, ran>>
       \/ /\ c \notin Processes
          /\ Return(c) \/ Fail(c)
          /\ ran' = ran \cup {c}
    /\ UNCHANGED <<retried, grants, aborted, process, allowed>>

\* waitForDecision is answered; deny and expired fail the run.
Decide(c, decision) ==
    /\ At(c, "waiting") /\ RunOf[c] \notin aborted
    /\ IF decision = "allow"
       THEN Go(c, "granting") /\ allowed' = allowed \cup {c} /\ UNCHANGED over
       ELSE Fail(c) /\ UNCHANGED allowed
    /\ UNCHANGED <<retried, grants, aborted, process, ran>>

\* waitForDecision is rejected, as its run is cancelled.
Cancelled(c) ==
    /\ At(c, "waiting") /\ RunOf[c] \in aborted
    /\ Fail(c)
    /\ UNCHANGED <<retried, grants, aborted, process, allowed, ran>>

\* The decision is recorded, the runtime told of it, and the call tried again.
Approve(c) ==
    /\ At(c, "granting")
    /\ IF Evaluate(c) = "prompt"
       THEN /\ grants' = [grants EXCEPT ![RunOf[c]] = @ \cup {KeyOf[c]}]
            /\ retried' = retried \cup {c}
            /\ Go(c, "starting") /\ UNCHANGED over
       ELSE Fail(c) /\ Consume(c) /\ UNCHANGED retried
    /\ UNCHANGED <<aborted, process, allowed, ran>>

-----------------------------------------------------------------------------
(* Host processes *)

\* The signal the handler is given, as ToolExecutor.execute links it.
Aborted(c) == RunOf[c] \in aborted

\* HostRestrictedProcessRunner.run, after its plan: no process for a run that
\* is cancelled; or none, as the plan is refused or the spawn fails.
Spawn(c) ==
    /\ At(c, "planning")
    /\ \/ Fail(c) /\ UNCHANGED <<process, ran>>
       \/ /\ Aborted(c)
          /\ Return(c) /\ UNCHANGED <<process, ran>>
       \/ /\ ~Aborted(c)
          /\ Go(c, "running") /\ UNCHANGED over
          /\ process' = [process EXCEPT ![c] = "running"]
          /\ ran' = ran \cup {c}
    /\ UNCHANGED <<retried, grants, aborted, allowed>>

\* A mutant of Terminate: the call ends without its process.
TerminateAndSettle(c) ==
    /\ At(c, "running") /\ process[c] = "running"
    /\ process' = [process EXCEPT ![c] = "terminating"]
    /\ Return(c)
    /\ UNCHANGED <<retried, grants, aborted, allowed, ran>>

\* A mutant of Terminate: the signal fails, and that is all.
TerminateFails(c) == At(c, "running") /\ process[c] = "running" /\ UNCHANGED vars

\* terminate, at the time limit or the output limit.
Terminate(c) ==
    /\ At(c, "running") /\ process[c] = "running"
    /\ process' = [process EXCEPT ![c] = "terminating"]
    /\ UNCHANGED <<phase, retried, grants, aborted, over, allowed, ran>>

\* child.once('error'): the process that is told to terminate cannot be signalled, for
\* want of permission.  Its call is rejected, and it goes on.
Escape(c) ==
    /\ At(c, "running") /\ process[c] = "terminating"
    /\ process' = [process EXCEPT ![c] = "escaped"]
    /\ Return(c) \/ Fail(c)
    /\ UNCHANGED <<retried, grants, aborted, allowed, ran>>

\* settle: the process is gone and its output closed.
Close(c) ==
    /\ At(c, "running") /\ process[c] \in Alive
    /\ process' = [process EXCEPT ![c] = "gone"]
    /\ Return(c) \/ Fail(c)
    /\ UNCHANGED <<retried, grants, aborted, allowed, ran>>

-----------------------------------------------------------------------------
(* Runs *)

\* The run is cancelled: its process is terminated.
Abort(r) ==
    /\ r \notin aborted \cup over
    /\ aborted' = aborted \cup {r}
    /\ process' = [c \in Calls |-> IF RunOf[c] = r /\ process[c] = "running"
                                   THEN "terminating" ELSE process[c]]
    /\ UNCHANGED <<phase, retried, grants, over, allowed, ran>>

\* The model asks for no more.
Finish(r) ==
    /\ r \notin over
    /\ \A c \in Calls : RunOf[c] = r => phase[c] \notin Active
    /\ over' = over \cup {r}
    /\ UNCHANGED <<phase, retried, grants, aborted, process, allowed, ran>>

Step(c) ==
    Execute(c) \/ Handle(c) \/ Cancelled(c) \/ Approve(c) \/ Spawn(c) \/ Terminate(c)

Next ==
    \/ \E c \in Calls : Request(c) \/ Step(c) \/ Close(c) \/ Escape(c)
    \/ \E c \in Calls, decision \in {"allow", "deny", "expired"} : Decide(c, decision)
    \/ \E r \in Runs : Abort(r) \/ Finish(r)
    \/ \E r \in Runs, k \in Keys : Lapse(r, k)

\* The loop goes on, requests for consent expire, limits are timers, and a
\* process that is told to terminate does, or cannot be told (an assumption:
\* SIGTERM is the last resort of defaultTerminateTree).
Fairness ==
    \A c \in Calls :
        /\ WF_vars(Step(c)) /\ WF_vars(Decide(c, "expired"))
        /\ WF_vars(process[c] = "terminating" /\ (Close(c) \/ Escape(c)))

Spec == Init /\ [][Next]_vars /\ Fairness

-----------------------------------------------------------------------------
(* Properties *)

TypeOK ==
    /\ phase \in [Calls -> Active \cup {"idle", "done"}]
    /\ retried \subseteq Calls /\ allowed \subseteq Calls /\ ran \subseteq Calls
    /\ grants \in [Runs -> SUBSET Keys]
    /\ aborted \subseteq Runs /\ over \subseteq Runs
    /\ process \in [Calls -> Alive \cup {"none", "gone", "escaped"}]

\* What takes effect has the user's consent, whatever grants were kept, spent,
\* or ran out before: reads need none; a call with alwaysPrompt needs its own;
\* any other needs its own or that of an earlier call of its run with its key.
EffectHasConsent ==
    /\ TypeOK
    /\ \A c \in ran :
         \/ KindOf[c] = "read"
         \/ c \in allowed
         \/ /\ KindOf[c] = "ask"
            /\ \E d \in allowed : RunOf[d] = RunOf[c] /\ KeyOf[d] = KeyOf[c]

\* A host process never outlives the call that started it, hence the lease of
\* its run, but for one that the system does not let the daemon signal (see
\* Escape); a run waits for one at most; and once a run is cancelled, none of
\* its processes starts, and the one that runs has been told to terminate.
ProcessesAreHeld ==
    \A c \in Calls :
        /\ process[c] \in Alive => At(c, "running") /\ RunOf[c] \notin over
        /\ process[c] = "running" => RunOf[c] \notin aborted
        /\ \A d \in Calls \ {c} :
             RunOf[d] = RunOf[c] => ~(process[c] \in Alive /\ process[d] \in Alive)

\* A call that is requested ends, so its run can: with a result, a refusal or a
\* failure, whoever does not answer and however late it is cancelled.
EveryCallEnds == \A c \in Calls : At(c, "starting") ~> At(c, "done")
=============================================================================
