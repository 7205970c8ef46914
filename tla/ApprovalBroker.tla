--------------------------- MODULE ApprovalBroker ---------------------------
(***************************************************************************)
(* InMemoryApprovalBroker of packages/agent/src/approval.ts.               *)
(*                                                                         *)
(* A tool call that needs the user's consent waits on a promise that three *)
(* parties race to settle: the user's decision (decide), the timer         *)
(* (expire) and the run's abort signal (onAbort).  Settled requests are    *)
(* remembered in a bounded history so that late decisions get an answer.   *)
(***************************************************************************)
EXTENDS Integers, Sequences, FiniteSets

CONSTANTS
    Calls,       \* calls of waitForDecision()
    IdOf,        \* the approvalId of each call
    RunOf,       \* the runId of each call
    MaxPending,  \* options.maxPending
    MaxHistory,  \* options.maxHistory
    NoRun        \* a decide() that names no run

ASSUME BrokerAssumption ==
    /\ MaxPending \in Nat \ {0}
    /\ MaxHistory \in Nat \ {0}
    /\ NoRun \notin {RunOf[c] : c \in Calls}

VARIABLES
    pending,  \* pendingEntries: the calls whose entry is in the map
    history,  \* history: settled requests, oldest first
    promise,  \* what each call's promise has come to
    due,      \* the calls whose expiresAt has passed
    aborted,  \* the runs whose abort signal has fired
    reply     \* the answer of the decide() that ended last

vars == <<pending, history, promise, due, aborted, reply>>

Ids == {IdOf[c] : c \in Calls}
Runs == {RunOf[c] : c \in Calls}
Decisions == {"allow", "deny"}
Verdicts == Decisions \cup {"expired", "cancelled"}
NoReply == [id |-> "none", result |-> "none"]

-----------------------------------------------------------------------------
(* Helpers *)

InHistory(i) == \E n \in 1 .. Len(history) : history[n].id = i

\* remember(): the oldest entry makes room for the new one.
Remember(h, c, verdict) ==
    Append(IF Len(h) >= MaxHistory THEN Tail(h) ELSE h,
           [id |-> IdOf[c], run |-> RunOf[c], state |-> verdict])

\* The entry leaves the map, is remembered, and its promise settles.
Settle(c, verdict) ==
    /\ pending' = pending \ {c}
    /\ history' = Remember(history, c, verdict)
    /\ promise' = [promise EXCEPT ![c] = verdict]

\* The promise of a request that never enters the map.
Refuse(c, verdict) ==
    /\ history' = Remember(history, c, verdict)
    /\ promise' = [promise EXCEPT ![c] = verdict]
    /\ UNCHANGED pending

-----------------------------------------------------------------------------
(* Operations *)

Init ==
    /\ pending = {}
    /\ history = <<>>
    /\ promise = [c \in Calls |-> "idle"]
    /\ due = {}
    /\ aborted = {}
    /\ reply = NoReply

\* waitForDecision(): over capacity or a used id is an error; a request already
\* past its deadline, or of an aborted run, is settled and remembered at once.
\* The agent loop makes its calls in turn, so a run waits for one decision at most.
Wait(c) ==
    /\ promise[c] = "idle"
    /\ \A d \in pending : RunOf[d] # RunOf[c]
    /\ reply' = NoReply
    /\ UNCHANGED <<due, aborted>>
    /\ IF \/ Cardinality(pending) >= MaxPending
          \/ \E d \in pending : IdOf[d] = IdOf[c]
          \/ InHistory(IdOf[c])
       THEN promise' = [promise EXCEPT ![c] = "capacity"] /\ UNCHANGED <<pending, history>>
       ELSE IF c \in due THEN Refuse(c, "expired")
       ELSE IF RunOf[c] \in aborted THEN Refuse(c, "cancelled")
       ELSE /\ pending' = pending \cup {c}
            /\ promise' = [promise EXCEPT ![c] = "waiting"]
            /\ UNCHANGED history

\* Time passes a request's expiresAt.
Due(c) ==
    /\ c \notin due
    /\ due' = due \cup {c}
    /\ reply' = NoReply
    /\ UNCHANGED <<pending, history, promise, aborted>>

ExpireUnresolved(c) ==
    /\ c \in pending
    /\ c \in due
    /\ history' = Remember(history, c, "expired")
    /\ reply' = NoReply
    /\ UNCHANGED <<pending, promise, due, aborted>>

\* expire(): the timer set for expiresAt fires.
Expire(c) ==
    /\ c \in pending
    /\ c \in due
    /\ Settle(c, "expired")
    /\ reply' = NoReply
    /\ UNCHANGED <<due, aborted>>

\* The signal of run r fires: onAbort() of its entry, if it has one, cancels it.
Abort(r) ==
    /\ r \notin aborted
    /\ aborted' = aborted \cup {r}
    /\ reply' = NoReply
    /\ UNCHANGED due
    /\ IF \E c \in pending : RunOf[c] = r
       THEN \E c \in pending : RunOf[c] = r /\ Settle(c, "cancelled")
       ELSE UNCHANGED <<pending, history, promise>>

Matches(r, run) == r = NoRun \/ r = run

DecideIgnoringDeadline(i, d, r) ==
    \E c \in pending :
        /\ IdOf[c] = i
        /\ Matches(r, RunOf[c])
        /\ Settle(c, d)
        /\ reply' = [id |-> i, result |-> "accepted"]
        /\ UNCHANGED <<due, aborted>>

DecideKeepsEntry(i, d, r) ==
    \E c \in pending :
        /\ IdOf[c] = i
        /\ Matches(r, RunOf[c])
        /\ c \notin due
        /\ promise' = [promise EXCEPT ![c] = d]
        /\ history' = Remember(history, c, d)
        /\ reply' = [id |-> i, result |-> "accepted"]
        /\ UNCHANGED <<pending, due, aborted>>

\* decide() of a pending request, in time.
DecideInTime(i, d, r) ==
    \E c \in pending :
        /\ IdOf[c] = i
        /\ Matches(r, RunOf[c])
        /\ c \notin due
        /\ Settle(c, d)
        /\ reply' = [id |-> i, result |-> "accepted"]
        /\ UNCHANGED <<due, aborted>>

DecideLateKeepsEntry(i, r) ==
    \E c \in pending :
        /\ IdOf[c] = i
        /\ Matches(r, RunOf[c])
        /\ c \in due
        /\ reply' = [id |-> i, result |-> "expired"]
        /\ UNCHANGED <<pending, history, promise, due, aborted>>

\* decide() after expiresAt, before the timer's callback has run: it expires the
\* request itself.
DecideLate(i, r) ==
    \E c \in pending :
        /\ IdOf[c] = i
        /\ Matches(r, RunOf[c])
        /\ c \in due
        /\ Settle(c, "expired")
        /\ reply' = [id |-> i, result |-> "expired"]
        /\ UNCHANGED <<due, aborted>>

\* decide() that finds nothing to settle: the history says what became of it.
DecideSettled(i, r) ==
    /\ ~\E c \in pending : IdOf[c] = i /\ Matches(r, RunOf[c])
    /\ reply' = [id |-> i, result |->
          IF \E c \in pending : IdOf[c] = i THEN "not-found"
          ELSE IF \E n \in 1 .. Len(history) :
                     /\ history[n].id = i
                     /\ Matches(r, history[n].run)
                     /\ history[n].state = "expired" THEN "expired"
          ELSE IF \E n \in 1 .. Len(history) :
                     /\ history[n].id = i
                     /\ Matches(r, history[n].run) THEN "already-decided"
          ELSE "not-found"]
    /\ UNCHANGED <<pending, history, promise, due, aborted>>

Decide(i, d, r) == DecideInTime(i, d, r) \/ DecideLate(i, r) \/ DecideSettled(i, r)

Next ==
    \/ \E c \in Calls : Wait(c) \/ Due(c) \/ Expire(c)
    \/ \E r \in Runs : Abort(r)
    \/ \E i \in Ids, d \in Decisions, r \in Runs \cup {NoRun} : Decide(i, d, r)

\* Clocks advance and due timers fire.
Fairness == \A c \in Calls : WF_vars(Due(c)) /\ WF_vars(Expire(c))

Spec == Init /\ [][Next]_vars /\ Fairness

-----------------------------------------------------------------------------
(* Properties *)

\* Shape of the state; in particular both maps stay within their limits.
TypeOK ==
    /\ pending \subseteq Calls
    /\ Cardinality(pending) <= MaxPending
    /\ history \in Seq([id : Ids, run : Runs, state : Verdicts])
    /\ Len(history) <= MaxHistory
    /\ promise \in [Calls -> Verdicts \cup {"idle", "waiting", "capacity"}]
    /\ due \subseteq Calls
    /\ aborted \subseteq Runs

\* The map and the promises agree: a call waits iff its entry is in the map, under
\* an id that no other entry and no remembered request has.
EntriesMatchPromises ==
    /\ TypeOK
    /\ pending = {c \in Calls : promise[c] = "waiting"}
    /\ \A c, d \in pending : IdOf[c] = IdOf[d] => c = d
    /\ \A c \in pending : ~InHistory(IdOf[c])

\* A late decider is told the truth: what the history remembers, and the answer
\* 'expired', are what some caller of that id was told.
LateAnswersAreTrue ==
    /\ \A n \in 1 .. Len(history) :
          \E c \in Calls : /\ IdOf[c] = history[n].id
                           /\ RunOf[c] = history[n].run
                           /\ promise[c] = history[n].state
    /\ reply.result = "expired" =>
          \E c \in Calls : IdOf[c] = reply.id /\ promise[c] = "expired"

WinsOnce ==
    /\ \A c \in Calls :
          /\ promise[c] \in Verdicts \cup {"capacity"} => promise'[c] = promise[c]
          /\ promise[c] = "waiting" /\ promise'[c] \in Decisions
                => c \notin due /\ RunOf[c] \notin aborted
    /\ (reply' # NoReply /\ reply'.result = "accepted") <=>
          \E c \in Calls : /\ promise[c] = "waiting"
                           /\ promise'[c] \in Decisions
                           /\ reply'.id = IdOf[c]

\* The race of decision, timer and abort has one winner, and both sides are told
\* the same: a settled promise never changes, no decision reaches an aborted run or
\* a request past its deadline, and decide() says 'accepted' exactly when it has
\* just delivered the decision to a request of that id.
OneWinner == [][WinsOnce]_vars

\* Every caller gets an answer.
EveryWaitEnds == \A c \in Calls : promise[c] = "waiting" ~> promise[c] # "waiting"
=============================================================================
