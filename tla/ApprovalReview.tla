--------------------------- MODULE ApprovalReview ---------------------------
(***************************************************************************)
(* ApprovalReviewBroker of packages/agent/src/approval-review-broker.ts,   *)
(* with the reviewer of approval-review.ts, around the ApprovalBroker.     *)
(*                                                                         *)
(* Each request for consent is put to the user, through the broker, and,   *)
(* next to it, to a model that reviews it.  Requests with one key share a  *)
(* review in flight, and its answer is cached.  The reviewer may speed up  *)
(* an allow; the broker stays the only authority.  RunManager disposes of  *)
(* a run's reviews when the run's promise settles.                         *)
(*                                                                         *)
(* A review is named by the call that began it.  Its promise settles in    *)
(* three microtasks, between which the callbacks of others may run: the    *)
(* reviewer answers (Review), the answer is audited and cached (Record),   *)
(* and the review leaves the map (Leave); then each waiter's handler runs. *)
(***************************************************************************)
EXTENDS Integers, Sequences, FiniteSets

CONSTANTS
    Calls, IdOf, RunOf, MaxPending, MaxHistory, NoRun,  \* see ApprovalBroker
    KeyOf,      \* the cache key of each call: run, turn, call id, tool, revisions
    LowRisk,    \* the keys that pass the eligibility checks
    PostureOf,  \* snapshot.posture of each run: "off", "advisory" or "auto"
    None

ASSUME ReviewAssumption ==
    /\ MaxPending \in Nat \ {0} /\ MaxHistory \in Nat \ {0}
    /\ NoRun \notin {RunOf[c] : c \in Calls}
    /\ IsFiniteSet(Calls)
    /\ \A c, d \in Calls : KeyOf[c] = KeyOf[d] => RunOf[c] = RunOf[d]
    /\ \A c, d \in Calls : IdOf[c] = IdOf[d] => c = d
    /\ \A c \in Calls : PostureOf[RunOf[c]] \in {"off", "advisory", "auto"}
    /\ None \notin Calls

VARIABLES
    pending, history, promise, due, aborted, reply,  \* see ApprovalBroker
    phase,     \* how far each call's own review has come
    answer,    \* its decision
    verdicts,  \* the terminal events emitted for it, in order
    cancelled, \* the reviews whose controller is aborted
    revoked,   \* entry.revoked
    waiters,   \* entry.waiters
    inFlight,  \* inFlight: the review under each key
    cache,     \* cache: the review whose answer is kept under each key
    lapsed,    \* the reviews begun more than cacheTtlMs ago
    handle,    \* the review each call waits for
    counted,   \* the calls with a share in waiters that they have not released
    done,      \* the calls whose handler of the answer has run
    disposed   \* the runs that are over

broker == <<pending, history, promise, due, aborted, reply>>
review == <<phase, answer, verdicts, cancelled, revoked, waiters>>
maps == <<inFlight, cache, lapsed>>
sides == <<handle, counted, done, disposed>>
vars == <<broker, review, maps, sides>>

Broker == INSTANCE ApprovalBroker

Keys == {KeyOf[c] : c \in Calls}
Runs == {RunOf[c] : c \in Calls}
Answers == {"allow", "deny", "unavailable"}
Phases == {"none", "asked", "answered", "recorded", "settled"}

Init ==
    /\ Broker!Init
    /\ phase = [c \in Calls |-> "none"]
    /\ answer = [c \in Calls |-> None]
    /\ verdicts = [c \in Calls |-> <<>>]
    /\ cancelled = {} /\ revoked = {} /\ lapsed = {}
    /\ waiters = [c \in Calls |-> 0]
    /\ inFlight = [k \in Keys |-> None]
    /\ cache = [k \in Keys |-> None]
    /\ handle = [c \in Calls |-> None]
    /\ counted = {} /\ done = {} /\ disposed = {}

-----------------------------------------------------------------------------
(* Waiting *)

\* expiresAt > now: of the entry, which ends with its request's deadline too.
Fresh(v) == v \notin due \cup lapsed

Begin(c) ==
    /\ phase' = [phase EXCEPT ![c] = "asked"]
    /\ waiters' = [waiters EXCEPT ![c] = 1]
    /\ inFlight' = [inFlight EXCEPT ![KeyOf[c]] = c]
    /\ handle' = [handle EXCEPT ![c] = c]
    /\ counted' = counted \cup {c}

Join(c) ==
    LET v == inFlight[KeyOf[c]] IN
    /\ waiters' = [waiters EXCEPT ![v] = @ + 1]
    /\ handle' = [handle EXCEPT ![c] = v]
    /\ counted' = counted \cup {c}
    /\ UNCHANGED <<phase, inFlight>>

\* reviewOnce(): a fresh cached answer, else the review in flight, else a new one.
ReviewOnce(c) ==
    LET k == KeyOf[c]
        hit == cache[k] # None /\ Fresh(cache[k])
    IN /\ UNCHANGED <<answer, verdicts, cancelled, revoked, lapsed, done, disposed>>
       /\ cache' = IF hit THEN cache ELSE [cache EXCEPT ![k] = None]
       /\ IF hit THEN /\ handle' = [handle EXCEPT ![c] = cache[k]]
                      /\ UNCHANGED <<phase, waiters, inFlight, counted>>
          ELSE IF inFlight[k] # None THEN Join(c)
          ELSE Begin(c)

\* waitForDecision(): the normal request first, whatever becomes of it, then the
\* review, unless the run has none.  A run that is over makes no more requests.
Wait(c) ==
    /\ RunOf[c] \notin disposed
    /\ Broker!Wait(c)
    /\ IF PostureOf[RunOf[c]] = "off" THEN UNCHANGED <<review, maps, sides>> ELSE ReviewOnce(c)

\* handle.release() of the calls cs of one run: the last one out aborts the review.
Release(cs) ==
    LET left == [v \in Calls |->
                   waiters[v] - Cardinality({c \in cs \cap counted : handle[c] = v})]
    IN /\ waiters' = left
       /\ counted' = counted \ cs
       /\ cancelled' = cancelled \cup
             {v \in Calls : left[v] = 0 /\ \E c \in cs \cap counted : handle[c] = v}

\* The run's signal fires: the broker's listener, then onAbort() of each waiter.
Abort(r) ==
    /\ Broker!Abort(r)
    /\ Release({c \in Calls : RunOf[c] = r})
    /\ UNCHANGED <<phase, answer, verdicts, revoked, maps, handle, done, disposed>>

-----------------------------------------------------------------------------
(* The reviewer *)

\* preflight(): trust, risk, network, sandbox and permission of the request.
Eligible(v) == KeyOf[v] \in LowRisk

\* mapModelOutput(): an allow that comes after the request's deadline is a timeout.
InTime(v, a) == a = "allow" => v \notin due

\* review(): unavailable if it is not eligible, cancelled, too late or failed;
\* maxLatencyMs bounds it.
Review(v) ==
    /\ phase[v] = "asked"
    /\ \E a \in Answers :
          /\ ~Eligible(v) \/ v \in cancelled => a = "unavailable"
          /\ InTime(v, a)
          /\ answer' = [answer EXCEPT ![v] = a]
    /\ phase' = [phase EXCEPT ![v] = "answered"]
    /\ UNCHANGED <<broker, verdicts, cancelled, revoked, waiters, maps, sides>>

\* emitTerminalEvent()
Emitted(v, verdict) == [verdicts EXCEPT ![v] = Append(@, verdict)]

RecordAnyway(v) ==
    /\ phase[v] = "answered"
    /\ verdicts' = Emitted(v, answer[v])
    /\ cache' = IF Fresh(v) THEN [cache EXCEPT ![KeyOf[v]] = v] ELSE cache
    /\ phase' = [phase EXCEPT ![v] = "recorded"]
    /\ UNCHANGED <<broker, answer, cancelled, revoked, waiters, inFlight, lapsed, sides>>

RecordUnlessRevoked(v) == v \notin revoked /\ RecordAnyway(v)

\* The answer is audited, unless the revocation was, and cached in any case.
Record(v) ==
    /\ phase[v] = "answered"
    /\ verdicts' = IF v \in revoked THEN verdicts ELSE Emitted(v, answer[v])
    /\ cache' = IF Fresh(v) THEN [cache EXCEPT ![KeyOf[v]] = v] ELSE cache
    /\ phase' = [phase EXCEPT ![v] = "recorded"]
    /\ UNCHANGED <<broker, answer, cancelled, revoked, waiters, inFlight, lapsed, sides>>

\* finally: the review leaves the map, if the map still has it.
Leave(v) ==
    /\ phase[v] = "recorded"
    /\ inFlight' = [inFlight EXCEPT ![KeyOf[v]] = IF @ = v THEN None ELSE @]
    /\ phase' = [phase EXCEPT ![v] = "settled"]
    /\ UNCHANGED <<broker, answer, verdicts, cancelled, revoked, waiters, cache, lapsed, sides>>

\* cacheTtlMs passes (for a run that is over it makes no difference).
Lapse(v) ==
    /\ phase[v] # "none"
    /\ RunOf[v] \notin disposed
    /\ v \notin lapsed
    /\ lapsed' = lapsed \cup {v}
    /\ UNCHANGED <<broker, review, inFlight, cache, sides>>

-----------------------------------------------------------------------------
(* The answer *)

ResolvesExpired(c, v) ==
    /\ PostureOf[RunOf[c]] = "auto"
    /\ answer[v] = "allow"
    /\ Eligible(c)

\* shouldAutoResolve(): an allow is good until the deadline of the review's request.
ShouldAutoResolve(c, v) ==
    /\ PostureOf[RunOf[c]] = "auto"
    /\ answer[v] = "allow"
    /\ v \notin due
    /\ Eligible(c)

ResolvesItself(c) ==
    /\ promise' = [promise EXCEPT ![c] = "allow"]
    /\ UNCHANGED <<pending, history, due, aborted, reply>>

\* delegate.decide(): the broker has the last word.
Resolve(c) == Broker!Decide(IdOf[c], "allow", RunOf[c])

\* The waiter's handlers: decide for the user, or not, and release.
Finish(c) ==
    LET v == handle[c] IN
    /\ v # None
    /\ c \notin done
    /\ phase[v] = "settled"
    /\ IF RunOf[c] \notin aborted /\ ShouldAutoResolve(c, v)
       THEN Resolve(c)
       ELSE UNCHANGED broker
    /\ Release({c})
    /\ done' = done \cup {c}
    /\ UNCHANGED <<phase, answer, verdicts, revoked, maps, handle, disposed>>

-----------------------------------------------------------------------------
(* The rest *)

\* disposeRun(), when the run's promise has settled: it waits for nothing then.
Dispose(r) ==
    LET mine == {v \in Calls : RunOf[v] = r /\ inFlight[KeyOf[v]] = v} IN
    /\ r \notin disposed
    /\ \A c \in pending : RunOf[c] # r
    /\ disposed' = disposed \cup {r}
    /\ cache' = [k \in Keys |-> IF cache[k] # None /\ RunOf[cache[k]] = r THEN None ELSE cache[k]]
    /\ verdicts' = [v \in Calls |-> IF v \in mine \ revoked THEN Append(verdicts[v], "revoked")
                                    ELSE verdicts[v]]
    /\ revoked' = revoked \cup mine
    /\ cancelled' = cancelled \cup mine
    /\ inFlight' = [k \in Keys |-> IF inFlight[k] \in mine THEN None ELSE inFlight[k]]
    /\ UNCHANGED <<broker, phase, answer, waiters, lapsed, handle, counted, done>>

\* The broker's own events: deadlines, timers, and the user's decisions (those that
\* name another run are the broker's matter alone).
Due(c) == Broker!Due(c) /\ UNCHANGED <<review, maps, sides>>
Expire(c) == Broker!Expire(c) /\ UNCHANGED <<review, maps, sides>>
Decide(c, d) == Broker!Decide(IdOf[c], d, RunOf[c]) /\ UNCHANGED <<review, maps, sides>>

Next ==
    \/ \E c \in Calls : Wait(c) \/ Due(c) \/ Expire(c) \/ Finish(c)
    \/ \E v \in Calls : Review(v) \/ Record(v) \/ Leave(v) \/ Lapse(v)
    \/ \E r \in Runs : Abort(r) \/ Dispose(r)
    \/ \E c \in Calls, d \in Broker!Decisions : Decide(c, d)

\* Clocks advance, timers fire (the reviewer's own deadline too), promises settle.
Fairness ==
    \A c \in Calls : /\ WF_vars(Due(c)) /\ WF_vars(Expire(c))
                     /\ WF_vars(Review(c)) /\ WF_vars(Record(c)) /\ WF_vars(Leave(c))
                     /\ WF_vars(Finish(c))

Spec == Init /\ [][Next]_vars /\ Fairness

-----------------------------------------------------------------------------
(* Properties *)

TypeOK ==
    /\ Broker!TypeOK
    /\ phase \in [Calls -> Phases]
    /\ answer \in [Calls -> Answers \cup {None}]
    /\ verdicts \in [Calls -> Seq(Answers \cup {"revoked"})]
    /\ waiters \in [Calls -> 0 .. Cardinality(Calls)]
    /\ inFlight \in [Keys -> Calls \cup {None}]
    /\ cache \in [Keys -> Calls \cup {None}]
    /\ handle \in [Calls -> Calls \cup {None}]
    /\ cancelled \cup revoked \cup lapsed \cup counted \cup done \subseteq Calls
    /\ disposed \subseteq Runs
    /\ \A v \in Calls : waiters[v] = Cardinality({c \in counted : handle[c] = v})

\* The provider is asked once for a key at a time: of two reviews of one key that are
\* under way, at least one has been cancelled.
AskedOnce ==
    \A u, v \in Calls :
        /\ u # v /\ KeyOf[u] = KeyOf[v]
        /\ {phase[u], phase[v]} \subseteq {"asked", "answered"}
        => u \in cancelled \/ v \in cancelled

\* A review that is over has a verdict: an answer, a revocation, or an answer and then
\* a revocation.  Nothing follows a revocation.
TrailIsSound ==
    \A v \in Calls :
        /\ phase[v] = "settled" => verdicts[v] # <<>>
        /\ \A m, n \in 1 .. Len(verdicts[v]) :
              m < n => verdicts[v][m] # "revoked" /\ verdicts[v][n] = "revoked"

\* The provider is asked once for a key at a time, and the audit trail of a review that is
\* over has a verdict, whoever disposed of it meanwhile: its answer or its revocation.  A
\* run that ends in the microtask between an answer's audit and the review's leaving adds
\* a revocation to the answer.
OneVerdict == TypeOK /\ AskedOnce /\ TrailIsSound

\* The reviewer's allow reaches only a waiting request of a live run that opted in,
\* of the reviewed key, and only while the reviewed request is in time.
AllowIsWarranted ==
    [][\A c \in Calls :
          done' # done /\ promise'[c] # promise[c] =>
             /\ promise[c] = "waiting" /\ promise'[c] \in {"allow", "expired"}
             /\ RunOf[c] \notin aborted \cup disposed
             /\ PostureOf[RunOf[c]] = "auto"
             /\ \E v \in Calls : /\ KeyOf[v] = KeyOf[c] /\ KeyOf[v] \in LowRisk
                                 /\ answer[v] = "allow" /\ v \notin due]_vars

\* "The delegate remains the only ApprovalBroker authority": with the reviewer at
\* its side, each step is one the broker may take by itself, or none of its own.
KeepsAuthority == Broker!Init /\ [][Broker!Next]_broker

\* Every review ends, and with it every call's wait for its answer.
EveryReviewEnds == \A c \in Calls : handle[c] # None ~> c \in done

=============================================================================
