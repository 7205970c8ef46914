------------------------------ MODULE Scheduler ------------------------------
(***************************************************************************)
(* The admission scheduler of packages/scheduler/src/index.ts.             *)
(*                                                                         *)
(* A run asks for one lease (acquire): a share of each resource kind and   *)
(* read or write access to a workspace.  Requests that do not fit wait in  *)
(* a queue; pump() grants, in priority and then arrival order, every       *)
(* queued request that fits next to the leases in force.  The class is     *)
(* synchronous, so each method with the pump() it ends in is one action.   *)
(***************************************************************************)
EXTENDS Integers, FiniteSets

CONSTANTS
    Requests,       \* SchedulerRequest values: [run, workspace, access, priority, need]
    Kinds,          \* ResourceKind: model calls, tool processes, external sandboxes
    Capacity,       \* the policy's limit per kind
    MaxActiveRuns,  \* the policy's limit on leases in force
    MaxAcquires     \* model bound on the acquire() calls that enter the queue

ASSUME SchedulerAssumption ==
    /\ MaxActiveRuns \in Nat
    /\ MaxAcquires \in Nat
    /\ Capacity \in [Kinds -> Nat]
    /\ \A q \in Requests :
          /\ q.access \in {"read", "write"}
          /\ q.priority \in {"interactive", "background"}
          /\ q.need \in [Kinds -> Nat]

VARIABLES
    order,     \* this.order: the number the next queued request gets
    queue,     \* this.queue: the waiting entries; order numbers give the array's order
    active,    \* this.active: the entries whose lease is in force
    granted,   \* every lease handed to a caller (the resolved promises)
    released   \* the leases whose `released` flag is set

vars == <<order, queue, active, granted, released>>

Entry == [order : Nat, req : Requests]

\* Leases a caller holds and has not given back.
Outstanding == granted \ released

-----------------------------------------------------------------------------
(* Admission *)

WorkspaceConflicts(q, p) ==
    /\ q.workspace = p.workspace
    /\ q.access = "write" \/ p.access = "write"

\* The units of kind k the entries of S hold, each as a slot of its own, and
\* their number: the sum activeResourceUsage() computes.
Slots(S, k) == UNION {{e} \X (1 .. e.req.need[k]) : e \in S}
Usage(S, k) == Cardinality(Slots(S, k))

CanGrantIgnoringWorkspace(q, S) ==
    /\ Cardinality(S) < MaxActiveRuns
    /\ \A k \in Kinds : Usage(S, k) + q.need[k] <= Capacity[k]

CanGrantWithoutNeed(q, S) ==
    /\ Cardinality(S) < MaxActiveRuns
    /\ \A k \in Kinds : Usage(S, k) <= Capacity[k]
    /\ \A e \in S : ~WorkspaceConflicts(e.req, q)

\* q fits next to the leases of S.
CanGrant(q, S) ==
    /\ Cardinality(S) < MaxActiveRuns
    /\ \A k \in Kinds : Usage(S, k) + q.need[k] <= Capacity[k]
    /\ \A e \in S : ~WorkspaceConflicts(e.req, q)

CanEverGrant(q) == \A k \in Kinds : q.need[k] <= Capacity[k]

\* A run is known while it waits or holds a lease; it may not ask again.
Known(r) == \E e \in queue \cup active : e.req.run = r

BeforeNewestFirst(e, f) ==
    \/ e.req.priority = "interactive" /\ f.req.priority # "interactive"
    \/ e.req.priority = f.req.priority /\ e.order > f.order

\* The order in which pickCandidateIndex() tries the queued entries.
Before(e, f) ==
    \/ e.req.priority = "interactive" /\ f.req.priority # "interactive"
    \/ e.req.priority = f.req.priority /\ e.order < f.order

PumpHeadOnly(q, a) ==
    \E G \in SUBSET q :
        /\ \A e \in q :
              e \in G <=> /\ CanGrant(e.req, a \cup {g \in G : Before(g, e)})
                          /\ {f \in q : Before(f, e)} \subseteq G
        /\ queue' = q \ G
        /\ active' = a \cup G
        /\ granted' = granted \cup G

\* pump(): the loop grants the first queued entry that fits until none does.  A
\* grant only takes room away, so the loop is one pass in order: an entry is
\* granted iff it fits next to a and the entries granted before it.
Pump(q, a) ==
    \E G \in SUBSET q :
        /\ \A e \in q : e \in G <=> CanGrant(e.req, a \cup {g \in G : Before(g, e)})
        /\ queue' = q \ G
        /\ active' = a \cup G
        /\ granted' = granted \cup G

-----------------------------------------------------------------------------
(* Operations *)

Init ==
    /\ order = 0
    /\ queue = {} /\ active = {}
    /\ granted = {} /\ released = {}

\* acquire(): a run already known and a request that can never fit are rejected
\* and change nothing; any other request is queued.
Acquire(q) ==
    /\ order < MaxAcquires
    /\ ~Known(q.run)
    /\ CanEverGrant(q)
    /\ order' = order + 1
    /\ Pump(queue \cup {[order |-> order, req |-> q]}, active)
    /\ UNCHANGED released

\* cancelQueued(): the run's entry leaves the queue and its promise is rejected.
CancelQueued(r) ==
    /\ \E e \in queue : e.req.run = r
    /\ queue' = {e \in queue : e.req.run # r}
    /\ UNCHANGED <<order, active, granted, released>>

ReleaseTwice(l) ==
    /\ l \in granted
    /\ released' = released \cup {l}
    /\ Pump(queue, {e \in active : e.req.run # l.req.run})
    /\ UNCHANGED order

ReleaseWithoutPump(l) ==
    /\ l \in Outstanding
    /\ released' = released \cup {l}
    /\ active' = {e \in active : e.req.run # l.req.run}
    /\ UNCHANGED <<order, queue, granted>>

\* lease.release(): the closure's flag makes a second call do nothing; the first
\* deletes whatever entry `active` has under the run's id.
Release(l) ==
    /\ l \in Outstanding
    /\ released' = released \cup {l}
    /\ Pump(queue, {e \in active : e.req.run # l.req.run})
    /\ UNCHANGED order

Next ==
    \/ \E q \in Requests : Acquire(q)
    \/ \E r \in {q.run : q \in Requests} : CancelQueued(r)
    \/ \E l \in granted : Release(l)

\* A caller gives every lease back: AgentLoop.run() releases in a finally block.
Fairness == WF_vars(\E l \in granted : Release(l))

Spec == Init /\ [][Next]_vars /\ Fairness

-----------------------------------------------------------------------------
(* Properties *)

\* The queue, the active map and the leases hold entries of the right shape.
TypeOK ==
    /\ order \in Nat
    /\ queue \subseteq Entry
    /\ active \subseteq Entry
    /\ granted \subseteq Entry
    /\ released \subseteq granted

\* The books of acquire(), pump() and release() agree with the callers: the
\* active map holds exactly the leases handed out and not given back, one per
\* run, so a late or repeated release() never frees another run's place and no
\* lease is lost.
BooksAgree ==
    /\ active = Outstanding
    /\ \A e, f \in queue \cup active : e.req.run = f.req.run => e = f

LeasesMatchBooks == TypeOK /\ BooksAgree

\* workspaceConflicts(): no two callers hold leases on one workspace when either
\* of them may write to it.
WorkspaceExclusive ==
    \A e, f \in Outstanding : e # f => ~WorkspaceConflicts(e.req, f.req)

\* canGrant(): the leases callers hold never exceed the policy's limits.
WithinCapacity ==
    /\ Cardinality(Outstanding) <= MaxActiveRuns
    /\ \A k \in Kinds : Usage(Outstanding, k) <= Capacity[k]

\* pump() is called wherever room appears: no request waits while it would fit.
WorkConserving == \A e \in queue : ~CanGrant(e.req, active)

\* e asks for at least what f asks for, in the same workspace and class.
NoEasier(e, f) ==
    /\ e.req.workspace = f.req.workspace
    /\ e.req.access = f.req.access
    /\ e.req.priority = f.req.priority
    /\ \A k \in Kinds : f.req.need[k] <= e.req.need[k]

\* pickCandidateIndex() is first come, first served among peers: no step grants a
\* request and leaves an earlier one waiting that asks for no more of the same.
PeersInOrder ==
    [][\A e \in granted' \ granted : \A f \in queue' :
          NoEasier(e, f) => e.order < f.order]_vars

\* No wakeup is lost: once requests stop arriving (MaxAcquires bounds them) every
\* request that waits is granted or cancelled.
EveryWaiterLeaves ==
    \A n \in 0 .. MaxAcquires - 1 :
        (\E e \in queue : e.order = n) ~> ~(\E e \in queue : e.order = n)
=============================================================================
