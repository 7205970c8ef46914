---------------------------- MODULE GoalControl ----------------------------
(***************************************************************************)
(* The Goal Control write service of packages/goal-control/src/v1.ts, for  *)
(* one goal: what its event log says (the projection GoalControlProjection-*)
(* Builder computes) and what each mutation appends to it.  A mutation     *)
(* reads the projection and appends under the goal's lock, so it is one    *)
(* operator from projection to projection; the callers, which hold no lock *)
(* between two mutations, are in GovernedRuns.                             *)
(***************************************************************************)
EXTENDS Naturals

CONSTANTS
  Requests,      \* request ids a client chose; a request names its run and its reservation
  Retries,       \* request ids retryGoverned() makes up, each with a turn key of its own
  Todos,         \* the todos of the goal
  Keys,          \* the turn keys clients use
  TodoOf,        \* the todo a client request names
  KeyOf,         \* the turn key a client request carries
  Nobody         \* no request

Ids == Requests \cup Retries

ASSUME ConstantsAssumption ==
  /\ Requests \cap Retries = {} /\ Nobody \notin Ids \cup Nat
  /\ TodoOf \in [Requests -> Todos] /\ KeyOf \in [Requests -> Keys]
  /\ Keys \cap Retries = {}

\* turnKey: a client's own, or `turn_recovery_${uuidv7()}`.
TurnKey(i) == IF i \in Retries THEN i ELSE KeyOf[i]

Unbound == [todo |-> Nobody, attempt |-> 0, since |-> 0, of |-> Nobody]
IsBound(p, i) == p.binding[i] # Unbound

\* A goal with claimed, open todos and no governed run yet.
Empty ==
  [ rev       |-> 0,                              \* controlRevision: events so far
    admission |-> [i \in Ids |-> Nobody],         \* the revision admission.recorded expected
    binding   |-> [i \in Ids |-> Unbound],        \* binding.created; since: the revision expected
    quota     |-> [i \in Ids |-> "none"],         \* status of the request's reservation
    reserved  |-> [i \in Ids |-> Nobody],         \* the revision quota.reserved expected
    evidence  |-> [i \in Ids |-> "none"],         \* status of its validation evidence
    recovery  |-> [i \in Ids |-> FALSE],          \* recovery.recorded with status needs_recovery
    retried   |-> [i \in Ids |-> FALSE],          \* recovery.recorded with status retry_created
    done      |-> [t \in Todos |-> Nobody],       \* todo.completed: by whose evidence
    replays   |-> TRUE ]                          \* builder.build() of the log does not throw

\* appendWithRevision() of an event whose id is already in the log: a no-op if the content
\* is the same, which it is only under the same expected revision and, since events
\* carry their time, within one millisecond (`sameTime`); otherwise a conflict.
Repeats(at, rev, sameTime) == at = rev /\ sameTime

-----------------------------------------------------------------------------
(* The mutations: each is defined on a projection that allows it, and gives *)
(* the projection after the append.                                         *)

RecordAdmission(p, i) == [p EXCEPT !.rev = @ + 1, !.admission[i] = p.rev]

CreateBinding(p, i, todo, attempt, of) ==
  [p EXCEPT !.rev = @ + 1,
            !.binding[i] = [todo |-> todo, attempt |-> attempt, since |-> p.rev, of |-> of]]

ReserveQuota(p, i) == [p EXCEPT !.rev = @ + 1, !.quota[i] = "reserved", !.reserved[i] = p.rev]

\* Mutant: the status read before the start is not read again.
ReleaseUnchecked(p, i) == [p EXCEPT !.rev = @ + 1, !.quota[i] = "released"]

\* releaseQuota(), as its callers use it: they read the reservation first, and leave
\* alone one that is missing or no longer reserved.
ReleaseIfReserved(p, i) ==
  IF p.quota[i] = "reserved" THEN [p EXCEPT !.rev = @ + 1, !.quota[i] = "released"] ELSE p

RecordValidation(p, i, status) == [p EXCEPT !.rev = @ + 1, !.evidence[i] = status]

RecordRecovery(p, i) ==
  IF p.recovery[i] THEN p ELSE [p EXCEPT !.rev = @ + 1, !.recovery[i] = TRUE]

RecordRetryCreated(p, i) ==
  IF p.retried[i] THEN p ELSE [p EXCEPT !.rev = @ + 1, !.retried[i] = TRUE]

\* Keys the log has consumed.
SpentKeys(p) == {TurnKey(i) : i \in {j \in Ids : p.quota[j] = "consumed"}}

\* completeTodoAndConsumeQuota(): todo.completed and quota.consumed in one batch. It checks
\* the todo, the evidence and the reservation, and not the turn key: applyV1() of
\* quota.consumed does, and refuses the log once a key is consumed twice.
MayComplete(p, i) ==
  /\ p.evidence[i] = "validated" /\ p.quota[i] = "reserved"
  /\ p.done[p.binding[i].todo] = Nobody

CompleteAndConsume(p, i) ==
  LET todo == p.binding[i].todo IN
  [p EXCEPT !.rev = @ + 2, !.quota[i] = "consumed", !.done[todo] = i,
            !.replays = TurnKey(i) \notin SpentKeys(p) /\ p.done[todo] = Nobody]

Projection ==
  [ rev       : Nat,
    admission : [Ids -> Nat \cup {Nobody}],
    binding   : [Ids -> [todo : Todos \cup {Nobody}, attempt : Nat, since : Nat, of : Ids \cup {Nobody}]],
    quota     : [Ids -> {"none", "reserved", "released", "consumed"}],
    reserved  : [Ids -> Nat \cup {Nobody}],
    evidence  : [Ids -> {"none", "validated", "failed", "inconclusive"}],
    recovery  : [Ids -> BOOLEAN],
    retried   : [Ids -> BOOLEAN],
    done      : [Todos -> Ids \cup {Nobody}],
    replays   : BOOLEAN ]
=============================================================================
