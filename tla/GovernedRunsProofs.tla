------------------------- MODULE GovernedRunsProofs -------------------------
(***************************************************************************)
(* Governed runs, for any requests, retries, todos, keys and clients, and  *)
(* any number of crashes and of appends refused as stale: the goal's log   *)
(* comes before the run's, a reservation is settled once, a retried run    *)
(* holds none, each lock has one holder, and what was delivered was earned.*)
(*                                                                         *)
(* Each mutation of the goal's log only adds (Adds): what is recorded of a *)
(* request stays so.  Hence what a caller read before an append still      *)
(* holds after everybody else's appends, and the place it has come to in   *)
(* its saga tells what the log has by then (Sagas, in IInv).  The runs are *)
(* seen from the same places (NInv): so every step is one of a few         *)
(* mutations (StepMutates), each with a small effect (Effects), and the    *)
(* rest (Earned, replays) is proved of the effects, not of the steps.      *)
(***************************************************************************)
EXTENDS GovernedRuns, TLAPS

Caller == [pc : Pcs, id : Ids \cup {Nobody}, rev : Nat, todo : Todos \cup {Nobody},
           attempt : Nat, of : Ids \cup {Nobody}]

\* The shape of a projection, as far as it matters here.
Shaped(q) ==
  /\ {"rev", "admission", "binding", "quota", "reserved"} \subseteq DOMAIN q
  /\ q.rev \in Nat
  /\ DOMAIN q.admission = Ids /\ DOMAIN q.binding = Ids
  /\ DOMAIN q.quota = Ids /\ DOMAIN q.reserved = Ids
  /\ \A i \in Ids : q.quota[i] \in {"none", "reserved", "released", "consumed"}
  /\ \A i \in Ids : q.binding[i].attempt \in Nat /\ q.binding[i].todo \in Todos \cup {Nobody}

Types ==
  /\ Shaped(p)
  /\ DOMAIN run = Ids
  /\ caller \in [Callers -> Caller]

\* A reservation that is settled.
GivenBack(q, i) == i \in Ids /\ q.quota[i] \in {"released", "consumed"}

\* The order of the appends of one request, in the goal's log.
InOrder(q) ==
  \A i \in Ids : /\ IsBound(q, i) => q.admission[i] # Nobody
                 /\ q.quota[i] # "none" => IsBound(q, i)
                 /\ q.reserved[i] = Nobody <=> q.quota[i] = "none"
                 /\ q.binding[i].of # Nobody => GivenBack(q, q.binding[i].of)

\* What the log q has when a caller has come to a place.
InPlace(q, me) ==
  /\ me.pc \notin {"idle", "retry"} => me.id \in Ids
  /\ me.pc = "retry" => me.of \in Ids
  /\ me.of # Nobody => GivenBack(q, me.of)
  /\ me.pc \in {"admit", "bind"} => me.attempt # 0
  /\ me.pc \in {"bind", "reserve", "start", "recalling"} => q.admission[me.id] # Nobody
  /\ me.pc \in {"reserve", "start", "recalling"} => IsBound(q, me.id)
  /\ me.pc \in {"start", "recalling"} => q.quota[me.id] # "none"

Sagas == \A c \in Callers : InPlace(p, caller[c])

IInv == Types /\ InOrder(p) /\ Sagas /\ GoalLogFirst

\* The log q has all that p has, in order, and settles nothing again.
Adds(q) ==
  /\ Shaped(q) /\ InOrder(q)
  /\ \A i \in Ids :
       /\ p.admission[i] # Nobody => q.admission[i] # Nobody
       /\ IsBound(p, i) => IsBound(q, i)
       /\ p.quota[i] # "none" => q.quota[i] # "none"
       /\ p.quota[i] \in {"released", "consumed"} => q.quota[i] = p.quota[i]

-----------------------------------------------------------------------------
(* The mutations only add. *)

\* A projection that stays as it is adds to itself.
LEMMA Same == ASSUME IInv PROVE Adds(p)
BY DEF IInv, Types, Adds

\* recordAdmission() only adds, and records the admission.
LEMMA Admitting ==
  ASSUME IInv, NEW i \in Ids
  PROVE  Adds(RecordAdmission(p, i)) /\ RecordAdmission(p, i).admission[i] # Nobody
<1> DEFINE q == RecordAdmission(p, i)
<1>1. Shaped(q) /\ q.admission = [p.admission EXCEPT ![i] = p.rev]
  BY DEF IInv, Types, Shaped, RecordAdmission
<1>2. q.binding = p.binding /\ q.quota = p.quota /\ q.reserved = p.reserved
  BY DEF IInv, Types, Shaped, RecordAdmission
<1>3. p.rev # Nobody /\ DOMAIN p.admission = Ids
  BY ConstantsAssumption DEF IInv, Types, Shaped
<1> HIDE DEF q
<1>4. Adds(q) /\ q.admission[i] # Nobody
  BY <1>1, <1>2, <1>3 DEF IInv, Types, Shaped, Adds, InOrder, IsBound, GivenBack
<1> QED BY <1>4 DEF q

\* createBinding() only adds, and binds the run.
LEMMA BindingIt ==
  ASSUME IInv, NEW i \in Ids, p.admission[i] # Nobody,
         NEW todo \in Todos \cup {Nobody}, NEW n \in Nat \ {0}, NEW of, of # Nobody => GivenBack(p, of)
  PROVE  LET q == CreateBinding(p, i, todo, n, of) IN Adds(q) /\ IsBound(q, i)
<1> DEFINE q == CreateBinding(p, i, todo, n, of)
           b == [todo |-> todo, attempt |-> n, since |-> p.rev, of |-> of]
<1>1. Shaped(q) /\ q.binding = [p.binding EXCEPT ![i] = b]
  BY DEF IInv, Types, Shaped, CreateBinding
<1>2. q.admission = p.admission /\ q.quota = p.quota /\ q.reserved = p.reserved
  BY DEF IInv, Types, Shaped, CreateBinding
<1>3. b # Unbound /\ b.of = of /\ DOMAIN p.binding = Ids
  BY DEF Unbound, IInv, Types, Shaped
<1> HIDE DEF q, b
<1>4. Adds(q) /\ IsBound(q, i)
  BY <1>1, <1>2, <1>3 DEF IInv, Types, Shaped, Adds, InOrder, IsBound, GivenBack
<1> QED BY <1>4 DEF q

\* reserveQuota() only adds.
LEMMA Reserving ==
  ASSUME IInv, NEW i \in Ids, IsBound(p, i), p.reserved[i] = Nobody
  PROVE  Adds(ReserveQuota(p, i)) /\ ReserveQuota(p, i).quota[i] # "none"
<1> DEFINE q == ReserveQuota(p, i)
<1>1. Shaped(q) /\ q.quota = [p.quota EXCEPT ![i] = "reserved"]
      /\ q.reserved = [p.reserved EXCEPT ![i] = p.rev]
  BY DEF IInv, Types, Shaped, ReserveQuota
<1>2. q.admission = p.admission /\ q.binding = p.binding
  BY DEF IInv, Types, Shaped, ReserveQuota
<1>3. p.rev # Nobody /\ DOMAIN p.quota = Ids /\ DOMAIN p.reserved = Ids
  BY ConstantsAssumption DEF IInv, Types, Shaped
<1> HIDE DEF q
<1>4. Adds(q) /\ q.quota[i] # "none"
  BY <1>1, <1>2, <1>3 DEF IInv, Types, Shaped, Adds, InOrder, IsBound, GivenBack
<1> QED BY <1>4 DEF q

\* Settlements: only what is reserved changes.
LEMMA Settling ==
  ASSUME IInv, NEW i \in Ids, p.quota[i] = "reserved", NEW q, Shaped(q),
         NEW how \in {"released", "consumed"}, q.quota = [p.quota EXCEPT ![i] = how],
         q.admission = p.admission, q.binding = p.binding, q.reserved = p.reserved
  PROVE  Adds(q)
BY DEF IInv, Types, Shaped, Adds, InOrder, IsBound, GivenBack

\* The release of a reservation only adds.
LEMMA Releasing == ASSUME IInv, NEW i \in Ids PROVE Adds(ReleaseIfReserved(p, i))
<1>1. CASE p.quota[i] = "reserved"
  <2> DEFINE q == [p EXCEPT !.rev = @ + 1, !.quota[i] = "released"]
  <2>1. /\ Shaped(q) /\ q.quota = [p.quota EXCEPT ![i] = "released"]
        /\ q.admission = p.admission /\ q.binding = p.binding /\ q.reserved = p.reserved
    BY DEF IInv, Types, Shaped
  <2>2. ReleaseIfReserved(p, i) = q
    BY <1>1 DEF ReleaseIfReserved
  <2> HIDE DEF q
  <2> QED BY <1>1, <2>1, <2>2, Settling
<1> QED BY <1>1, Same DEF ReleaseIfReserved

\* The completion of a todo, with its quota, only adds.
LEMMA Completing ==
  ASSUME IInv, NEW i \in Ids, p.quota[i] = "reserved"
  PROVE  Adds(CompleteAndConsume(p, i))
<1> DEFINE q == CompleteAndConsume(p, i)
<1>1. /\ q.quota = [p.quota EXCEPT ![i] = "consumed"]
      /\ q.admission = p.admission /\ q.binding = p.binding /\ q.reserved = p.reserved
  BY DEF IInv, Types, Shaped, CompleteAndConsume
<1>2. Shaped(q)
  BY DEF IInv, Types, Shaped, CompleteAndConsume
<1> HIDE DEF q
<1>3. Adds(q)
  BY <1>1, <1>2, Settling
<1> QED BY <1>3 DEF q

\* Events that none of this depends on.
LEMMA Noting ==
  ASSUME IInv, NEW i \in Ids
  PROVE  /\ \A s \in {"validated", "failed", "inconclusive"} : Adds(RecordValidation(p, i, s))
         /\ Adds(RecordRecovery(p, i)) /\ Adds(RecordRetryCreated(p, i))
<1>1. ASSUME NEW q, Shaped(q), q.admission = p.admission, q.binding = p.binding,
             q.quota = p.quota, q.reserved = p.reserved
      PROVE  Adds(q)
  BY <1>1 DEF IInv, Types, Shaped, Adds, InOrder, IsBound, GivenBack
<1>2. ASSUME NEW s \in {"validated", "failed", "inconclusive"}
      PROVE  Adds(RecordValidation(p, i, s))
  <2> DEFINE q == RecordValidation(p, i, s)
  <2>1. /\ Shaped(q) /\ q.admission = p.admission /\ q.binding = p.binding
        /\ q.quota = p.quota /\ q.reserved = p.reserved
    BY DEF IInv, Types, Shaped, RecordValidation
  <2> HIDE DEF q
  <2>2. Adds(q)
    BY <1>1, <2>1
  <2> QED BY <2>2 DEF q
<1>3. Adds(RecordRecovery(p, i))
  <2> DEFINE q == [p EXCEPT !.rev = @ + 1, !.recovery[i] = TRUE]
  <2>1. /\ Shaped(q) /\ q.admission = p.admission /\ q.binding = p.binding
        /\ q.quota = p.quota /\ q.reserved = p.reserved
    BY DEF IInv, Types, Shaped
  <2>2. RecordRecovery(p, i) \in {p, q}
    BY DEF RecordRecovery
  <2> HIDE DEF q
  <2> QED BY <1>1, <2>1, <2>2, Same
<1>4. Adds(RecordRetryCreated(p, i))
  <2> DEFINE q == [p EXCEPT !.rev = @ + 1, !.retried[i] = TRUE]
  <2>1. /\ Shaped(q) /\ q.admission = p.admission /\ q.binding = p.binding
        /\ q.quota = p.quota /\ q.reserved = p.reserved
    BY DEF IInv, Types, Shaped
  <2>2. RecordRetryCreated(p, i) \in {p, q}
    BY DEF RecordRetryCreated
  <2> HIDE DEF q
  <2> QED BY <1>1, <2>1, <2>2, Same
<1> QED BY <1>2, <1>3, <1>4

-----------------------------------------------------------------------------
(* The callers *)

\* A step that adds to the log and moves one caller, if any, to a place it may be in.
LEMMA Moving ==
  ASSUME IInv, Adds(p'), NEW c \in Callers, DOMAIN run' = Ids,
         \A i \in Ids : run'[i] # "none" =>
            run[i] # "none" \/ (p.admission[i] # Nobody /\ IsBound(p, i) /\ p.quota[i] # "none"),
         \/ caller' = caller
         \/ \E r \in Caller : caller' = [caller EXCEPT ![c] = r] /\ InPlace(p', r)
  PROVE  IInv'
<1>1. Types' /\ InOrder(p')
  BY DEF IInv, Types, Adds
<1>2. GoalLogFirst'
  BY DEF IInv, GoalLogFirst, Adds
<1>3. ASSUME NEW d \in Callers, caller'[d] = caller[d] PROVE InPlace(p', caller'[d])
  BY <1>3 DEF IInv, Sagas, InPlace, Adds, GivenBack
<1>4. Sagas'
  BY <1>3 DEF Sagas, IInv, Types
<1> QED BY <1>1, <1>2, <1>4 DEF IInv

\* A caller may always become idle.
LEMMA IdleMoves ==
  Idle \in Caller /\ \A q : InPlace(q, Idle)
BY DEF Idle, Caller, Pcs, InPlace

\* The caller goes away.
LEMMA Leaving ==
  ASSUME IInv, Adds(p'), NEW c \in Callers, UNCHANGED run, Leave(c) \/ Goto(c, Idle)
  PROVE  IInv'
<1>1. caller' = [caller EXCEPT ![c] = Idle]
  BY DEF Leave, Goto
<1> QED BY <1>1, IdleMoves, Moving DEF IInv, Types

\* One append of the saga.
LEMMA Appending ==
  ASSUME IInv, NEW c \in Callers, NEW at, NEW new, NEW then \in Pcs, Append(c, at, new, then),
         at = Nobody => Adds(new) /\ InPlace(new, [caller[c] EXCEPT !.pc = then]),
         at # Nobody => InPlace(p, [caller[c] EXCEPT !.pc = then])
  PROVE  IInv'
<1> DEFINE r(q) == [caller[c] EXCEPT !.pc = then, !.rev = Expected(then, q)]
<1>0. caller[c] \in Caller
  BY DEF IInv, Types
<1>1. ASSUME NEW q, Adds(q), InPlace(q, [caller[c] EXCEPT !.pc = then]), p' = q,
             Goto(c, r(q)), UNCHANGED run
      PROVE  IInv'
  <2>1. r(q) \in Caller
    BY <1>0, <1>1 DEF Caller, Adds, Shaped, Expected
  <2>2. InPlace(q, r(q))
    BY <1>0, <1>1 DEF Caller, InPlace
  <2>3. caller' = [caller EXCEPT ![c] = r(q)]
    BY <1>1 DEF Goto
  <2> HIDE DEF r
  <2> QED BY <1>1, <2>1, <2>2, <2>3, Moving DEF IInv, Types
<1>2. CASE Leave(c) /\ UNCHANGED <<p, run>>
  BY <1>2, Same, Leaving
<1>3. \/ at = Nobody /\ p' = new /\ Goto(c, r(new))
      \/ at # Nobody /\ p' = p /\ Goto(c, r(p))
      \/ Leave(c) /\ UNCHANGED p
  BY DEF Append
<1>4. UNCHANGED run
  BY DEF Append
<1> HIDE DEF r
<1> QED BY <1>1, <1>2, <1>3, <1>4, Same

\* Every step of a caller preserves the invariant, and its mutation only adds.
LEMMA CallerSteps == ASSUME IInv, NEW c \in Callers, CallerStep(c) PROVE IInv' /\ Adds(p')
<1> DEFINE me == caller[c]
<1>0. /\ me \in Caller /\ InPlace(p, me) /\ DOMAIN caller = Callers
      /\ \A i \in Ids : p.reserved[i] = Nobody <=> p.quota[i] = "none"
  BY DEF IInv, Types, Sagas, InOrder
<1>1. CASE Admission(c)
  <2>1. me.pc = "admit" /\ me.id \in Ids /\ me.attempt # 0
    BY <1>0, <1>1 DEF Admission, InPlace
  <2>2. /\ Adds(RecordAdmission(p, me.id))
        /\ RecordAdmission(p, me.id).admission[me.id] # Nobody
    BY <2>1, Admitting
  <2>3. /\ InPlace(RecordAdmission(p, me.id), [me EXCEPT !.pc = "bind"])
        /\ p.admission[me.id] # Nobody => InPlace(p, [me EXCEPT !.pc = "bind"])
    BY <1>0, <2>1, <2>2 DEF InPlace, GivenBack, Adds, Caller
  <2>4. Append(c, p.admission[me.id], RecordAdmission(p, me.id), "bind")
    BY <1>1 DEF Admission
  <2>5. IInv'
    BY <2>2, <2>3, <2>4, Appending DEF Pcs
  <2>6. p' \in {p, RecordAdmission(p, me.id)}
    BY <2>4 DEF Append
  <2> QED BY <2>2, <2>5, <2>6, Same
<1>2. CASE Binding(c)
  <2> DEFINE q == CreateBinding(p, me.id, me.todo, me.attempt, me.of)
             then == AfterBinding(me.id)
             at == IF IsBound(p, me.id) THEN p.binding[me.id].since ELSE Nobody
  <2>1. me.pc = "bind" /\ me.id \in Ids /\ p.admission[me.id] # Nobody /\ me.attempt # 0
    BY <1>0, <1>2 DEF Binding, InPlace
  <2>2. Adds(q) /\ IsBound(q, me.id)
    BY <1>0, <2>1, BindingIt DEF Caller, InPlace
  <2>3. q.admission[me.id] # Nobody
    BY <2>1, <2>2 DEF Adds
  <2>4. then \in {"reserve", "start"} /\ (then = "start" => p.quota[me.id] # "none" /\ q.quota[me.id] # "none")
    BY <2>1, <2>2 DEF AfterBinding, Adds
  <2>5. Append(c, at, q, then)
    BY <1>2 DEF Binding
  <2>6. p' \in {p, q}
    BY <2>5 DEF Append
  <2>7. at # Nobody => IsBound(p, me.id)
    OBVIOUS
  <2> HIDE DEF q, then, at
  <2>8. /\ InPlace(q, [me EXCEPT !.pc = then])
        /\ at # Nobody => InPlace(p, [me EXCEPT !.pc = then])
    BY <1>0, <2>1, <2>2, <2>3, <2>4, <2>7 DEF InPlace, GivenBack, Adds, Caller
  <2>9. IInv'
    BY <2>2, <2>4, <2>5, <2>8, Appending DEF Pcs
  <2> QED BY <2>2, <2>6, <2>9, Same
<1>3. CASE Reservation(c)
  <2>1. me.pc = "reserve" /\ me.id \in Ids /\ p.admission[me.id] # Nobody /\ IsBound(p, me.id)
    BY <1>0, <1>3 DEF Reservation, InPlace
  <2>2. /\ Append(c, p.reserved[me.id], ReserveQuota(p, me.id), "start")
        /\ p' = ReserveQuota(p, me.id) => p.reserved[me.id] = Nobody \/ p' = p
        /\ p' \in {p, ReserveQuota(p, me.id)}
    BY <1>3 DEF Reservation, Append
  <2>3. p.reserved[me.id] = Nobody =>
           Adds(ReserveQuota(p, me.id)) /\ ReserveQuota(p, me.id).quota[me.id] # "none"
    BY <2>1, Reserving
  <2>4. /\ p.reserved[me.id] = Nobody => InPlace(ReserveQuota(p, me.id), [me EXCEPT !.pc = "start"])
        /\ p.reserved[me.id] # Nobody => InPlace(p, [me EXCEPT !.pc = "start"])
    BY <1>0, <2>1, <2>3 DEF InPlace, GivenBack, Adds, Caller, Adds
  <2>5. IInv'
    BY <2>2, <2>3, <2>4, Appending DEF Pcs
  <2> QED BY <2>2, <2>3, <2>5, Same
<1>4. CASE Start(c)
  <2>1. /\ me.pc = "start" /\ me.id \in Ids /\ p.admission[me.id] # Nobody
        /\ IsBound(p, me.id) /\ p.quota[me.id] # "none" /\ UNCHANGED p
    BY <1>0, <1>4 DEF Start, InPlace
  <2>2. CASE /\ run' = [run EXCEPT ![me.id] = "starting"]
             /\ Goto(c, [me EXCEPT !.pc = "recalling"])
    <3>1. [me EXCEPT !.pc = "recalling"] \in Caller /\ InPlace(p, [me EXCEPT !.pc = "recalling"])
      BY <1>0, <2>1 DEF Caller, InPlace, Pcs
    <3>2. /\ DOMAIN run' = Ids
          /\ \A i \in Ids : run'[i] # "none" =>
                run[i] # "none" \/ (p.admission[i] # Nobody /\ IsBound(p, i) /\ p.quota[i] # "none")
      BY <2>1, <2>2 DEF IInv, Types
    <3> QED BY <2>1, <2>2, <3>1, <3>2, Same, Moving DEF Goto
  <2>3. CASE Answer(c) /\ UNCHANGED run
    <3>1. CASE Leave(c)
      BY <2>1, <2>3, <3>1, Same, Leaving
    <3>2. CASE Goto(c, [me EXCEPT !.pc = "record"])
      <4>1. [me EXCEPT !.pc = "record"] \in Caller /\ InPlace(p, [me EXCEPT !.pc = "record"])
        BY <1>0, <2>1 DEF Caller, InPlace, Pcs
      <4> QED BY <2>1, <2>3, <3>2, <4>1, Same, Moving DEF Goto, IInv, Types
    <3> QED BY <2>3, <3>1, <3>2 DEF Answer
  <2>4. CASE Goto(c, [me EXCEPT !.pc = "undo"]) /\ UNCHANGED run
    <3>1. [me EXCEPT !.pc = "undo"] \in Caller /\ InPlace(p, [me EXCEPT !.pc = "undo"])
      BY <1>0, <2>1 DEF Caller, InPlace, Pcs
    <3> QED BY <2>1, <2>4, <3>1, Same, Moving DEF Goto, IInv, Types
  <2> QED BY <1>4, <2>1, <2>2, <2>3, <2>4, Same DEF Start
<1>5. CASE Recalled(c)
  <2>1. /\ me.pc = "recalling" /\ me.id \in Ids /\ p.admission[me.id] # Nobody
        /\ IsBound(p, me.id) /\ p.quota[me.id] # "none" /\ UNCHANGED p
    BY <1>0, <1>5 DEF Recalled, InPlace
  <2>2. /\ DOMAIN run' = Ids
        /\ \A i \in Ids : run'[i] # "none" =>
              run[i] # "none" \/ (p.admission[i] # Nobody /\ IsBound(p, i) /\ p.quota[i] # "none")
    BY <1>5, <2>1 DEF Recalled, IInv, Types
  <2>3. \A place \in {"record", "undo"} :
           [me EXCEPT !.pc = place] \in Caller /\ InPlace(p, [me EXCEPT !.pc = place])
    BY <1>0, <2>1 DEF Caller, InPlace, Pcs
  <2>4. CASE caller' = [caller EXCEPT ![c] = Idle]
    BY <2>1, <2>2, <2>4, Same, Moving, IdleMoves
  <2>5. CASE \E place \in {"record", "undo"} : caller' = [caller EXCEPT ![c] = [me EXCEPT !.pc = place]]
    BY <2>1, <2>2, <2>3, <2>5, Same, Moving
  <2> QED BY <1>5, <2>1, <2>4, <2>5, Same DEF Recalled, Answer, Leave, Goto
<1>6. CASE Undo(c)
  <2>1. Adds(p')
    BY <1>0, <1>6, Releasing, Same DEF Undo, InPlace, Refused
  <2> QED BY <1>6, <2>1, Leaving DEF Undo
<1>7. CASE Readmit(c)
  <2>1. me.pc = "retry" /\ me.of \in Ids /\ UNCHANGED <<p, run>>
    BY <1>0, <1>7 DEF Readmit, InPlace
  <2>2. CASE Leave(c)
    BY <2>1, <2>2, Same, Leaving
  <2>3. ASSUME NEW n \in Unused,
               Goto(c, [pc |-> "admit", id |-> n, rev |-> p.rev, todo |-> p.binding[me.of].todo,
                        attempt |-> p.binding[me.of].attempt + 1, of |-> me.of]),
               Admissible(n, p.binding[me.of].todo)
        PROVE  IInv'
    <3> DEFINE r == [pc |-> "admit", id |-> n, rev |-> p.rev, todo |-> p.binding[me.of].todo,
                     attempt |-> p.binding[me.of].attempt + 1, of |-> me.of]
    <3>1. p.binding[me.of].attempt + 1 \in Nat \ {0} /\ p.rev \in Nat
      BY <2>1 DEF IInv, Types, Shaped
    <3>0. p.binding[me.of].todo \in Todos \cup {Nobody}
      BY <2>1 DEF IInv, Types, Shaped
    <3>2. r \in Caller /\ InPlace(p, r)
      BY <1>0, <2>1, <3>0, <3>1 DEF Caller, InPlace, Pcs, Unused, Ids
    <3> HIDE DEF r
    <3>3. caller' = [caller EXCEPT ![c] = r]
      BY <2>3 DEF Goto, r
    <3> QED BY <2>1, <3>2, <3>3, Same, Moving DEF IInv, Types
  <2> QED BY <1>7, <2>1, <2>2, <2>3, Same DEF Readmit
<1>8. CASE RecordRetry(c)
  <2>1. Adds(p')
    BY <1>0, <1>8, Noting, Same DEF RecordRetry, InPlace, Refused
  <2> QED BY <1>8, <2>1, Leaving DEF RecordRetry
<1> QED BY <1>1, <1>2, <1>3, <1>4, <1>5, <1>6, <1>7, <1>8 DEF CallerStep

-----------------------------------------------------------------------------
(* The invariant *)

\* The initial states satisfy the invariant.
LEMMA InitInv == Init => IInv
<1> SUFFICES ASSUME Init PROVE IInv
  OBVIOUS
<1>1. Types
  BY DEF Init, Types, Shaped, Empty, Unbound, Idle, Caller, Pcs
<1>2. InOrder(p)
  BY DEF Init, InOrder, Empty, IsBound, Unbound
<1>3. Sagas /\ GoalLogFirst
  BY DEF Init, Sagas, InPlace, Idle, GoalLogFirst
<1> QED BY <1>1, <1>2, <1>3 DEF IInv

\* The writeback's steps, which move no caller and start no run.
LEMMA Writing ==
  ASSUME IInv, UNCHANGED <<run, caller>>, NEW i \in Ids,
         \/ UNCHANGED p
         \/ \E who : Process(i, who)
         \/ p' = Settled(i) /\ MaySettle(i)
  PROVE  IInv' /\ Adds(p')
<1>1. Adds(p')
  <2>1. CASE \E who : Process(i, who)
    BY <2>1, Same, Noting DEF Process, Verdicts
  <2>2. CASE p' = Settled(i) /\ MaySettle(i)
    BY <2>2, Same, Releasing, Completing DEF Settled, MaySettle, MayComplete
  <2> QED BY <2>1, <2>2, Same
<1>2. Monitor \in Callers
  BY DEF Callers
<1> QED BY <1>1, <1>2, Moving DEF IInv, Types

\* Every step preserves the invariant.
LEMMA StepInv == IInv /\ [Next]_vars => IInv' /\ Adds(p')
<1> SUFFICES ASSUME IInv, [Next]_vars PROVE IInv' /\ Adds(p')
  OBVIOUS
<1>m. Monitor \in Callers /\ Clients \subseteq Callers /\ Requests \subseteq Ids
  BY DEF Callers, Ids
<1>0. ASSUME UNCHANGED <<p, run, caller>> PROVE IInv' /\ Adds(p')
  BY <1>0, <1>m, Same, Moving DEF IInv, Types
<1>1. ASSUME NEW c \in Clients, NEW i \in Requests, Admit(c, i) PROVE IInv' /\ Adds(p')
  <2> DEFINE r == [pc |-> "admit", id |-> i, rev |-> p.rev, todo |-> TodoOf[i], attempt |-> 1,
                   of |-> Nobody]
  <2>1. r \in Caller /\ InPlace(p, r)
    BY <1>m, ConstantsAssumption DEF Caller, InPlace, Pcs, IInv, Types, Shaped
  <2> HIDE DEF r
  <2>2. caller' = [caller EXCEPT ![c] = r] /\ UNCHANGED <<p, run>>
    BY <1>1 DEF Admit, Goto, r
  <2> QED BY <1>m, <2>1, <2>2, Same, Moving DEF IInv, Types
<1>2. ASSUME NEW c \in Clients, NEW i \in Requests, AdmitAgain(c, i) PROVE IInv' /\ Adds(p')
  <2> DEFINE pc == IF p.quota[i] = "none" THEN "reserve" ELSE "start"
             r == [pc |-> pc, id |-> i, rev |-> Expected(pc, p), todo |-> p.binding[i].todo,
                   attempt |-> p.binding[i].attempt, of |-> Nobody]
  <2>0. IsBound(p, i) /\ p.admission[i] # Nobody
    BY <1>m, <1>2 DEF AdmitAgain, IInv, InOrder
  <2>1. r \in Caller /\ InPlace(p, r)
    BY <1>m, <2>0 DEF Caller, InPlace, Pcs, IInv, Types, Shaped, Expected
  <2> HIDE DEF r, pc
  <2>2. caller' = [caller EXCEPT ![c] = r] /\ UNCHANGED <<p, run>>
    BY <1>2 DEF AdmitAgain, Goto, r, pc
  <2> QED BY <1>m, <2>1, <2>2, Same, Moving DEF IInv, Types
<1>3. ASSUME NEW c \in Callers, NEW i \in Ids, Retry(c, i), UNCHANGED run PROVE IInv' /\ Adds(p')
  <2> DEFINE r == [Idle EXCEPT !.pc = "retry", !.of = i]
  <2>1. r \in Caller /\ r.pc = "retry" /\ r.of = i
    BY DEF Caller, Pcs, Idle
  <2> HIDE DEF r
  <2>2. caller' = [caller EXCEPT ![c] = r] /\ Adds(p') /\ p' = ReleaseIfReserved(p, i)
    BY <1>3, Releasing DEF Retry, Goto, ReleaseOld, r
  <2>3. p.quota[i] # "none"
    BY <1>3 DEF Retry, EndedUnhappily, IInv, GoalLogFirst
  <2>4. GivenBack(p', i)
    BY <2>2, <2>3 DEF ReleaseIfReserved, GivenBack, IInv, Types, Shaped
  <2>5. InPlace(p', r)
    BY <2>1, <2>4 DEF InPlace
  <2> QED BY <1>3, <2>1, <2>2, <2>5, Moving DEF IInv, Types
<1>4. ASSUME NEW c \in Clients, NEW i \in Ids, UserRetry(c, i) PROVE IInv' /\ Adds(p')
  BY <1>3, <1>4, <1>m DEF UserRetry
<1>5. ASSUME NEW c \in Callers, CallerStep(c) PROVE IInv' /\ Adds(p')
  BY <1>5, CallerSteps
<1>6. ASSUME NEW i \in Ids, RunStep(i) PROVE IInv' /\ Adds(p')
  <2>1. /\ run[i] # "none" /\ DOMAIN run' = Ids /\ UNCHANGED <<p, caller>>
        /\ \A j \in Ids \ {i} : run'[j] = run[j]
    BY <1>6 DEF RunStep, Close, Announce, IInv, Types
  <2>2. \A j \in Ids : run'[j] # "none" => run[j] # "none"
    BY <2>1
  <2> QED BY <1>m, <2>1, <2>2, Same, Moving
<1>7. ASSUME NEW i \in Ids, ProcessLive(i) PROVE IInv' /\ Adds(p')
  BY <1>7, Writing DEF ProcessLive, GoesOn, Fails, Refused
<1>8. ASSUME NEW i \in Ids, Settle(i) PROVE IInv' /\ Adds(p')
  BY <1>8, Writing DEF Settle, Refused
<1>9. ASSUME NEW i \in Ids, ReconcileRun(i) PROVE IInv' /\ Adds(p')
  BY <1>9, Writing DEF ReconcileRun, GoesOn, Fails, Refused
<1>10. ASSUME NEW i \in Ids, ReconcileSettle(i) PROVE IInv' /\ Adds(p')
  BY <1>10, Writing DEF ReconcileSettle, Refused
<1>11. ASSUME NEW i \in Ids, Launch(i) PROVE IInv' /\ Adds(p')
  BY <1>3, <1>11, <1>m DEF Launch
<1>12. CASE ReconcileEnd \/ Tick \/ Pass
  BY <1>0, <1>12 DEF ReconcileEnd, Tick, Pass
<1>13. CASE Crash
  <2>1. Types' /\ UNCHANGED p
    BY <1>13, IdleMoves DEF Crash, IInv, Types
  <2>2. \A i \in Ids : run'[i] # "none" => run[i] # "none"
    BY <1>13 DEF Crash, Logged
  <2>3. GoalLogFirst'
    BY <2>1, <2>2 DEF IInv, GoalLogFirst
  <2>4. Sagas'
    BY <1>13, IdleMoves DEF Crash, Sagas
  <2> QED BY <2>1, <2>3, <2>4, Same DEF IInv
<1>14. CASE Boot
  <2>1. /\ DOMAIN run' = Ids /\ UNCHANGED <<p, caller>>
        /\ \A i \in Ids : run'[i] # "none" => run[i] # "none"
    BY <1>14 DEF Boot
  <2> QED BY <1>m, <2>1, Same, Moving
<1>15. CASE UNCHANGED vars
  BY <1>0, <1>15 DEF vars
<1> QED BY <1>1, <1>2, <1>4, <1>5, <1>6, <1>7, <1>8, <1>9, <1>10, <1>11, <1>12, <1>13, <1>14, <1>15
        DEF Next, JobStep, MonitorStep

-----------------------------------------------------------------------------
(* What a run's log says, and what each place of a saga knows of the run *)

RunStates == {"none", "starting", "leaked", "active", "completing", "failing",
              "completed", "failed", "needs-recovery"}
Ended == {"completed", "failed", "needs-recovery"}

\* What has been announced has ended.
Announced ==
  /\ p \in Projection /\ run \in [Ids -> RunStates]
  /\ live \subseteq announced
  /\ announced \subseteq {i \in Ids : run[i] \in Ended}

\* Whoever waits for a recall is alone in starting the run.
Recalls ==
  /\ \A c \in Callers : caller[c].pc = "recalling" => run[caller[c].id] = "starting"
  /\ \A c, d \in Callers :
        caller[c].pc = "recalling" /\ caller[d].pc = "recalling" /\ caller[c].id = caller[d].id => c = d

\* What is bound is bound to a todo of the goal.
Named ==
  /\ \A i \in Ids : IsBound(p, i) => p.binding[i].todo \in Todos
  /\ \A c \in Callers : caller[c].pc \in {"admit", "bind"} => caller[c].todo \in Todos
  /\ \A c \in Callers : caller[c].pc = "retry" => IsBound(p, caller[c].of)

NInv == Announced /\ Recalls /\ Named

\* The lock of a retry is held by the caller that retries, and by no other.
Held ==
  /\ DOMAIN job = Ids
  /\ \A i \in Ids : job[i] = "retry" <=> \E c \in Callers : caller[c].of = i
  /\ \A c, d \in Callers : caller[c].of # Nobody /\ caller[c].of = caller[d].of => c = d

\* A reconciliation that is under way holds one lock at most, and decides when it is over.
Sweeps ==
  /\ rec \in [for : {"none", "startup", "tick", "decision"}, left : SUBSET Ids]
  /\ rec.left # {} => rec.for \in {"startup", "tick"}
  /\ \A i \in Ids : job[i] = "rec" => rec.for \in {"startup", "tick"}
  /\ \A i, j \in Ids : job[i] = "rec" /\ job[j] = "rec" => i = j
  /\ daemon \in {"up", "down", "booting", "refused"} /\ faults \in 0 .. MaxFaults

Locks == Held /\ Sweeps

\* Evidence, and what was delivered on it.
Earned ==
  /\ \A i \in Ids : p.evidence[i] # "none" => run[i] \in {"completed", "failed"}
  /\ \A i \in Ids : p.evidence[i] = "validated" => run[i] = "completed"
  /\ \A i \in Ids : p.quota[i] = "consumed" => p.evidence[i] = "validated" /\ p.done[p.binding[i].todo] = i
  /\ \A t \in Todos, i \in Ids : p.done[t] = i => p.quota[i] = "consumed" /\ p.binding[i].todo = t

-----------------------------------------------------------------------------
(* The mutations, once more: what a step of the system may append. *)

\* One append, or none.
Mutation ==
  \/ p' = p
  \/ \E i \in Ids :
       \/ p' = RecordAdmission(p, i)
       \/ /\ ~IsBound(p, i)
          /\ \E todo \in Todos, n \in Nat, of \in Ids \cup {Nobody} :
                p' = CreateBinding(p, i, todo, n, of)
       \/ IsBound(p, i) /\ p.quota[i] = "none" /\ p' = ReserveQuota(p, i)
       \/ p.quota[i] = "reserved" /\ p' = [p EXCEPT !.rev = @ + 1, !.quota[i] = "released"]
       \/ p' = [p EXCEPT !.rev = @ + 1, !.recovery[i] = TRUE]
       \/ p' = [p EXCEPT !.rev = @ + 1, !.retried[i] = TRUE]
       \/ /\ run[i] \in {"completed", "failed"} /\ run' = run /\ p.evidence[i] = "none"
          /\ \E verdict \in Verdicts(i) : p' = RecordValidation(p, i, verdict)
       \/ IsBound(p, i) /\ MayComplete(p, i) /\ p' = CompleteAndConsume(p, i)

\* What is left to see of a projection that has its shape.
LEMMA Fields ==
  ASSUME NEW q \in Projection
  PROVE  /\ q.rev \in Nat
         /\ \A i \in Ids : /\ q.binding[i].since \in Nat /\ q.binding[i].since # Nobody
                           /\ q.admission[i] \in Nat \cup {Nobody}
                           /\ q.reserved[i] \in Nat \cup {Nobody}
BY ConstantsAssumption DEF Projection

\* A field that fits keeps the shape.
LEMMA FieldsFit ==
  ASSUME NEW q \in Projection, NEW n \in Nat
  PROVE  /\ \A f \in [Ids -> Nat \cup {Nobody}] : [q EXCEPT !.rev = n, !.admission = f] \in Projection
         /\ \A f \in [Ids -> [todo : Todos \cup {Nobody}, attempt : Nat, since : Nat,
                              of : Ids \cup {Nobody}]] :
               [q EXCEPT !.rev = n, !.binding = f] \in Projection
         /\ \A f \in [Ids -> {"none", "reserved", "released", "consumed"}] :
               [q EXCEPT !.rev = n, !.quota = f] \in Projection
         /\ \A f \in [Ids -> {"none", "validated", "failed", "inconclusive"}] :
               [q EXCEPT !.rev = n, !.evidence = f] \in Projection
         /\ \A f \in [Ids -> BOOLEAN] : /\ [q EXCEPT !.rev = n, !.recovery = f] \in Projection
                                        /\ [q EXCEPT !.rev = n, !.retried = f] \in Projection
BY DEF Projection

\* A mutation keeps the shape.
LEMMA StaysShaped == ASSUME p \in Projection, Mutation PROVE p' \in Projection
<1>0. p.rev \in Nat /\ p.rev + 1 \in Nat /\ p.rev + 2 \in Nat
  BY DEF Projection
<1>1. ASSUME NEW i \in Ids, p' = RecordAdmission(p, i) PROVE p' \in Projection
  <2> DEFINE f == [p.admission EXCEPT ![i] = p.rev]
  <2>1. f \in [Ids -> Nat \cup {Nobody}]
    BY <1>0 DEF Projection
  <2>2. p' = [p EXCEPT !.rev = p.rev + 1, !.admission = f]
    BY <1>1 DEF RecordAdmission
  <2> HIDE DEF f
  <2> QED BY <1>0, <2>1, <2>2, FieldsFit
<1>2. ASSUME NEW i \in Ids, NEW todo \in Todos, NEW n \in Nat, NEW of \in Ids \cup {Nobody},
             p' = CreateBinding(p, i, todo, n, of)
      PROVE  p' \in Projection
  <2> DEFINE b == [todo |-> todo, attempt |-> n, since |-> p.rev, of |-> of]
             f == [p.binding EXCEPT ![i] = b]
             B == [todo : Todos \cup {Nobody}, attempt : Nat, since : Nat, of : Ids \cup {Nobody}]
  <2>1. b \in B
    BY <1>0
  <2>2. p.binding \in [Ids -> B]
    BY DEF Projection
  <2>3. p' = [p EXCEPT !.rev = p.rev + 1, !.binding = f]
    BY <1>2 DEF CreateBinding
  <2>4. f \in [Ids -> B]
    <3> HIDE DEF b, B
    <3> QED BY <2>1, <2>2
  <2> HIDE DEF f
  <2> QED BY <1>0, <2>3, <2>4, FieldsFit
<1>3. ASSUME NEW i \in Ids, p' = ReserveQuota(p, i) PROVE p' \in Projection
  <2> DEFINE f == [p.quota EXCEPT ![i] = "reserved"]
             g == [p.reserved EXCEPT ![i] = p.rev]
  <2>1. f \in [Ids -> {"none", "reserved", "released", "consumed"}] /\ g \in [Ids -> Nat \cup {Nobody}]
    BY <1>0 DEF Projection
  <2>2. p' = [p EXCEPT !.rev = p.rev + 1, !.quota = f, !.reserved = g]
    BY <1>3 DEF ReserveQuota
  <2> HIDE DEF f, g
  <2> QED BY <1>0, <2>1, <2>2 DEF Projection
<1>4. ASSUME NEW i \in Ids, p' = [p EXCEPT !.rev = @ + 1, !.quota[i] = "released"]
      PROVE  p' \in Projection
  <2> DEFINE f == [p.quota EXCEPT ![i] = "released"]
  <2>1. f \in [Ids -> {"none", "reserved", "released", "consumed"}]
    BY DEF Projection
  <2>2. p' = [p EXCEPT !.rev = p.rev + 1, !.quota = f]
    BY <1>4
  <2> HIDE DEF f
  <2> QED BY <1>0, <2>1, <2>2, FieldsFit
<1>5. ASSUME NEW i \in Ids, p' = [p EXCEPT !.rev = @ + 1, !.recovery[i] = TRUE]
      PROVE  p' \in Projection
  <2> DEFINE f == [p.recovery EXCEPT ![i] = TRUE]
  <2>1. f \in [Ids -> BOOLEAN]
    BY DEF Projection
  <2>2. p' = [p EXCEPT !.rev = p.rev + 1, !.recovery = f]
    BY <1>5
  <2> HIDE DEF f
  <2> QED BY <1>0, <2>1, <2>2, FieldsFit
<1>6. ASSUME NEW i \in Ids, p' = [p EXCEPT !.rev = @ + 1, !.retried[i] = TRUE]
      PROVE  p' \in Projection
  <2> DEFINE f == [p.retried EXCEPT ![i] = TRUE]
  <2>1. f \in [Ids -> BOOLEAN]
    BY DEF Projection
  <2>2. p' = [p EXCEPT !.rev = p.rev + 1, !.retried = f]
    BY <1>6
  <2> HIDE DEF f
  <2> QED BY <1>0, <2>1, <2>2, FieldsFit
<1>7. ASSUME NEW i \in Ids, NEW verdict \in Verdicts(i), p' = RecordValidation(p, i, verdict)
      PROVE  p' \in Projection
  <2> DEFINE f == [p.evidence EXCEPT ![i] = verdict]
  <2>1. verdict \in {"validated", "failed", "inconclusive"}
    BY <1>7 DEF Verdicts
  <2>2. f \in [Ids -> {"none", "validated", "failed", "inconclusive"}]
    BY <2>1 DEF Projection
  <2>3. p' = [p EXCEPT !.rev = p.rev + 1, !.evidence = f]
    BY <1>7 DEF RecordValidation
  <2> HIDE DEF f
  <2> QED BY <1>0, <2>2, <2>3, FieldsFit
<1>8. ASSUME NEW i \in Ids, p' = CompleteAndConsume(p, i) PROVE p' \in Projection
  <2> DEFINE todo == p.binding[i].todo
             b == TurnKey(i) \notin SpentKeys(p) /\ p.done[todo] = Nobody
             f == [p.quota EXCEPT ![i] = "consumed"]
             g == [p.done EXCEPT ![todo] = i]
  <2>1. b \in BOOLEAN
    OBVIOUS
  <2>2. /\ f \in [Ids -> {"none", "reserved", "released", "consumed"}]
        /\ g \in [Todos -> Ids \cup {Nobody}]
    BY DEF Projection
  <2>3. p' = [p EXCEPT !.rev = p.rev + 2, !.quota = f, !.done = g, !.replays = b]
    BY <1>8 DEF CompleteAndConsume
  <2> HIDE DEF b, f, g
  <2> QED BY <1>0, <2>1, <2>2, <2>3 DEF Projection
<1> QED BY <1>1, <1>2, <1>3, <1>4, <1>5, <1>6, <1>7, <1>8 DEF Mutation

\* What an append changes of bindings, reservations, evidence and deliveries.
Kept(fields) ==
  /\ "binding" \in fields => p'.binding = p.binding
  /\ "quota" \in fields => p'.quota = p.quota
  /\ "evidence" \in fields => p'.evidence = p.evidence
  /\ "done" \in fields => p'.done = p.done /\ p'.replays = p.replays

Effect ==
  \/ Kept({"binding", "quota", "evidence", "done"})
  \/ \E i \in Ids :
       \/ /\ ~IsBound(p, i) /\ Kept({"quota", "evidence", "done"})
          /\ \E todo \in Todos, n \in Nat, of \in Ids \cup {Nobody} :
                p'.binding = [p.binding EXCEPT ![i] = [todo |-> todo, attempt |-> n, since |-> p.rev, of |-> of]]
       \/ /\ p.quota[i] # "consumed" /\ Kept({"binding", "evidence", "done"})
          /\ \E s \in {"reserved", "released"} : p'.quota = [p.quota EXCEPT ![i] = s]
       \/ /\ run[i] \in {"completed", "failed"} /\ run' = run /\ p.evidence[i] = "none"
          /\ Kept({"binding", "quota", "done"})
          /\ \E verdict \in Verdicts(i) : p'.evidence = [p.evidence EXCEPT ![i] = verdict]
       \/ /\ IsBound(p, i) /\ MayComplete(p, i) /\ Kept({"binding", "evidence"})
          /\ p'.quota = [p.quota EXCEPT ![i] = "consumed"]
          /\ p'.done = [p.done EXCEPT ![p.binding[i].todo] = i]
          /\ p'.replays = (TurnKey(i) \notin SpentKeys(p) /\ p.done[p.binding[i].todo] = Nobody)

LEMMA Effects == ASSUME p \in Projection, Mutation PROVE Effect
<1>1. ASSUME NEW i \in Ids, p' = RecordAdmission(p, i) PROVE Effect
  BY <1>1 DEF RecordAdmission, Projection, Effect, Kept
<1>2. ASSUME NEW i \in Ids, ~IsBound(p, i), NEW todo \in Todos, NEW n \in Nat, NEW of \in Ids \cup {Nobody},
             p' = CreateBinding(p, i, todo, n, of)
      PROVE  Effect
  <2> DEFINE b == [todo |-> todo, attempt |-> n, since |-> p.rev, of |-> of]
  <2>1. p'.binding = [p.binding EXCEPT ![i] = b] /\ Kept({"quota", "evidence", "done"})
    BY <1>2 DEF CreateBinding, Projection, Kept
  <2>2. \E x \in Todos, y \in Nat, z \in Ids \cup {Nobody} :
           p'.binding = [p.binding EXCEPT ![i] = [todo |-> x, attempt |-> y, since |-> p.rev, of |-> z]]
    BY <2>1
  <2> QED BY <1>2, <2>1, <2>2, Zenon DEF Effect
<1>3. ASSUME NEW i \in Ids, p.quota[i] = "none", p' = ReserveQuota(p, i) PROVE Effect
  <2>1. p'.quota = [p.quota EXCEPT ![i] = "reserved"] /\ Kept({"binding", "evidence", "done"})
    BY <1>3 DEF ReserveQuota, Projection, Kept
  <2> QED BY <1>3, <2>1 DEF Effect
<1>4. ASSUME NEW i \in Ids, p.quota[i] = "reserved", p' = [p EXCEPT !.rev = @ + 1, !.quota[i] = "released"]
      PROVE  Effect
  <2>1. p'.quota = [p.quota EXCEPT ![i] = "released"] /\ Kept({"binding", "evidence", "done"})
    BY <1>4 DEF Projection, Kept
  <2> QED BY <1>4, <2>1 DEF Effect
<1>5. ASSUME NEW i \in Ids, p' = [p EXCEPT !.rev = @ + 1, !.recovery[i] = TRUE] PROVE Effect
  BY <1>5 DEF Projection, Effect, Kept
<1>6. ASSUME NEW i \in Ids, p' = [p EXCEPT !.rev = @ + 1, !.retried[i] = TRUE] PROVE Effect
  BY <1>6 DEF Projection, Effect, Kept
<1>7. ASSUME NEW i \in Ids, run[i] \in {"completed", "failed"}, run' = run, p.evidence[i] = "none",
             NEW verdict \in Verdicts(i), p' = RecordValidation(p, i, verdict)
      PROVE  Effect
  <2>1. p'.evidence = [p.evidence EXCEPT ![i] = verdict] /\ Kept({"binding", "quota", "done"})
    BY <1>7 DEF RecordValidation, Projection, Kept
  <2> QED BY <1>7, <2>1 DEF Effect
<1>8. ASSUME NEW i \in Ids, IsBound(p, i), MayComplete(p, i), p' = CompleteAndConsume(p, i) PROVE Effect
  <2> DEFINE b == TurnKey(i) \notin SpentKeys(p) /\ p.done[p.binding[i].todo] = Nobody
  <2>1. /\ p'.quota = [p.quota EXCEPT ![i] = "consumed"]
        /\ p'.done = [p.done EXCEPT ![p.binding[i].todo] = i]
        /\ p'.replays = b /\ Kept({"binding", "evidence"})
    <3>1. p' = [p EXCEPT !.rev = @ + 2, !.quota[i] = "consumed", !.done[p.binding[i].todo] = i, !.replays = b]
      BY <1>8 DEF CompleteAndConsume
    <3> HIDE DEF b
    <3> QED BY <3>1 DEF Projection, Kept
  <2> QED BY <1>8, <2>1 DEF Effect
<1>9. ASSUME p' = p PROVE Effect
  BY <1>9 DEF Effect, Kept
<1> QED BY <1>1, <1>2, <1>3, <1>4, <1>5, <1>6, <1>7, <1>8, <1>9 DEF Mutation

-----------------------------------------------------------------------------
(* Every step is a mutation, or none *)

\* The first half of a writeback: a recovery or a verdict is recorded, or nothing.
LEMMA Processed ==
  ASSUME IInv, NInv, NEW i \in Ids, i \in announced, NEW who, Process(i, who), run' = run PROVE Mutation
<1>1. run[i] \in Ended
  BY DEF NInv, Announced
<1>2. CASE p' = RecordRecovery(p, i)
  BY <1>2 DEF RecordRecovery, Mutation
<1>3. CASE p' = p
  BY <1>3 DEF Mutation
<1>4. ASSUME run[i] # "needs-recovery", p.evidence[i] = "none",
             NEW verdict \in Verdicts(i), p' = RecordValidation(p, i, verdict)
      PROVE  Mutation
  BY <1>1, <1>4 DEF Mutation, Ended
<1> QED BY <1>2, <1>3, <1>4 DEF Process

\* The second half: the reservation is given back or consumed, or is settled already.
LEMMA SettledIt == ASSUME IInv, NEW i \in Ids, MaySettle(i), p' = Settled(i) PROVE Mutation
<1>1. p.quota[i] = "reserved" => IsBound(p, i)
  BY DEF IInv, InOrder
<1>2. \/ p' = p
      \/ p.quota[i] = "reserved" /\ p' = [p EXCEPT !.rev = @ + 1, !.quota[i] = "released"]
      \/ MayComplete(p, i) /\ p' = CompleteAndConsume(p, i)
  BY DEF Settled, MaySettle, ReleaseIfReserved
<1> QED BY <1>1, <1>2 DEF Mutation, MayComplete

\* A reservation that is given back, if it is still open.
LEMMA Released == ASSUME NEW i \in Ids, p' \in {p, ReleaseIfReserved(p, i)} PROVE Mutation
BY DEF ReleaseIfReserved, Mutation

\* Each step of a caller appends one event, or none.
LEMMA CallerMutates == ASSUME IInv, NInv, NEW c \in Callers, CallerStep(c) PROVE Mutation
<1> DEFINE me == caller[c]
<1>0. me \in Caller /\ InPlace(p, me) /\ p \in Projection
  BY DEF IInv, Types, Sagas, NInv, Announced
<1>1. CASE Admission(c)
  <2>1. me.id \in Ids /\ p' \in {p, RecordAdmission(p, me.id)}
    BY <1>0, <1>1 DEF Admission, Append, InPlace
  <2> QED BY <2>1 DEF Mutation
<1>2. CASE Binding(c)
  <2> DEFINE at == IF IsBound(p, me.id) THEN p.binding[me.id].since ELSE Nobody
             q == CreateBinding(p, me.id, me.todo, me.attempt, me.of)
  <2>1. me.id \in Ids /\ me.todo \in Todos /\ me.attempt \in Nat /\ me.of \in Ids \cup {Nobody}
    BY <1>0, <1>2 DEF Binding, InPlace, Caller, NInv, Named
  <2>2. p' = p \/ (at = Nobody /\ p' = q)
    BY <1>2 DEF Binding, Append
  <2>3. at = Nobody => ~IsBound(p, me.id)
    BY <1>0, <2>1, Fields
  <2> HIDE DEF at
  <2> QED BY <2>1, <2>2, <2>3 DEF Mutation
<1>3. CASE Reservation(c)
  <2>1. me.id \in Ids /\ IsBound(p, me.id)
    BY <1>0, <1>3 DEF Reservation, InPlace
  <2>2. p' = p \/ (p.reserved[me.id] = Nobody /\ p' = ReserveQuota(p, me.id))
    BY <1>3 DEF Reservation, Append
  <2>3. p.reserved[me.id] = Nobody => p.quota[me.id] = "none"
    BY <2>1 DEF IInv, InOrder
  <2> QED BY <2>1, <2>2, <2>3 DEF Mutation
<1>4. CASE Undo(c)
  <2>1. me.id \in Ids
    BY <1>0, <1>4 DEF Undo, InPlace
  <2> QED BY <1>4, <2>1, Released DEF Undo, Refused
<1>5. CASE RecordRetry(c)
  <2>1. me.id \in Ids
    BY <1>0, <1>5 DEF RecordRetry, InPlace
  <2> QED BY <1>5, <2>1 DEF RecordRetry, RecordRetryCreated, Mutation, Refused
<1>6. CASE Start(c) \/ Recalled(c) \/ Readmit(c)
  BY <1>6 DEF Start, Recalled, Readmit, Mutation
<1> QED BY <1>1, <1>2, <1>3, <1>4, <1>5, <1>6 DEF CallerStep

\* Each step appends one event, or none.
LEMMA StepMutates == ASSUME IInv, NInv, [Next]_vars PROVE Mutation
<1>0. ASSUME p' = p PROVE Mutation
  BY <1>0 DEF Mutation
<1>1. ASSUME NEW c \in Clients, NEW i \in Requests, Admit(c, i) \/ AdmitAgain(c, i) PROVE Mutation
  BY <1>0, <1>1 DEF Admit, AdmitAgain
<1>2. ASSUME NEW c, NEW i \in Ids, Retry(c, i) PROVE Mutation
  BY <1>2, Released DEF Retry, ReleaseOld
<1>3. ASSUME NEW c \in Callers, CallerStep(c) PROVE Mutation
  BY <1>3, CallerMutates
<1>4. ASSUME NEW i \in Ids, RunStep(i) PROVE Mutation
  BY <1>0, <1>4 DEF RunStep, Close, Announce
<1>5. ASSUME NEW i \in Ids, ProcessLive(i) PROVE Mutation
  BY <1>0, <1>5, Processed DEF ProcessLive, GoesOn, Fails, Refused, NInv, Announced
<1>6. ASSUME NEW i \in Ids, Settle(i) PROVE Mutation
  BY <1>0, <1>6, SettledIt DEF Settle, Refused
<1>7. ASSUME NEW i \in Ids, ReconcileRun(i) PROVE Mutation
  BY <1>0, <1>7, Processed DEF ReconcileRun, GoesOn, Fails, Refused, Unsettled
<1>8. ASSUME NEW i \in Ids, ReconcileSettle(i) PROVE Mutation
  BY <1>0, <1>8, SettledIt DEF ReconcileSettle, Refused
<1>9. CASE ReconcileEnd \/ Tick \/ Pass \/ Crash \/ Boot \/ UNCHANGED vars
  BY <1>0, <1>9 DEF ReconcileEnd, Tick, Pass, Crash, Boot, vars
<1> QED BY <1>1, <1>2, <1>3, <1>4, <1>5, <1>6, <1>7, <1>8, <1>9
        DEF Next, UserRetry, JobStep, MonitorStep, Launch


-----------------------------------------------------------------------------
(* What the callers and the runs do between the appends *)

\* A place of a saga that names a todo names one of the goal; a retry is of a bound run.
Placed(r) ==
  /\ r.pc \in {"admit", "bind"} => r.todo \in Todos
  /\ r.pc = "retry" => IsBound(p, r.of)

\* A caller stays where it is, or comes to a place of its own choice.
LEMMA Moves ==
  ASSUME IInv, NInv, NEW c \in Callers, CallerStep(c)
  PROVE  /\ \A d \in Callers \ {c} : caller'[d] = caller[d]
         /\ Placed(caller'[c])
         /\ caller'[c].pc = "recalling" => Start(c)
<1> DEFINE me == caller[c]
<1>0. me \in Caller /\ DOMAIN caller = Callers /\ Placed(me) /\ InPlace(p, me)
  BY DEF IInv, Types, NInv, Named, Placed, Sagas
<1>1. Placed(Idle) /\ Idle.pc # "recalling"
  BY DEF Idle, Placed
<1>2. ASSUME Leave(c)
      PROVE  caller' = [caller EXCEPT ![c] = Idle]
  BY <1>2 DEF Leave, Goto
<1>3. ASSUME NEW at, NEW new, NEW then \in {"bind", "reserve", "start"}, Append(c, at, new, then),
             then = "bind" => me.pc = "admit"
      PROVE  /\ \A d \in Callers \ {c} : caller'[d] = caller[d]
             /\ Placed(caller'[c]) /\ caller'[c].pc # "recalling"
  <2>1. \/ caller' = [caller EXCEPT ![c] = Idle]
        \/ \E n : caller' = [caller EXCEPT ![c] = [me EXCEPT !.pc = then, !.rev = n]]
    BY <1>2, <1>3 DEF Append, Goto
  <2>2. ASSUME NEW n
        PROVE  LET r == [me EXCEPT !.pc = then, !.rev = n] IN Placed(r) /\ r.pc # "recalling"
    BY <1>0, <1>3 DEF Placed, Caller
  <2> QED BY <1>0, <1>1, <2>1, <2>2
<1>4. CASE Admission(c)
  BY <1>3, <1>4 DEF Admission
<1>5. CASE Binding(c)
  BY <1>3, <1>5 DEF Binding, AfterBinding
<1>6. CASE Reservation(c)
  BY <1>3, <1>6 DEF Reservation
<1>7. \A place \in {"recalling", "record", "undo"} :
         Placed([me EXCEPT !.pc = place]) /\ [me EXCEPT !.pc = place].pc = place
  BY <1>0 DEF Placed, Caller
<1>8. CASE Start(c) \/ Recalled(c)
  <2>1. \/ caller' = [caller EXCEPT ![c] = Idle]
        \/ Start(c) /\ caller' = [caller EXCEPT ![c] = [me EXCEPT !.pc = "recalling"]]
        \/ \E place \in {"record", "undo"} : caller' = [caller EXCEPT ![c] = [me EXCEPT !.pc = place]]
    BY <1>2, <1>8 DEF Start, Recalled, Answer, Goto
  <2> QED BY <1>0, <1>1, <1>7, <2>1
<1>9. CASE Undo(c) \/ RecordRetry(c)
  BY <1>0, <1>1, <1>2, <1>9 DEF Undo, RecordRetry
<1>10. CASE Readmit(c)
  <2>1. IsBound(p, me.of) /\ me.of \in Ids
    BY <1>0, <1>10 DEF Readmit, Placed, InPlace
  <2>2. p.binding[me.of].todo \in Todos
    BY <2>1 DEF NInv, Named
  <2>3. ASSUME NEW n, Goto(c, [pc |-> "admit", id |-> n, rev |-> p.rev, todo |-> p.binding[me.of].todo,
                               attempt |-> p.binding[me.of].attempt + 1, of |-> me.of])
        PROVE  /\ \A d \in Callers \ {c} : caller'[d] = caller[d]
               /\ Placed(caller'[c]) /\ caller'[c].pc # "recalling"
    BY <1>0, <2>2, <2>3 DEF Goto, Placed
  <2> QED BY <1>0, <1>1, <1>2, <1>10, <2>3 DEF Readmit
<1> QED BY <1>4, <1>5, <1>6, <1>8, <1>9, <1>10 DEF CallerStep

\* In one step at most one caller moves, unless all are forgotten.
LEMMA AllPlaced ==
  ASSUME IInv, NInv, [Next]_vars
  PROVE  \A c \in Callers :
            \/ caller'[c] = caller[c]
            \/ Placed(caller'[c]) /\ (caller'[c].pc = "recalling" => Start(c))
<1> DEFINE Fine == \A c \in Callers :
                      \/ caller'[c] = caller[c]
                      \/ Placed(caller'[c]) /\ (caller'[c].pc = "recalling" => Start(c))
<1>0. DOMAIN caller = Callers /\ Clients \subseteq Callers /\ Monitor \in Callers /\ Requests \subseteq Ids
  BY DEF IInv, Types, Callers, Ids
<1>1. ASSUME NEW c \in Clients, NEW i \in Requests, Admit(c, i) \/ AdmitAgain(c, i) PROVE Fine
  <2>1. CASE Admit(c, i)
    <3> DEFINE r == [pc |-> "admit", id |-> i, rev |-> p.rev, todo |-> TodoOf[i], attempt |-> 1, of |-> Nobody]
    <3>1. caller' = [caller EXCEPT ![c] = r]
      BY <2>1 DEF Admit, Goto
    <3>2. Placed(r) /\ r.pc # "recalling"
      BY ConstantsAssumption DEF Placed
    <3> HIDE DEF r
    <3> QED BY <1>0, <3>1, <3>2
  <2>2. CASE AdmitAgain(c, i)
    <3> DEFINE r(pc) == [pc |-> pc, id |-> i, rev |-> Expected(pc, p), todo |-> p.binding[i].todo,
                         attempt |-> p.binding[i].attempt, of |-> Nobody]
    <3>1. PICK pc \in {"reserve", "start"} : caller' = [caller EXCEPT ![c] = r(pc)]
      BY <2>2 DEF AdmitAgain, Goto
    <3>2. Placed(r(pc)) /\ r(pc).pc # "recalling"
      BY DEF Placed
    <3> HIDE DEF r
    <3> QED BY <1>0, <3>1, <3>2
  <2> QED BY <1>1, <2>1, <2>2
<1>2. ASSUME NEW c \in Callers, NEW i \in Ids, Retry(c, i) PROVE Fine
  BY <1>0, <1>2 DEF Retry, Goto, Idle, Placed
<1>3. ASSUME NEW c \in Callers, CallerStep(c) PROVE Fine
  BY <1>3, Moves
<1>4. CASE Crash
  BY <1>4 DEF Crash, Idle, Placed
<1>5. ASSUME UNCHANGED caller PROVE Fine
  BY <1>5
<1>6. \/ \E i \in Ids : RunStep(i) \/ JobStep(i) \/ ReconcileRun(i) \/ ReconcileSettle(i)
      \/ ReconcileEnd \/ Tick \/ Pass \/ Boot \/ UNCHANGED vars
      => UNCHANGED caller
  BY DEF RunStep, Close, Announce, JobStep, ProcessLive, Settle, ReconcileRun, ReconcileSettle,
         ReconcileEnd, Tick, Pass, Boot, vars
<1>7. \/ \E c \in Clients, i \in Requests : Admit(c, i) \/ AdmitAgain(c, i)
      \/ \E c \in Callers, i \in Ids : Retry(c, i)
      \/ \E c \in Callers : CallerStep(c)
      \/ Crash \/ UNCHANGED caller
  BY <1>0, <1>6 DEF Next, UserRetry, MonitorStep, Launch
<1> QED BY <1>1, <1>2, <1>3, <1>4, <1>5, <1>7

\* Whom the runs of a step leave alone: the ended ones always, those that wait for a recall
\* until it is theirs.
LEMMA RunsMove ==
  ASSUME IInv, NInv, [Next]_vars
  PROVE  /\ Announced'
         /\ \A i \in Ids : run[i] \in Ended => run'[i] = run[i]
<1> DEFINE Goes == /\ run' \in [Ids -> RunStates]
                   /\ \A i \in Ids : run[i] \in Ended => run'[i] = run[i]
                   /\ live' \subseteq announced'
                   /\ announced' \subseteq {i \in Ids : run'[i] \in Ended}
<1>0. /\ run \in [Ids -> RunStates] /\ live \subseteq announced
      /\ announced \subseteq {i \in Ids : run[i] \in Ended}
  BY DEF NInv, Announced
<1>1. ASSUME NEW i \in Ids, run[i] \notin Ended, NEW s \in RunStates, run' = [run EXCEPT ![i] = s],
             UNCHANGED <<live, announced>>
      PROVE  Goes
  BY <1>0, <1>1
<1>2. ASSUME UNCHANGED run, live' \subseteq live, UNCHANGED announced PROVE Goes
  BY <1>0, <1>2
<1>3. ASSUME NEW c \in Callers, CallerStep(c) PROVE Goes
  <2>1. UNCHANGED <<live, announced>>
    BY <1>3 DEF CallerStep, Admission, Binding, Reservation, Append, Start, Recalled, Undo, Readmit, RecordRetry
  <2>2. /\ caller[c].pc \in {"start", "recalling"} => caller[c].id \in Ids
        /\ caller[c].pc = "recalling" => run[caller[c].id] = "starting"
    BY DEF IInv, Sagas, InPlace, NInv, Recalls
  <2>3. \/ UNCHANGED run
        \/ \E i \in Ids, s \in RunStates : run[i] \in {"none", "starting"} /\ run' = [run EXCEPT ![i] = s]
    BY <1>3, <2>2 DEF CallerStep, Admission, Binding, Reservation, Append, Start, Recalled, Undo,
                      Readmit, RecordRetry, RunStates
  <2> QED BY <1>1, <1>2, <2>1, <2>3 DEF Ended
<1>4. ASSUME NEW i \in Ids, Close(i) PROVE Goes
  <2>1. PICK s \in {"completing", "failing"} : run' = [run EXCEPT ![i] = s]
    BY <1>4 DEF Close
  <2> QED BY <1>1, <1>4, <2>1 DEF Close, RunStates, Ended
<1>5. ASSUME NEW i \in Ids, Announce(i) PROVE Goes
  <2>1. run' = [run EXCEPT ![i] = ClosedAs(run[i])]
    BY <1>0, <1>5 DEF Announce
  <2>2. ClosedAs(run[i]) \in Ended /\ run[i] \notin Ended
    BY <1>5 DEF Announce, ClosedAs, Ended
  <2>3. live' = live \cup {i} /\ announced' = announced \cup {i}
    BY <1>5 DEF Announce
  <2> QED BY <1>0, <2>1, <2>2, <2>3 DEF Ended, RunStates
<1>6. ASSUME Crash PROVE Goes
  <2>1. \A i \in Ids : /\ run'[i] = IF Logged(i) THEN ClosedAs(run[i]) ELSE "none"
                       /\ run[i] \in RunStates
    BY <1>0, <1>6 DEF Crash
  <2>2. DOMAIN run' = Ids /\ run' = [i \in Ids |-> run'[i]]
    BY <1>6, Zenon DEF Crash
  <2>3. \A i \in Ids : run'[i] \in RunStates /\ (run[i] \in Ended => run'[i] = run[i])
    BY <2>1 DEF Logged, ClosedAs, RunStates, Ended
  <2>4. live' = {} /\ announced' = announced
    BY <1>6 DEF Crash
  <2>5. run' \in [Ids -> RunStates]
    BY <2>2, <2>3
  <2> QED BY <1>0, <2>3, <2>4, <2>5
<1>7. ASSUME Boot PROVE Goes
  <2>1. \A i \in Ids : run'[i] = IF run[i] = "active" THEN "needs-recovery" ELSE run[i]
    BY <1>7 DEF Boot
  <2>2. run' = [i \in Ids |-> run'[i]]
    BY <1>7, Zenon DEF Boot
  <2>3. live' = live /\ announced' = announced \cup {i \in Ids : run[i] = "active"}
    BY <1>7 DEF Boot
  <2>4. \A i \in Ids : run'[i] \in RunStates /\ (run[i] \in Ended => run'[i] = run[i])
    BY <1>0, <2>1 DEF RunStates, Ended
  <2>5. run' \in [Ids -> RunStates]
    BY <2>2, <2>4
  <2>6. \A i \in Ids : run[i] = "active" => run'[i] \in Ended
    BY <2>1 DEF Ended
  <2>7. announced' \subseteq {i \in Ids : run'[i] \in Ended}
    BY <1>0, <2>3, <2>4, <2>6
  <2> QED BY <1>0, <2>3, <2>4, <2>5, <2>7
<1>8. \/ \E c \in Clients, i \in Requests : Admit(c, i) \/ AdmitAgain(c, i)
      \/ \E c \in Callers, i \in Ids : UserRetry(c, i) \/ Launch(i)
      \/ \E i \in Ids : JobStep(i) \/ ReconcileRun(i) \/ ReconcileSettle(i)
      \/ ReconcileEnd \/ Tick \/ Pass \/ UNCHANGED vars
      => UNCHANGED run /\ live' \subseteq live /\ UNCHANGED announced
  BY DEF Admit, AdmitAgain, UserRetry, Launch, JobStep, ProcessLive, Settle, ReconcileRun, ReconcileSettle,
         ReconcileEnd, Tick, Pass, vars
<1>9. Clients \subseteq Callers /\ Monitor \in Callers
  BY DEF Callers
<1> HIDE DEF Goes
<1>10. Goes
  BY <1>2, <1>3, <1>4, <1>5, <1>6, <1>7, <1>8, <1>9 DEF Next, RunStep, MonitorStep
<1>11. p' \in Projection
  BY StepMutates, StaysShaped DEF NInv, Announced
<1> QED BY <1>10, <1>11 DEF Announced, Goes

\* No two callers wait for the recall of one run.
LEMMA RecallsKept == ASSUME IInv, NInv, [Next]_vars PROVE Recalls'
<1>0. /\ Recalls /\ DOMAIN run = Ids /\ DOMAIN caller = Callers
      /\ Clients \subseteq Callers /\ Monitor \in Callers
      /\ \A c \in Callers : caller[c].pc \in {"start", "recalling"} => caller[c].id \in Ids
  BY DEF NInv, IInv, Types, Callers, Sagas, InPlace
<1>1. ASSUME NEW c \in Callers, Start(c), caller'[c].pc = "recalling" PROVE Recalls'
  <2>1. CASE run[caller[c].id] = "none" /\ caller' = [caller EXCEPT ![c] = [caller[c] EXCEPT !.pc = "recalling"]]
             /\ run' = [run EXCEPT ![caller[c].id] = "starting"]
    <3>1. caller[c].pc = "start" /\ caller[c].id \in Ids
      BY <1>0, <1>1 DEF Start
    <3>2. caller'[c].id = caller[c].id /\ \A d \in Callers \ {c} : caller'[d] = caller[d]
      BY <1>0, <2>1 DEF IInv, Types, Caller
    <3>3. run'[caller[c].id] = "starting" /\ \A i \in Ids : run[i] = "starting" => run'[i] = "starting"
      BY <1>0, <2>1, <3>1
    <3>4. \A d \in Callers : caller[d].pc = "recalling" => caller[d].id # caller[c].id
      BY <1>0, <2>1 DEF Recalls
    <3> QED BY <1>0, <3>1, <3>2, <3>3, <3>4 DEF Recalls
  <2>2. CASE caller' = [caller EXCEPT ![c] = Idle]
    BY <1>0, <1>1, <2>2 DEF Idle
  <2>3. CASE \E place \in {"record", "undo"} : caller' = [caller EXCEPT ![c] = [caller[c] EXCEPT !.pc = place]]
    BY <1>0, <1>1, <2>3 DEF IInv, Types, Caller
  <2> QED BY <1>1, <2>1, <2>2, <2>3 DEF Start, Answer, Leave, Goto
<1>2. ASSUME \A c \in Callers : caller'[c] = caller[c] \/ caller'[c].pc # "recalling",
             \A i \in Ids : run[i] = "starting" => run'[i] = "starting"
      PROVE  Recalls'
  BY <1>0, <1>2 DEF Recalls
<1>3. ASSUME NEW c \in Callers, Recalled(c) PROVE Recalls'
  <2>1. caller[c].pc = "recalling" /\ caller[c].id \in Ids
    BY <1>0, <1>3 DEF Recalled
  <2>2. \A i \in Ids \ {caller[c].id} : run'[i] = run[i]
    BY <1>0, <1>3 DEF Recalled
  <2>3. /\ \A d \in Callers \ {c} : caller'[d] = caller[d]
        /\ caller'[c].pc = "recalling" => Start(c)
    BY <1>3, Moves DEF CallerStep
  <2>4. caller'[c].pc # "recalling"
    BY <2>1, <2>3 DEF Start
  <2>5. \A d \in Callers \ {c} : caller[d].pc = "recalling" => caller[d].id \in Ids \ {caller[c].id}
    BY <1>0, <2>1 DEF Recalls
  <2> QED BY <1>0, <2>2, <2>3, <2>4, <2>5 DEF Recalls
<1>4. CASE Crash
  BY <1>4 DEF Crash, Idle, Recalls
<1>5. CASE \A c \in Callers : ~Start(c) /\ ~Recalled(c)
  <2>1. \A c \in Callers : caller'[c] = caller[c] \/ caller'[c].pc # "recalling"
    BY <1>5, AllPlaced
  <2>2. CASE UNCHANGED run
    BY <1>2, <2>1, <2>2
  <2>3. CASE \E i \in Ids : Close(i) \/ Announce(i)
    <3>1. \A i \in Ids : run[i] = "starting" => run'[i] = "starting"
      BY <1>0, <2>3 DEF Close, Announce
    <3> QED BY <1>2, <2>1, <3>1
  <2>4. CASE Boot
    <3>1. \A i \in Ids : run[i] = "starting" => run'[i] = "starting"
      BY <2>4 DEF Boot
    <3> QED BY <1>2, <2>1, <3>1
  <2>5. ASSUME NEW c \in Callers, CallerStep(c) PROVE UNCHANGED run
    BY <1>5, <2>5 DEF CallerStep, Admission, Binding, Reservation, Append, Undo, Readmit, RecordRetry
  <2>6. \/ \E c \in Clients, i \in Requests : Admit(c, i) \/ AdmitAgain(c, i)
        \/ \E c \in Clients, i \in Ids : UserRetry(c, i)
        \/ \E i \in Ids : JobStep(i) \/ ReconcileRun(i) \/ ReconcileSettle(i) \/ Launch(i)
        \/ ReconcileEnd \/ Tick \/ Pass \/ UNCHANGED vars
        => UNCHANGED run
    BY DEF Admit, AdmitAgain, UserRetry, Launch, JobStep, ProcessLive, Settle, ReconcileRun, ReconcileSettle,
           ReconcileEnd, Tick, Pass, vars
  <2> QED BY <1>4, <2>2, <2>3, <2>4, <2>5, <2>6 DEF Next, RunStep, MonitorStep
<1>6. ASSUME NEW c \in Callers, Start(c), caller'[c].pc # "recalling" PROVE Recalls'
  <2>1. UNCHANGED run
    <3>1. CASE caller' = [caller EXCEPT ![c] = [caller[c] EXCEPT !.pc = "recalling"]]
      BY <1>0, <1>6, <3>1 DEF IInv, Types, Caller
    <3> QED BY <1>6, <3>1 DEF Start, Goto
  <2>2. \A d \in Callers \ {c} : caller'[d] = caller[d]
    BY <1>6, Moves DEF CallerStep
  <2> QED BY <1>2, <1>6, <2>1, <2>2
<1> QED BY <1>1, <1>3, <1>5, <1>6

\* What is bound stays bound to its todo.
LEMMA NamedKept == ASSUME IInv, NInv, [Next]_vars PROVE Named'
<1>0. p \in Projection /\ Effect /\ Named /\ Adds(p')
  BY StepMutates, Effects, StepInv DEF NInv, Announced
<1>1. \A i \in Ids : IsBound(p, i) => p'.binding[i] = p.binding[i]
  BY <1>0 DEF Effect, Kept, Projection
<1>2. \A i \in Ids : IsBound(p', i) => p'.binding[i].todo \in Todos
  <2>1. CASE p'.binding = p.binding
    BY <1>0, <2>1 DEF Named, IsBound
  <2>2. ASSUME NEW i \in Ids, NEW todo \in Todos, NEW n \in Nat, NEW of,
               p'.binding = [p.binding EXCEPT ![i] = [todo |-> todo, attempt |-> n, since |-> p.rev, of |-> of]]
        PROVE  \A j \in Ids : IsBound(p', j) => p'.binding[j].todo \in Todos
    <3>1. p'.binding[i].todo = todo /\ \A j \in Ids \ {i} : p'.binding[j] = p.binding[j]
      BY <1>0, <2>2 DEF Projection
    <3> QED BY <1>0, <3>1 DEF Named, IsBound
  <2>3. \/ p'.binding = p.binding
        \/ \E i \in Ids, todo \in Todos, n \in Nat, of \in Ids \cup {Nobody} :
              p'.binding = [p.binding EXCEPT ![i] = [todo |-> todo, attempt |-> n, since |-> p.rev, of |-> of]]
    BY <1>0, Zenon DEF Effect, Kept
  <2> QED BY <2>1, <2>2, <2>3
<1>3. \A i \in Ids : IsBound(p, i) => IsBound(p', i)
  BY <1>0 DEF Adds
<1>4. \A c \in Callers : caller[c].pc = "retry" => caller[c].of \in Ids
  BY DEF IInv, Sagas, InPlace
<1>5. ASSUME NEW c \in Callers
      PROVE  /\ caller'[c].pc \in {"admit", "bind"} => caller'[c].todo \in Todos
             /\ caller'[c].pc = "retry" => IsBound(p, caller'[c].of)
  BY <1>0, AllPlaced DEF Named, Placed
<1>6. \A c \in Callers : caller'[c].pc = "retry" => caller'[c].of \in Ids
  BY StepInv DEF IInv, Sagas, InPlace
<1> QED BY <1>2, <1>3, <1>5, <1>6 DEF Named

\* Every step preserves what is known of the runs, and appends once at most.
LEMMA StepRuns == ASSUME IInv, NInv, [Next]_vars PROVE NInv'
BY RunsMove, RecallsKept, NamedKept DEF NInv

\* The initial states: nothing is bound, nobody is at work.
LEMMA InitRuns == ASSUME Init PROVE NInv
<1>1. Empty \in Projection
  BY ConstantsAssumption DEF Empty, Projection, Unbound
<1>2. Announced
  BY <1>1 DEF Init, Announced, RunStates
<1> QED BY <1>2 DEF Init, NInv, Recalls, Named, Idle, Empty, IsBound

-----------------------------------------------------------------------------
(* The locks of the runs *)

\* A caller that goes away gives the lock back.
LEMMA LeaveHeld == ASSUME IInv, Held, NEW c \in Callers, Leave(c) PROVE Held'
<1>0. caller[c].of \in Ids \cup {Nobody} /\ Nobody \notin Ids /\ DOMAIN caller = Callers
  BY ConstantsAssumption DEF IInv, Types, Caller
<1>1. caller'[c].of = Nobody /\ \A d \in Callers \ {c} : caller'[d] = caller[d]
  BY <1>0 DEF Leave, Goto, Idle
<1>2. CASE caller[c].of = Nobody
  <2>1. job' = job /\ \A d \in Callers : caller'[d].of = caller[d].of
    BY <1>1, <1>2 DEF Leave
  <2> QED BY <2>1 DEF Held
<1>3. CASE caller[c].of # Nobody
  <2>1. /\ job'[caller[c].of] = "none" /\ DOMAIN job' = Ids
        /\ \A i \in Ids \ {caller[c].of} : job'[i] = job[i]
    BY <1>0, <1>3 DEF Leave, Held
  <2>2. \A d \in Callers \ {c} : caller[d].of # caller[c].of
    BY <1>3 DEF Held
  <2>3. \A i \in Ids : job'[i] = "retry" <=> \E d \in Callers : caller'[d].of = i
    BY <1>0, <1>1, <2>1, <2>2 DEF Held
  <2>4. \A d, e \in Callers : caller'[d].of # Nobody /\ caller'[d].of = caller'[e].of => d = e
    BY <1>1 DEF Held
  <2> QED BY <2>1, <2>3, <2>4 DEF Held
<1> QED BY <1>2, <1>3

\* The step of a caller keeps its lock, or gives it back.
LEMMA CallerHeld == ASSUME IInv, Held, NEW c \in Callers, CallerStep(c) PROVE Held'
<1> DEFINE me == caller[c]
<1>0. me \in Caller /\ DOMAIN caller = Callers
  BY DEF IInv, Types
<1>1. ASSUME NEW r, r.of = me.of, caller' = [caller EXCEPT ![c] = r], UNCHANGED job PROVE Held'
  <2>1. \A d \in Callers : caller'[d].of = caller[d].of
    BY <1>0, <1>1
  <2> QED BY <1>1, <2>1 DEF Held
<1>2. ASSUME NEW at, NEW new, NEW then, Append(c, at, new, then) PROVE Held'
  <2>1. \/ Leave(c)
        \/ UNCHANGED job /\ \E n : caller' = [caller EXCEPT ![c] = [me EXCEPT !.pc = then, !.rev = n]]
    BY <1>2 DEF Append, Goto
  <2>2. ASSUME NEW n PROVE [me EXCEPT !.pc = then, !.rev = n].of = me.of
    BY <1>0 DEF Caller
  <2> QED BY <1>1, <2>1, <2>2, LeaveHeld
<1>3. CASE Admission(c) \/ Binding(c) \/ Reservation(c)
  BY <1>2, <1>3 DEF Admission, Binding, Reservation
<1>4. CASE Start(c) \/ Recalled(c)
  <2>1. \/ Leave(c)
        \/ UNCHANGED job /\ \E place \in {"recalling", "record", "undo"} :
                               caller' = [caller EXCEPT ![c] = [me EXCEPT !.pc = place]]
    BY <1>4 DEF Start, Recalled, Answer, Goto
  <2>2. ASSUME NEW place PROVE [me EXCEPT !.pc = place].of = me.of
    BY <1>0 DEF Caller
  <2> QED BY <1>1, <2>1, <2>2, LeaveHeld
<1>5. CASE Undo(c) \/ RecordRetry(c)
  BY <1>5, LeaveHeld DEF Undo, RecordRetry
<1>6. CASE Readmit(c)
  <2>1. ASSUME NEW n, UNCHANGED job,
               Goto(c, [pc |-> "admit", id |-> n, rev |-> p.rev, todo |-> p.binding[me.of].todo,
                        attempt |-> p.binding[me.of].attempt + 1, of |-> me.of])
        PROVE  Held'
    BY <1>1, <2>1 DEF Goto
  <2> QED BY <1>6, <2>1, LeaveHeld DEF Readmit
<1> QED BY <1>3, <1>4, <1>5, <1>6 DEF CallerStep

\* A retry takes a lock that is free.
LEMMA RetryHeld == ASSUME IInv, Held, NEW c \in Callers, NEW i \in Ids, Retry(c, i) PROVE Held'
<1>1. /\ caller'[c].of = i /\ \A d \in Callers \ {c} : caller'[d] = caller[d]
  BY DEF Retry, Goto, Idle, IInv, Types
<1>2. job'[i] = "retry" /\ DOMAIN job' = Ids /\ \A j \in Ids \ {i} : job'[j] = job[j]
  BY DEF Retry, Held
<1>3. caller[c].of = Nobody /\ Nobody \notin Ids
  BY ConstantsAssumption DEF Retry, Idle
<1>4. \A d \in Callers : caller[d].of # i
  BY DEF Retry, Held
<1>5. \A j \in Ids : job'[j] = "retry" <=> \E d \in Callers : caller'[d].of = j
  <2> SUFFICES ASSUME NEW j \in Ids PROVE job'[j] = "retry" <=> \E d \in Callers : caller'[d].of = j
    OBVIOUS
  <2>1. CASE j = i
    BY <1>1, <1>2, <2>1
  <2>2. CASE j # i
    BY <1>1, <1>2, <1>3, <2>2 DEF Held
  <2> QED BY <2>1, <2>2
<1>6. \A d, e \in Callers : caller'[d].of # Nobody /\ caller'[d].of = caller'[e].of => d = e
  BY <1>1, <1>4 DEF Held
<1> QED BY <1>2, <1>5, <1>6 DEF Held

\* The locks of writebacks, of which a retry knows nothing.
LEMMA JobHeld ==
  ASSUME Held, UNCHANGED caller, NEW i \in Ids, job[i] # "retry", NEW who, who # "retry",
         job' = [job EXCEPT ![i] = who]
  PROVE  Held'
BY DEF Held

\* Every step preserves who holds the locks of the retries.
LEMMA StepHeld == ASSUME IInv, Held, [Next]_vars PROVE Held'
<1>0. Clients \subseteq Callers /\ Monitor \in Callers /\ DOMAIN caller = Callers /\ Requests \subseteq Ids
  BY DEF Callers, IInv, Types, Ids
<1>1. ASSUME NEW c \in Clients, NEW i \in Requests, Admit(c, i) \/ AdmitAgain(c, i) PROVE Held'
  <2>1. caller[c].of = Nobody /\ UNCHANGED job
    BY <1>1 DEF Admit, AdmitAgain, Idle
  <2>2. \A d \in Callers : caller'[d].of = caller[d].of
    BY <1>0, <1>1, <2>1 DEF Admit, AdmitAgain, Goto
  <2> QED BY <2>1, <2>2 DEF Held
<1>2. ASSUME NEW i \in Ids, NEW who \in {"live", "rec"}, UNCHANGED caller,
             Process(i, who) \/ GoesOn(i, who) \/ Fails(i)
      PROVE  Held'
  <2>1. UNCHANGED job \/ (job[i] = "none" /\ job' = [job EXCEPT ![i] = who])
    BY <1>2 DEF Process, GoesOn, Fails
  <2> QED BY <1>2, <2>1, JobHeld DEF Held
<1>3. ASSUME NEW i \in Ids, Settle(i) \/ ReconcileSettle(i) PROVE Held'
  BY <1>3, JobHeld DEF Settle, ReconcileSettle
<1>4. CASE Crash
  BY <1>4, ConstantsAssumption DEF Crash, Idle, Held
<1>5. ASSUME UNCHANGED <<caller, job>> PROVE Held'
  BY <1>5 DEF Held
<1>6. \/ \E i \in Ids : RunStep(i)
      \/ ReconcileEnd \/ Tick \/ Pass \/ Boot \/ UNCHANGED vars
      => UNCHANGED <<caller, job>>
  BY DEF RunStep, Close, Announce, ReconcileEnd, Tick, Pass, Boot, vars
<1>7. ASSUME NEW i \in Ids, ReconcileRun(i) PROVE Held'
  BY <1>2, <1>5, <1>7 DEF ReconcileRun
<1>8. ASSUME NEW i \in Ids, ProcessLive(i) PROVE Held'
  BY <1>2, <1>8 DEF ProcessLive
<1> QED BY <1>0, <1>1, <1>3, <1>4, <1>5, <1>6, <1>7, <1>8, RetryHeld, CallerHeld
        DEF Next, UserRetry, Launch, JobStep, MonitorStep

\* Every step preserves what is known of reconciliations.
LEMMA StepSweeps == ASSUME IInv, Locks, [Next]_vars PROVE Sweeps'
<1> USE DEF Sweeps
<1>0. Sweeps /\ DOMAIN job = Ids
  BY DEF Locks, Held
<1>1. /\ NoReconciliation \in [for : {"none", "startup", "tick", "decision"}, left : SUBSET Ids]
      /\ NoReconciliation.left = {}
      /\ \A for \in {"startup", "tick"} :
            /\ Reconciliation(for) \in [for : {"none", "startup", "tick", "decision"}, left : SUBSET Ids]
            /\ Reconciliation(for).for = for
  BY DEF NoReconciliation, Reconciliation, Bound
<1>r. Refused => daemon = "up" /\ faults' \in 0 .. MaxFaults
  BY <1>0, CallersAssumption DEF Refused
<1>2. ASSUME UNCHANGED <<rec, daemon>>, UNCHANGED faults \/ Refused,
             \A i \in Ids : job'[i] = "rec" => job[i] = "rec"
      PROVE  Sweeps'
  BY <1>0, <1>2, <1>r
<1>3. \A c \in Callers : Leave(c) => \A i \in Ids : job'[i] = "rec" => job[i] = "rec"
  BY <1>0 DEF Leave
<1>4. ASSUME NEW c \in Callers, CallerStep(c) PROVE Sweeps'
  <2>1. UNCHANGED job \/ Leave(c)
    BY <1>4 DEF CallerStep, Admission, Binding, Reservation, Append, Start, Recalled, Answer, Undo, Readmit, RecordRetry
  <2>2. UNCHANGED <<rec, daemon>> /\ (UNCHANGED faults \/ Refused)
    BY <1>4 DEF CallerStep, Admission, Binding, Reservation, Append, Start, Recalled, Undo, Readmit, RecordRetry
  <2> QED BY <1>2, <1>3, <2>1, <2>2
<1>5. ASSUME NEW c, NEW i \in Ids, Retry(c, i) PROVE \A j \in Ids : job'[j] = "rec" => job[j] = "rec"
  BY <1>0, <1>5 DEF Retry
<1>6. \/ \E c \in Clients, i \in Requests : Admit(c, i) \/ AdmitAgain(c, i)
      \/ \E i \in Ids : RunStep(i)
      \/ UNCHANGED vars
      => UNCHANGED <<rec, daemon, faults, job>>
  BY DEF Admit, AdmitAgain, RunStep, Close, Announce, vars
<1>7. ASSUME NEW i \in Ids, ProcessLive(i) \/ Settle(i) PROVE Sweeps'
  <2>1. \A j \in Ids : job'[j] = "rec" => job[j] = "rec"
    BY <1>0, <1>7 DEF ProcessLive, Process, GoesOn, Fails, Settle
  <2>2. UNCHANGED <<rec, daemon>> /\ (UNCHANGED faults \/ Refused)
    BY <1>7 DEF ProcessLive, GoesOn, Fails, Settle
  <2> QED BY <1>2, <2>1, <2>2
<1>8. ASSUME NEW i \in Ids, ReconcileRun(i) PROVE Sweeps'
  <2>0. rec.for \in {"startup", "tick"} /\ \A j \in Ids : job[j] # "rec"
    BY <1>0, <1>8 DEF ReconcileRun, Reconciling
  <2>f. faults' \in 0 .. MaxFaults
    BY <1>0, <1>8, <1>r DEF ReconcileRun, GoesOn, Fails
  <2>1. CASE rec' = [rec EXCEPT !.left = @ \ {i}] /\ UNCHANGED daemon /\ (Process(i, "rec") \/ GoesOn(i, "rec"))
    <3>1. job' = job \/ job' = [job EXCEPT ![i] = "rec"]
      BY <2>1 DEF Process, GoesOn
    <3>2. \A j \in Ids : job'[j] = "rec" => j = i
      BY <1>0, <2>0, <3>1
    <3>3. rec'.for = rec.for /\ rec' \in [for : {"none", "startup", "tick", "decision"}, left : SUBSET Ids]
      BY <1>0, <2>1
    <3> QED BY <1>0, <1>8, <2>0, <2>1, <2>f, <3>2, <3>3 DEF ReconcileRun
  <2>2. CASE Abort /\ UNCHANGED job
    BY <1>0, <1>1, <1>8, <2>0, <2>2, <2>f DEF Abort, ReconcileRun
  <2>3. CASE rec' = [rec EXCEPT !.left = @ \ {i}] /\ UNCHANGED <<daemon, job>>
    <3>1. rec'.for = rec.for /\ rec' \in [for : {"none", "startup", "tick", "decision"}, left : SUBSET Ids]
      BY <1>0, <2>3
    <3> QED BY <1>0, <1>8, <2>0, <2>3, <2>f, <3>1 DEF ReconcileRun
  <2> QED BY <1>8, <2>1, <2>2, <2>3 DEF ReconcileRun, Fails
<1>9. ASSUME NEW i \in Ids, ReconcileSettle(i) PROVE Sweeps'
  <2>f. faults' \in 0 .. MaxFaults
    BY <1>0, <1>9, <1>r DEF ReconcileSettle
  <2>1. \A j \in Ids : job'[j] # "rec"
    BY <1>0, <1>9 DEF ReconcileSettle
  <2>2. CASE UNCHANGED <<rec, daemon>>
    BY <1>0, <1>9, <2>f, <2>1, <2>2 DEF ReconcileSettle
  <2>3. CASE Abort
    BY <1>0, <1>1, <1>9, <2>f, <2>1, <2>3 DEF Abort, ReconcileSettle
  <2> QED BY <1>9, <2>2, <2>3 DEF ReconcileSettle
<1>10. ASSUME NEW i \in Ids, Launch(i) PROVE Sweeps'
  <2>1. \A j \in Ids : job'[j] # "rec"
    BY <1>0, <1>5, <1>10 DEF Launch
  <2> QED BY <1>0, <1>1, <1>10, <2>1 DEF Launch
<1>11. CASE Pass
  <2>1. \A j \in Ids : job'[j] # "rec"
    BY <1>0, <1>11 DEF Pass
  <2> QED BY <1>0, <1>1, <1>11, <2>1 DEF Pass
<1>12. CASE ReconcileEnd
  <2>1. \A j \in Ids : job'[j] # "rec"
    BY <1>12 DEF ReconcileEnd, Reconciling
  <2>2. CASE daemon' = "up" /\ rec' = NoReconciliation
    BY <1>0, <1>1, <1>12, <2>1, <2>2 DEF ReconcileEnd
  <2>3. CASE rec' = [rec EXCEPT !.for = "decision"] /\ UNCHANGED daemon
    <3>1. rec'.left = {} /\ rec' \in [for : {"none", "startup", "tick", "decision"}, left : SUBSET Ids]
      BY <1>0, <1>12, <2>3 DEF ReconcileEnd
    <3> QED BY <1>0, <1>12, <2>1, <2>3, <3>1 DEF ReconcileEnd
  <2> QED BY <1>12, <2>2, <2>3 DEF ReconcileEnd
<1>13. CASE Tick
  BY <1>0, <1>1, <1>13 DEF Tick
<1>14. CASE Boot
  BY <1>0, <1>1, <1>14 DEF Boot
<1>15. CASE Crash
  <2>1. \A j \in Ids : job'[j] # "rec"
    BY <1>15 DEF Crash
  <2>2. faults' \in 0 .. MaxFaults
    BY <1>0, <1>15, CallersAssumption DEF Crash
  <2> QED BY <1>1, <1>15, <2>1, <2>2 DEF Crash
<1> HIDE DEF Sweeps
<1>16. ASSUME NEW c \in Clients, NEW i \in Ids, UserRetry(c, i) PROVE Sweeps'
  BY <1>2, <1>5, <1>16 DEF UserRetry
<1>17. UNCHANGED <<rec, daemon, faults, job>> => Sweeps'
  BY <1>2
<1> QED BY <1>4, <1>6, <1>7, <1>8, <1>9, <1>10, <1>11, <1>12, <1>13, <1>14, <1>15, <1>16, <1>17
        DEF Next, JobStep, MonitorStep

\* Every step preserves the locks.
LEMMA StepLocks == ASSUME IInv, Locks, [Next]_vars PROVE Locks'
BY StepHeld, StepSweeps DEF Locks

-----------------------------------------------------------------------------
(* What was delivered, and on what evidence *)

\* Evidence is of a run that has ended, and stays.
LEMMA StepEvidence ==
  ASSUME IInv, NInv, Earned, [Next]_vars
  PROVE  /\ \A i \in Ids : p'.evidence[i] # "none" => run'[i] \in {"completed", "failed"}
         /\ \A i \in Ids : p'.evidence[i] = "validated" => run'[i] = "completed"
         /\ \A i \in Ids : p.evidence[i] # "none" => p'.evidence[i] = p.evidence[i]
<1>0. Effect /\ DOMAIN p.evidence = Ids
  BY StepMutates, Effects DEF NInv, Announced, Projection
<1>1. \A i \in Ids : p.evidence[i] # "none" => run'[i] = run[i]
  BY RunsMove DEF Earned, Ended
<1>2. ASSUME p'.evidence = p.evidence
      PROVE  /\ \A i \in Ids : p'.evidence[i] # "none" => run'[i] \in {"completed", "failed"}
             /\ \A i \in Ids : p'.evidence[i] = "validated" => run'[i] = "completed"
             /\ \A i \in Ids : p.evidence[i] # "none" => p'.evidence[i] = p.evidence[i]
  BY <1>1, <1>2 DEF Earned
<1>3. ASSUME NEW i \in Ids, run[i] \in {"completed", "failed"}, run' = run, p.evidence[i] = "none",
             NEW verdict \in Verdicts(i), p'.evidence = [p.evidence EXCEPT ![i] = verdict]
      PROVE  /\ \A j \in Ids : p'.evidence[j] # "none" => run'[j] \in {"completed", "failed"}
             /\ \A j \in Ids : p'.evidence[j] = "validated" => run'[j] = "completed"
             /\ \A j \in Ids : p.evidence[j] # "none" => p'.evidence[j] = p.evidence[j]
  <2>1. verdict = "validated" => run[i] = "completed"
    BY <1>3 DEF Verdicts
  <2>2. p'.evidence[i] = verdict /\ \A j \in Ids \ {i} : p'.evidence[j] = p.evidence[j]
    BY <1>0, <1>3
  <2> QED BY <1>3, <2>1, <2>2 DEF Earned
<1>4. \/ p'.evidence = p.evidence
      \/ \E i \in Ids : /\ run[i] \in {"completed", "failed"} /\ run' = run /\ p.evidence[i] = "none"
                        /\ \E verdict \in Verdicts(i) : p'.evidence = [p.evidence EXCEPT ![i] = verdict]
  BY <1>0, Zenon DEF Effect, Kept
<1> QED BY <1>2, <1>3, <1>4

\* A delivery and its payment come together, and stay together.
LEMMA StepDelivery ==
  ASSUME IInv, NInv, Earned, [Next]_vars
  PROVE  /\ \A i \in Ids : p'.quota[i] = "consumed" =>
                              p'.evidence[i] = "validated" /\ p'.done[p'.binding[i].todo] = i
         /\ \A t \in Todos, i \in Ids : p'.done[t] = i => p'.quota[i] = "consumed" /\ p'.binding[i].todo = t
<1> DEFINE Torn(b, q, e, d) ==
             \/ \E i \in Ids : q[i] = "consumed" /\ ~(e[i] = "validated" /\ d[b[i].todo] = i)
             \/ \E t \in Todos, i \in Ids : d[t] = i /\ ~(q[i] = "consumed" /\ b[i].todo = t)
<1>0. /\ Effect /\ Nobody \notin Ids
      /\ DOMAIN p.evidence = Ids /\ DOMAIN p.quota = Ids /\ DOMAIN p.binding = Ids /\ DOMAIN p.done = Todos
      /\ \A i \in Ids : IsBound(p, i) => p.binding[i].todo \in Todos
      /\ \A i \in Ids : p.quota[i] = "consumed" => IsBound(p, i)
  BY StepMutates, Effects, ConstantsAssumption DEF NInv, Announced, Named, Projection, IInv, InOrder
<1>1. ~Torn(p.binding, p.quota, p.evidence, p.done)
  BY DEF Earned
<1>2. \A i \in Ids : p.evidence[i] = "validated" => p'.evidence[i] = "validated"
  BY StepEvidence
<1>3. ~Torn(p'.binding, p'.quota, p'.evidence, p'.done)
  <2>1. ASSUME p'.binding = p.binding, p'.quota = p.quota, p'.done = p.done
        PROVE  ~Torn(p'.binding, p'.quota, p'.evidence, p'.done)
    BY <1>1, <1>2, <2>1
  <2>2. ASSUME NEW i \in Ids, ~IsBound(p, i), NEW b, p'.binding = [p.binding EXCEPT ![i] = b],
               p'.quota = p.quota, p'.done = p.done
        PROVE  ~Torn(p'.binding, p'.quota, p'.evidence, p'.done)
    <3>1. \A j \in Ids \ {i} : p'.binding[j] = p.binding[j]
      BY <1>0, <2>2
    <3>2. p.quota[i] # "consumed" /\ \A t \in Todos : p.done[t] # i
      BY <1>0, <1>1, <2>2
    <3> QED BY <1>1, <1>2, <2>2, <3>1, <3>2
  <2>3. ASSUME NEW i \in Ids, p.quota[i] # "consumed", NEW s \in {"reserved", "released"},
               p'.quota = [p.quota EXCEPT ![i] = s], p'.binding = p.binding, p'.done = p.done
        PROVE  ~Torn(p'.binding, p'.quota, p'.evidence, p'.done)
    <3>1. p'.quota[i] # "consumed" /\ \A j \in Ids \ {i} : p'.quota[j] = p.quota[j]
      BY <1>0, <2>3
    <3>2. \A t \in Todos : p.done[t] # i
      BY <1>1, <2>3
    <3> QED BY <1>1, <1>2, <2>3, <3>1, <3>2
  <2>4. ASSUME NEW i \in Ids, IsBound(p, i), MayComplete(p, i), p'.binding = p.binding,
               p'.quota = [p.quota EXCEPT ![i] = "consumed"],
               p'.done = [p.done EXCEPT ![p.binding[i].todo] = i]
        PROVE  ~Torn(p'.binding, p'.quota, p'.evidence, p'.done)
    <3> DEFINE todo == p.binding[i].todo
    <3>0. todo \in Todos /\ p.evidence[i] = "validated" /\ p.quota[i] = "reserved" /\ p.done[todo] = Nobody
      BY <1>0, <2>4 DEF MayComplete
    <3>1. /\ p'.quota[i] = "consumed" /\ \A j \in Ids \ {i} : p'.quota[j] = p.quota[j]
          /\ p'.done[todo] = i /\ \A t \in Todos \ {todo} : p'.done[t] = p.done[t]
      BY <1>0, <2>4, <3>0
    <3>2. ASSUME NEW j \in Ids, p'.quota[j] = "consumed"
          PROVE  p'.evidence[j] = "validated" /\ p'.done[p'.binding[j].todo] = j
      <4>1. CASE j = i
        BY <1>2, <2>4, <3>0, <3>1, <4>1
      <4>2. CASE j # i
        <5>1. p.quota[j] = "consumed"
          BY <3>1, <3>2, <4>2
        <5>2. /\ p.evidence[j] = "validated" /\ p.done[p.binding[j].todo] = j
              /\ p.binding[j].todo \in Todos
          BY <1>0, <1>1, <5>1
        <5>3. p.binding[j].todo # todo
          BY <1>0, <3>0, <5>2
        <5> QED BY <1>2, <2>4, <3>1, <5>2, <5>3
      <4> QED BY <4>1, <4>2
    <3>3. ASSUME NEW t \in Todos, NEW j \in Ids, p'.done[t] = j
          PROVE  p'.quota[j] = "consumed" /\ p'.binding[j].todo = t
      <4>1. CASE t = todo
        BY <2>4, <3>1, <3>3, <4>1
      <4>2. CASE t # todo
        <5>1. p.done[t] = j
          BY <3>1, <3>3, <4>2
        <5>2. p.quota[j] = "consumed" /\ p.binding[j].todo = t
          BY <1>1, <5>1
        <5> QED BY <2>4, <3>0, <3>1, <5>2
      <4> QED BY <4>1, <4>2
    <3> QED BY <3>2, <3>3
  <2>5. \/ p'.binding = p.binding /\ p'.quota = p.quota /\ p'.done = p.done
        \/ \E i \in Ids :
             \/ /\ ~IsBound(p, i) /\ p'.quota = p.quota /\ p'.done = p.done
                /\ \E b : p'.binding = [p.binding EXCEPT ![i] = b]
             \/ /\ p.quota[i] # "consumed" /\ p'.binding = p.binding /\ p'.done = p.done
                /\ \E s \in {"reserved", "released"} : p'.quota = [p.quota EXCEPT ![i] = s]
             \/ /\ IsBound(p, i) /\ MayComplete(p, i) /\ p'.binding = p.binding
                /\ p'.quota = [p.quota EXCEPT ![i] = "consumed"]
                /\ p'.done = [p.done EXCEPT ![p.binding[i].todo] = i]
    BY <1>0, Zenon DEF Effect, Kept
  <2> HIDE DEF Torn
  <2> QED BY <2>1, <2>2, <2>3, <2>4, <2>5
<1> QED BY <1>3

\* Every step preserves that what was delivered was earned.
LEMMA StepEarned == ASSUME IInv, NInv, Earned, [Next]_vars PROVE Earned'
BY StepEvidence, StepDelivery DEF Earned

\* Each request has its turn key to itself. (The web client makes up a key per request.)
KeysAreOwn == \A i, j \in Requests : KeyOf[i] = KeyOf[j] => i = j

\* With keys of their own, no request finds its key spent.
LEMMA OwnKeySpent ==
  ASSUME KeysAreOwn, NEW i \in Ids, p.quota[i] # "consumed"
  PROVE  TurnKey(i) \notin SpentKeys(p)
<1>1. \A j, k \in Ids : TurnKey(j) = TurnKey(k) => j = k
  BY ConstantsAssumption DEF KeysAreOwn, TurnKey, Ids
<1> QED BY <1>1 DEF SpentKeys

\* With keys of their own, every step leaves the goal's log replayable.
LEMMA StepReplays == ASSUME KeysAreOwn, IInv, NInv, p.replays, [Next]_vars PROVE p'.replays
<1>0. Effect
  BY StepMutates, Effects DEF NInv, Announced
<1>1. ASSUME NEW i \in Ids, MayComplete(p, i),
             p'.replays = (TurnKey(i) \notin SpentKeys(p) /\ p.done[p.binding[i].todo] = Nobody)
      PROVE  p'.replays
  BY <1>1, OwnKeySpent DEF MayComplete
<1>2. \/ p'.replays = p.replays
      \/ \E i \in Ids :
           /\ MayComplete(p, i)
           /\ p'.replays = (TurnKey(i) \notin SpentKeys(p) /\ p.done[p.binding[i].todo] = Nobody)
  BY <1>0, Zenon DEF Effect, Kept
<1> QED BY <1>1, <1>2

-----------------------------------------------------------------------------
(* The theorems *)

\* The invariant holds in every state.
THEOREM Inductive == Spec => []IInv
BY InitInv, StepInv, PTL DEF Spec

\* No run exists, in memory or in its log, without its admission, its binding and its
\* reservation in the goal's log.
THEOREM GoverningFirst == Spec => []GoalLogFirst
<1>1. IInv => GoalLogFirst
  BY DEF IInv
<1> QED BY Inductive, <1>1, PTL

\* A run that has been retried holds no reservation.
THEOREM RetryFrees == Spec => []RetriedHoldsNothing
<1>1. IInv => RetriedHoldsNothing
  BY DEF IInv, InOrder, GivenBack, RetriedHoldsNothing, Bound
<1> QED BY Inductive, <1>1, PTL

\* What was released stays released, what was consumed stays consumed: no undo of a failed
\* start, retry or second terminal event settles a reservation again.
THEOREM OneSettlement == Spec => SettledOnce
<1> DEFINE Once == \A i \in Ids : p.quota[i] \in {"released", "consumed"} => p'.quota[i] = p.quota[i]
<1>1. IInv /\ [Next]_vars => [Once]_vars
  BY StepInv DEF Adds
<1> QED BY Inductive, <1>1, PTL DEF Spec, SettledOnce

\* What is known of the runs holds in every state: what has been announced has ended, a run
\* that waits for its recall has one caller, and what is bound is bound to a todo.
THEOREM RunsKnown == Spec => [](IInv /\ NInv)
BY InitInv, InitRuns, StepInv, StepRuns, PTL DEF Spec

\* The locks hold in every state: a run's lock is held by the retry that gave its run up, by
\* a writeback or by the one reconciliation, and by nobody else.
THEOREM LocksHeld == Spec => []Locks
<1>1. Init => Locks
  BY ConstantsAssumption, CallersAssumption
     DEF Init, Locks, Held, Sweeps, Idle, NoReconciliation
<1>2. IInv /\ Locks /\ [Next]_vars => Locks'
  BY StepLocks
<1> QED BY Inductive, <1>1, <1>2, PTL DEF Spec

\* No run exists, in memory or in its log, without its admission, its binding and a reservation
\* in the goal's log; runs, announcements, locks and the reconciliation are as they may be.
THEOREM BindingFirst == Spec => []BoundBeforeRun
<1>1. IInv /\ NInv /\ Locks => BoundBeforeRun
  BY DEF IInv, Types, Caller, NInv, Announced, Ended, RunStates, Locks, Held, Sweeps, BoundBeforeRun, TypeOK
<1> QED BY RunsKnown, LocksHeld, <1>1, PTL

\* What was delivered was earned, whatever the turn keys: a reservation is consumed exactly
\* with the completion of its todo, by a run that completed and was validated.
THEOREM NeverTorn == Spec => []Earned
<1>1. Init => Earned
  BY ConstantsAssumption DEF Init, Empty, Earned
<1>2. IInv /\ NInv /\ Earned /\ [Next]_vars => Earned'
  BY StepEarned
<1> QED BY RunsKnown, <1>1, <1>2, PTL DEF Spec

\* With a turn key of its own for each request, moreover, the goal's log can always be
\* replayed. (Without, it cannot: two requests with one key may both be consumed.)
THEOREM Delivery == Spec => [](KeysAreOwn => DeliveryIsEarned)
<1> DEFINE Replays == KeysAreOwn => p.replays
<1>1. Init => Replays
  BY DEF Init, Empty
<1>2. IInv /\ NInv /\ Replays /\ [Next]_vars => Replays'
  BY StepReplays DEF KeysAreOwn
<1>3. NInv /\ Earned /\ Replays => (KeysAreOwn => DeliveryIsEarned)
  BY DEF NInv, Named, Earned, DeliveryIsEarned, Bound
<1> HIDE DEF Replays
<1> QED BY RunsKnown, NeverTorn, <1>1, <1>2, <1>3, PTL DEF Spec
=============================================================================
