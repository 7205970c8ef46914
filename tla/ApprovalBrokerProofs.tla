------------------------ MODULE ApprovalBrokerProofs ------------------------
(***************************************************************************)
(* The approval broker settles each wait once, for every set of calls and  *)
(* any limits.                                                             *)
(*                                                                         *)
(* That the map and the promises agree needs the broker's use of ids and   *)
(* of runs: a run has one entry at most, and none once it is aborted       *)
(* (OnePerRun).  OneWinner is then a fact about single steps.              *)
(***************************************************************************)
EXTENDS ApprovalBroker, TLAPS, FiniteSetTheorems, SequenceTheorems

Entry == [id : Ids, run : Runs, state : Verdicts]

\* onAbort() finds one entry at most, and cancels it.
OnePerRun ==
    /\ \A c, d \in pending : RunOf[c] = RunOf[d] => c = d
    /\ \A c \in pending : RunOf[c] \notin aborted

IInv == EntriesMatchPromises /\ IsFiniteSet(pending) /\ OnePerRun /\ LateAnswersAreTrue

-----------------------------------------------------------------------------

\* remember() keeps the history within its limit, and adds the request alone.
LEMMA RememberAdds ==
    ASSUME NEW h \in Seq(Entry), Len(h) <= MaxHistory, NEW c \in Calls, NEW v \in Verdicts
    PROVE  /\ Remember(h, c, v) \in Seq(Entry)
           /\ Len(Remember(h, c, v)) <= MaxHistory
           /\ \A n \in 1 .. Len(Remember(h, c, v)) :
                 \/ Remember(h, c, v)[n] = [id |-> IdOf[c], run |-> RunOf[c], state |-> v]
                 \/ \E m \in 1 .. Len(h) : Remember(h, c, v)[n] = h[m]
<1> DEFINE e == [id |-> IdOf[c], run |-> RunOf[c], state |-> v]
           t == IF Len(h) >= MaxHistory THEN Tail(h) ELSE h
<1>1. e \in Entry
  BY DEF Entry, Ids, Runs
<1>2. t \in Seq(Entry) /\ Len(t) < MaxHistory
  BY BrokerAssumption
<1>3. \A n \in 1 .. Len(t) : \E m \in 1 .. Len(h) : t[n] = h[m]
  BY BrokerAssumption
<1> HIDE DEF e, t
<1>4. /\ Append(t, e) \in Seq(Entry) /\ Len(Append(t, e)) = Len(t) + 1
      /\ \A n \in 1 .. Len(t) + 1 : Append(t, e)[n] = IF n = Len(t) + 1 THEN e ELSE t[n]
  BY <1>1, <1>2
<1>5. Remember(h, c, v) = Append(t, e)
  BY DEF Remember, e, t
<1> QED BY <1>2, <1>3, <1>4, <1>5, BrokerAssumption DEF e

\* What the history remembers is settled.
LEMMA HistoryStates ==
    ASSUME IInv
    PROVE  \A m \in 1 .. Len(history) : history[m].state \in Verdicts
<1>1. history \in Seq(Entry)
  BY DEF IInv, EntriesMatchPromises, TypeOK, Entry
<1>2. \A m \in 1 .. Len(history) : history[m] \in Entry
  BY <1>1, ElementOfSeq
<1> QED BY <1>2 DEF Entry

\* A request that is settled, or refused, leaves everything in order.
LEMMA Settling ==
    ASSUME IInv, NEW c \in Calls, NEW v \in Verdicts,
           promise[c] \in {"idle", "waiting"},
           \A d \in pending \ {c} : IdOf[d] # IdOf[c],
           pending' = pending \ {c}, history' = Remember(history, c, v),
           promise' = [promise EXCEPT ![c] = v],
           due' \subseteq Calls, aborted' \subseteq Runs,
           \A d \in pending \ {c} : RunOf[d] \notin aborted',
           reply'.result = "expired" => reply'.id = IdOf[c] /\ v = "expired"
    PROVE  IInv'
<1> USE DEF IInv, EntriesMatchPromises
<1>1. /\ pending' \subseteq Calls /\ IsFiniteSet(pending')
      /\ Cardinality(pending') <= MaxPending
  <2>1. Cardinality(pending) \in Nat
    BY FS_CardinalityType
  <2>2. /\ Cardinality(pending \ {c}) \in {Cardinality(pending), Cardinality(pending) - 1}
        /\ IsFiniteSet(pending \ {c})
    BY FS_RemoveElement
  <2> QED BY <2>1, <2>2, BrokerAssumption DEF TypeOK
<1>2. \A d \in Calls : promise'[d] = IF d = c THEN v ELSE promise[d]
  BY DEF TypeOK
<1>3. /\ history' \in Seq(Entry) /\ Len(history') <= MaxHistory
      /\ \A n \in 1 .. Len(history') :
            \/ history'[n] = [id |-> IdOf[c], run |-> RunOf[c], state |-> v]
            \/ \E m \in 1 .. Len(history) : history'[n] = history[m]
  <2>1. history \in Seq(Entry) /\ Len(history) <= MaxHistory
    BY DEF TypeOK, Entry
  <2> DEFINE h == Remember(history, c, v)
  <2>2. /\ h \in Seq(Entry) /\ Len(h) <= MaxHistory
        /\ \A n \in 1 .. Len(h) :
              \/ h[n] = [id |-> IdOf[c], run |-> RunOf[c], state |-> v]
              \/ \E m \in 1 .. Len(history) : h[n] = history[m]
    BY <2>1, RememberAdds, Zenon
  <2> QED BY <2>2
<1>4. TypeOK'
  BY <1>1, <1>3 DEF TypeOK, Entry
<1>5. EntriesMatchPromises'
  <2>1. pending' = {d \in Calls : promise'[d] = "waiting"}
    BY <1>2 DEF TypeOK, Verdicts, Decisions
  <2>2. \A d \in pending' : ~InHistory(IdOf[d])'
    BY <1>3 DEF InHistory
  <2> QED BY <1>4, <2>1, <2>2
<1>6. OnePerRun'
  BY DEF OnePerRun
<1>7. LateAnswersAreTrue'
  <2>1. \A n \in 1 .. Len(history') :
          \E d \in Calls : /\ IdOf[d] = history'[n].id /\ RunOf[d] = history'[n].run
                           /\ promise'[d] = history'[n].state
    <3>1. promise[c] \notin Verdicts
      BY DEF Verdicts, Decisions
    <3>2. \A m \in 1 .. Len(history) :
            \E d \in Calls : /\ IdOf[d] = history[m].id /\ RunOf[d] = history[m].run
                             /\ promise'[d] = history[m].state
      BY <1>2, <3>1, HistoryStates DEF LateAnswersAreTrue
    <3> QED BY <1>2, <1>3, <3>2
  <2> QED BY <1>2, <2>1 DEF LateAnswersAreTrue, TypeOK
<1> QED BY <1>1, <1>5, <1>6, <1>7

\* The initial states satisfy the invariant.
LEMMA InitInv == Init => IInv
BY FS_EmptySet, BrokerAssumption
   DEF Init, IInv, EntriesMatchPromises, TypeOK, OnePerRun, LateAnswersAreTrue, InHistory, NoReply

-----------------------------------------------------------------------------
\* Every step preserves the invariant.
LEMMA StepInv == IInv /\ [Next]_vars => IInv'
<1> SUFFICES ASSUME IInv, [Next]_vars PROVE IInv'
  OBVIOUS
<1>0. /\ TypeOK /\ pending = {c \in Calls : promise[c] = "waiting"}
      /\ pending \subseteq Calls /\ OnePerRun
      /\ Decisions \subseteq Verdicts /\ {"expired", "cancelled"} \subseteq Verdicts
  BY DEF IInv, EntriesMatchPromises, TypeOK, Verdicts
<1>1. ASSUME NEW c \in pending, NEW v \in Verdicts, Settle(c, v), due' = due,
             \A d \in pending \ {c} : RunOf[d] \notin aborted', aborted' \subseteq Runs,
             reply'.result = "expired" => reply'.id = IdOf[c] /\ v = "expired"
      PROVE  IInv'
  BY <1>0, <1>1, Settling DEF IInv, EntriesMatchPromises, Settle, TypeOK
<1>2. ASSUME NEW c \in Calls, Wait(c) PROVE IInv'
  <2>1. promise[c] = "idle" /\ c \notin pending /\ UNCHANGED <<due, aborted>> /\ reply' = NoReply
    BY <1>0, <1>2 DEF Wait
  <2>2. CASE /\ promise' = [promise EXCEPT ![c] = "capacity"]
             /\ UNCHANGED <<pending, history>>
    <3>1. \A d \in Calls : promise'[d] = IF d = c THEN "capacity" ELSE promise[d]
      BY <1>0, <2>2 DEF TypeOK
    <3>2. EntriesMatchPromises'
      BY <1>0, <2>1, <2>2, <3>1 DEF IInv, EntriesMatchPromises, TypeOK, InHistory
    <3>3. LateAnswersAreTrue'
      BY <2>1, <2>2, <3>1, HistoryStates DEF IInv, LateAnswersAreTrue, NoReply, Verdicts, Decisions
    <3> QED BY <1>0, <2>1, <2>2, <3>2, <3>3 DEF IInv, OnePerRun
  <2>3. ASSUME NEW v \in {"expired", "cancelled"}, Refuse(c, v),
               \A d \in pending : IdOf[d] # IdOf[c]
        PROVE  IInv'
    BY <1>0, <2>1, <2>3, Settling DEF Refuse, TypeOK, OnePerRun, NoReply
  <2>4. ASSUME Cardinality(pending) < MaxPending, RunOf[c] \notin aborted,
               \A d \in pending : IdOf[d] # IdOf[c] /\ RunOf[d] # RunOf[c],
               ~InHistory(IdOf[c]), pending' = pending \cup {c},
               promise' = [promise EXCEPT ![c] = "waiting"], history' = history
        PROVE  IInv'
    <3>1. /\ IsFiniteSet(pending') /\ Cardinality(pending) \in Nat
          /\ Cardinality(pending') = Cardinality(pending) + 1
      BY <2>1, <2>4, FS_AddElement, FS_CardinalityType DEF IInv
    <3>2. TypeOK'
      BY <1>0, <2>1, <2>4, <3>1, BrokerAssumption DEF TypeOK
    <3>3. EntriesMatchPromises'
      BY <1>0, <2>1, <2>4, <3>2 DEF IInv, EntriesMatchPromises, TypeOK, InHistory
    <3>4. OnePerRun'
      BY <2>1, <2>4, <1>0 DEF OnePerRun
    <3>5. \A d \in Calls : promise'[d] = IF d = c THEN "waiting" ELSE promise[d]
      BY <1>0, <2>4 DEF TypeOK
    <3>6. LateAnswersAreTrue'
      BY <2>1, <2>4, <3>5, HistoryStates DEF IInv, LateAnswersAreTrue, NoReply, Verdicts, Decisions
    <3> QED BY <3>1, <3>3, <3>4, <3>6 DEF IInv
  <2>5. Cardinality(pending) \in Nat
    BY FS_CardinalityType DEF IInv
  <2> QED BY <1>2, <2>2, <2>3, <2>4, <2>5, BrokerAssumption DEF Wait
<1>3. ASSUME NEW c \in Calls, Due(c) PROVE IInv'
  BY <1>3 DEF IInv, EntriesMatchPromises, Due, TypeOK, OnePerRun, LateAnswersAreTrue, InHistory, NoReply
<1>4. ASSUME NEW c \in Calls, Expire(c) PROVE IInv'
  <2>1. /\ c \in pending /\ Settle(c, "expired") /\ due' = due /\ aborted' = aborted
        /\ reply' = NoReply
    BY <1>4 DEF Expire
  <2> QED BY <1>0, <2>1, <1>1 DEF TypeOK, OnePerRun, NoReply
<1>5. ASSUME NEW r \in Runs, Abort(r) PROVE IInv'
  <2>1. due' = due /\ aborted' = aborted \cup {r} /\ reply' = NoReply
    BY <1>5 DEF Abort
  <2>2. ASSUME NEW c \in pending, RunOf[c] = r, Settle(c, "cancelled") PROVE IInv'
    BY <1>0, <2>1, <2>2, <1>1 DEF TypeOK, OnePerRun, NoReply
  <2>3. ASSUME ~\E c \in pending : RunOf[c] = r, UNCHANGED <<pending, history, promise>> PROVE IInv'
    BY <2>1, <2>3 DEF IInv, EntriesMatchPromises, TypeOK, OnePerRun, LateAnswersAreTrue, InHistory, NoReply
  <2> QED BY <1>5, <2>2, <2>3 DEF Abort
<1>6. ASSUME NEW i \in Ids, NEW d \in Decisions, NEW r, DecideInTime(i, d, r) PROVE IInv'
  <2>1. PICK c \in pending : /\ Settle(c, d) /\ UNCHANGED <<due, aborted>>
                             /\ reply' = [id |-> i, result |-> "accepted"]
    BY <1>6 DEF DecideInTime
  <2> QED BY <1>0, <2>1, <1>1 DEF TypeOK, OnePerRun
<1>7. ASSUME NEW i \in Ids, NEW r, DecideLate(i, r) PROVE IInv'
  <2>1. PICK c \in pending : /\ IdOf[c] = i /\ Settle(c, "expired") /\ UNCHANGED <<due, aborted>>
                             /\ reply' = [id |-> i, result |-> "expired"]
    BY <1>7 DEF DecideLate
  <2> QED BY <1>0, <2>1, <1>1 DEF TypeOK, OnePerRun
<1>8. ASSUME NEW i \in Ids, NEW r, DecideSettled(i, r) PROVE IInv'
  <2>1. UNCHANGED <<pending, history, promise, due, aborted>> /\ reply'.id = i
    BY <1>8 DEF DecideSettled
  <2>2. reply'.result = "expired" =>
          \E n \in 1 .. Len(history) : history[n].id = i /\ history[n].state = "expired"
    BY <1>8 DEF DecideSettled
  <2>3. LateAnswersAreTrue'
    BY <2>1, <2>2 DEF IInv, LateAnswersAreTrue
  <2> QED BY <2>1, <2>3 DEF IInv, EntriesMatchPromises, TypeOK, OnePerRun, InHistory
<1>9. CASE UNCHANGED vars
  BY <1>9 DEF IInv, EntriesMatchPromises, vars, TypeOK, OnePerRun, LateAnswersAreTrue, InHistory
<1> QED BY <1>2, <1>3, <1>4, <1>5, <1>6, <1>7, <1>8, <1>9 DEF Next, Decide

-----------------------------------------------------------------------------
\* The invariant, in every state.
THEOREM Inductive == Spec => []IInv
BY InitInv, StepInv, PTL DEF Spec

\* The map holds exactly the requests that wait, one per id: InMemoryApprovalBroker
\* for any calls, ids and limits.
THEOREM MapIsTrue == Spec => []EntriesMatchPromises
<1>1. IInv => EntriesMatchPromises
  BY DEF IInv
<1> QED BY <1>1, Inductive, PTL

\* Whoever asks late is told what the request came to: decide() and its history.
THEOREM HistoryIsTrue == Spec => []LateAnswersAreTrue
<1>1. IInv => LateAnswersAreTrue
  BY DEF IInv
<1> QED BY <1>1, Inductive, PTL

\* Decision, timer and abort: one of them wins, and decide() says which.
THEOREM WinnerTakesAll == Spec => OneWinner
<1>1. ASSUME IInv, [Next]_vars PROVE [WinsOnce]_vars
  <2> SUFFICES ASSUME Next PROVE WinsOnce
    BY <1>1
  <2>0. /\ promise \in [Calls -> Verdicts \cup {"idle", "waiting", "capacity"}]
        /\ pending = {c \in Calls : promise[c] = "waiting"} /\ OnePerRun
    BY <1>1 DEF IInv, EntriesMatchPromises, TypeOK
  <2>1. ASSUME NEW c \in Calls, promise[c] \in {"idle", "waiting"},
               NEW v \in {"expired", "cancelled", "capacity", "waiting"},
               promise' = [promise EXCEPT ![c] = v],
               reply' = NoReply \/ reply'.result # "accepted"
        PROVE  WinsOnce
    BY <2>0, <2>1 DEF WinsOnce, Verdicts, Decisions
  <2>2. ASSUME UNCHANGED promise, reply' = NoReply \/ reply'.result # "accepted"
        PROVE  WinsOnce
    BY <2>2 DEF WinsOnce, Decisions
  <2>3. ASSUME NEW c \in Calls, Wait(c) PROVE WinsOnce
    BY <2>1, <2>3 DEF Wait, Refuse
  <2>4. ASSUME NEW c \in Calls, Due(c) PROVE WinsOnce
    BY <2>2, <2>4 DEF Due
  <2>5. ASSUME NEW c \in Calls, Expire(c) PROVE WinsOnce
    BY <2>0, <2>1, <2>5 DEF Expire, Settle
  <2>6. ASSUME NEW r \in Runs, Abort(r) PROVE WinsOnce
    BY <2>0, <2>1, <2>2, <2>6 DEF Abort, Settle
  <2>7. ASSUME NEW i \in Ids, NEW d \in Decisions, NEW r, DecideInTime(i, d, r) PROVE WinsOnce
    <3>1. PICK c \in pending : /\ IdOf[c] = i /\ c \notin due /\ Settle(c, d)
                               /\ reply' = [id |-> i, result |-> "accepted"]
      BY <2>7 DEF DecideInTime
    <3>2. promise' = [promise EXCEPT ![c] = d] /\ promise[c] = "waiting" /\ c \in Calls
      BY <2>0, <3>1 DEF Settle
    <3>3. reply' # NoReply
      BY <3>1 DEF NoReply
    <3> QED BY <2>0, <3>1, <3>2, <3>3 DEF WinsOnce, OnePerRun, Verdicts, Decisions
  <2>8. ASSUME NEW i \in Ids, NEW r, DecideLate(i, r) PROVE WinsOnce
    <3>1. PICK c \in pending : /\ Settle(c, "expired")
                               /\ reply' = [id |-> i, result |-> "expired"]
      BY <2>8 DEF DecideLate
    <3> QED BY <2>0, <2>1, <3>1 DEF Settle
  <2>9. ASSUME NEW i \in Ids, NEW r, DecideSettled(i, r) PROVE WinsOnce
    BY <2>2, <2>9 DEF DecideSettled
  <2> QED BY <2>3, <2>4, <2>5, <2>6, <2>7, <2>8, <2>9 DEF Next, Decide
<1>2. Spec => [][WinsOnce]_vars
  BY <1>1, Inductive, PTL DEF Spec
<1> QED BY <1>2 DEF OneWinner
=============================================================================
