------------------------ MODULE ApprovalReviewProofs ------------------------
(***************************************************************************)
(* The approval review, for any calls, keys, postures and limits: the      *)
(* broker keeps its authority, the provider is asked once for a key, the   *)
(* trail of each review is sound, the waiters of each are counted, and an  *)
(* allow of the reviewer's reaches only a request it is meant for.         *)
(*                                                                         *)
(* Three invariants, one on the other: what the broker's map says of runs  *)
(* that are over (Waiting), which RunManager's order of calls ensures,     *)
(* with what each key's maps name (Named) and what each phase has emitted  *)
(* (Trail); then the broker's own invariant, which holds here because each *)
(* step of the review is one of the broker's (BrokerSteps); then the       *)
(* shares in each review (Shares).                                         *)
(***************************************************************************)
EXTENDS ApprovalReview, TLAPS, SequenceTheorems, FiniteSetTheorems

BP == INSTANCE ApprovalBrokerProofs

Types ==
    /\ pending \subseteq Calls
    /\ promise \in [Calls -> Broker!Verdicts \cup {"idle", "waiting", "capacity"}]
    /\ phase \in [Calls -> Phases]
    /\ DOMAIN answer = Calls /\ DOMAIN verdicts = Calls
    /\ \A v \in Calls : phase[v] \notin {"none", "asked"} => answer[v] \in Answers
    /\ cancelled \subseteq Calls /\ revoked \subseteq Calls
    /\ inFlight \in [Keys -> Calls \cup {None}]
    /\ cache \in [Keys -> Calls \cup {None}]
    /\ handle \in [Calls -> Calls \cup {None}]

\* What is in the broker's map waits, and its run goes on.
Waiting == \A c \in pending : promise[c] = "waiting" /\ RunOf[c] \notin disposed

\* A call that has not asked for consent has begun no review.
Idle == \A c \in Calls : promise[c] = "idle" => phase[c] = "none"

\* The maps, and the calls, name reviews of their own key.
Named ==
    /\ \A k \in Keys : inFlight[k] # None => KeyOf[inFlight[k]] = k
    /\ \A k \in Keys : cache[k] # None => KeyOf[cache[k]] = k
    /\ \A c \in Calls : handle[c] # None => KeyOf[handle[c]] = KeyOf[c]

\* A review under way is in the map, unless it was cancelled.
UnderWay ==
    \A v \in Calls :
        phase[v] \in {"asked", "answered"} /\ v \notin cancelled => inFlight[KeyOf[v]] = v

\* The whole trail of a review, from its phase and its revocation.
Trail ==
    \A v \in Calls :
        IF phase[v] \in {"recorded", "settled"}
        THEN \/ verdicts[v] = <<answer[v]>> /\ v \notin revoked
             \/ verdicts[v] \in {<<"revoked">>, <<answer[v], "revoked">>} /\ v \in revoked
        ELSE verdicts[v] = IF v \in revoked THEN <<"revoked">> ELSE <<>>

IInv == Types /\ Waiting /\ Idle /\ Named /\ UnderWay /\ Trail

\* What AllowIsWarranted says of a step.
Warranted ==
    \A c \in Calls :
        done' # done /\ promise'[c] # promise[c] =>
           /\ promise[c] = "waiting" /\ promise'[c] \in {"allow", "expired"}
           /\ RunOf[c] \notin aborted \cup disposed
           /\ PostureOf[RunOf[c]] = "auto"
           /\ \E v \in Calls : /\ KeyOf[v] = KeyOf[c] /\ KeyOf[v] \in LowRisk
                               /\ answer[v] = "allow" /\ v \notin due

-----------------------------------------------------------------------------
(* The broker's part *)

\* What the broker's step may do to the promises and the map.
BrokerKeeps ==
    /\ pending' \subseteq Calls
    /\ promise' \in [Calls -> Broker!Verdicts \cup {"idle", "waiting", "capacity"}]
    /\ \A c \in pending' : promise'[c] = "waiting"
    /\ \A c \in Calls : promise'[c] = "idle" => promise[c] = "idle"

\* A settled request leaves the map, the others stay as they are.
LEMMA Settling ==
    ASSUME Types, Waiting, NEW c \in pending, NEW v \in Broker!Verdicts, Broker!Settle(c, v)
    PROVE  BrokerKeeps /\ pending' \subseteq pending
BY DEF Types, Waiting, Broker!Settle, BrokerKeeps, Broker!Verdicts, Broker!Decisions

\* Each decision settles requests of the map alone.
LEMMA Deciding ==
    ASSUME Types, Waiting, NEW i, NEW d \in Broker!Decisions, NEW r, Broker!Decide(i, d, r)
    PROVE  BrokerKeeps /\ pending' \subseteq pending
<1>1. CASE Broker!DecideInTime(i, d, r)
  BY <1>1, Settling DEF Broker!DecideInTime, Broker!Verdicts
<1>2. CASE Broker!DecideLate(i, r)
  BY <1>2, Settling DEF Broker!DecideLate, Broker!Verdicts
<1>3. CASE Broker!DecideSettled(i, r)
  BY <1>3 DEF Broker!DecideSettled, BrokerKeeps, Types, Waiting
<1> QED BY <1>1, <1>2, <1>3 DEF Broker!Decide

\* A step that changes of the review's state at most waiters and cancellations.
LEMMA Aside ==
    ASSUME IInv, BrokerKeeps, \A c \in pending' : RunOf[c] \notin disposed,
           cancelled \subseteq cancelled', cancelled' \subseteq Calls,
           UNCHANGED <<phase, answer, verdicts, revoked, inFlight, cache, handle, disposed>>
    PROVE  IInv'
<1>1. Types'
  BY DEF IInv, Types, BrokerKeeps
<1>2. Waiting' /\ Idle'
  BY DEF BrokerKeeps, Waiting, IInv, Idle
<1>3. Named' /\ Trail'
  BY DEF IInv, Named, Trail
<1>4. UnderWay'
  BY DEF IInv, UnderWay
<1> QED BY <1>1, <1>2, <1>3, <1>4 DEF IInv

-----------------------------------------------------------------------------
(* The invariant *)

\* A revocation that follows an answer.
LEMMA Both == ASSUME NEW a \in Answers PROVE Append(<<a>>, "revoked") = <<a, "revoked">>
<1> DEFINE s == Append(<<a>>, "revoked")
           t == <<a, "revoked">>
<1>1. s \in Seq(Answers \cup {"revoked"}) /\ Len(s) = 2 /\ s[1] = a /\ s[2] = "revoked"
  OBVIOUS
<1>2. t \in Seq(Answers \cup {"revoked"}) /\ Len(t) = 2 /\ t[1] = a /\ t[2] = "revoked"
  OBVIOUS
<1> HIDE DEF s, t
<1>3. \A n \in 1 .. 2 : s[n] = t[n]
  BY <1>1, <1>2
<1>4. s = t
  BY <1>1, <1>2, <1>3, SeqEqual
<1> QED BY <1>4 DEF s, t

\* The initial states satisfy the invariant.
LEMMA InitInv == Init => IInv
<1> SUFFICES ASSUME Init PROVE IInv
  OBVIOUS
<1>1. Types
  BY DEF Init, Types, Broker!Init, Phases
<1>2. Waiting /\ Named /\ Idle
  BY DEF Init, Broker!Init, Waiting, Named, Idle
<1>3. UnderWay /\ Trail
  BY DEF Init, UnderWay, Trail
<1> QED BY <1>1, <1>2, <1>3 DEF IInv

\* A new wait joins the review in flight, takes a cached answer, or begins a review
\* where none is under way.
LEMMA Reviewing ==
    ASSUME IInv, NEW c \in Calls, promise[c] = "idle", promise'[c] # "idle", BrokerKeeps,
           \A d \in pending' : RunOf[d] \notin disposed, ReviewOnce(c)
    PROVE  IInv'
<1> DEFINE k == KeyOf[c]
           hit == cache[k] # None /\ Fresh(cache[k])
<1>0. k \in Keys
  BY DEF Keys
<1>1. /\ cache' \in [Keys -> Calls \cup {None}]
      /\ \A j \in Keys : cache'[j] # None => KeyOf[cache'[j]] = j
  BY <1>0 DEF ReviewOnce, IInv, Types, Named
<1>2. CASE hit
  <2>1. /\ handle' = [handle EXCEPT ![c] = cache[k]]
        /\ UNCHANGED <<phase, answer, verdicts, cancelled, revoked, inFlight, disposed>>
    BY <1>2 DEF ReviewOnce
  <2> QED BY <2>1, <1>0, <1>1, <1>2 DEF IInv, Idle, Types, Named, UnderWay, Trail, Waiting, BrokerKeeps
<1>3. CASE ~hit /\ inFlight[k] # None
  <2>1. /\ handle' = [handle EXCEPT ![c] = inFlight[k]]
        /\ UNCHANGED <<phase, answer, verdicts, cancelled, revoked, inFlight, disposed>>
    BY <1>3 DEF ReviewOnce, Join
  <2> QED BY <2>1, <1>0, <1>1, <1>3 DEF IInv, Idle, Types, Named, UnderWay, Trail, Waiting, BrokerKeeps
<1>4. CASE ~hit /\ inFlight[k] = None
  <2>1. /\ handle' = [handle EXCEPT ![c] = c]
        /\ phase' = [phase EXCEPT ![c] = "asked"]
        /\ inFlight' = [inFlight EXCEPT ![k] = c]
        /\ UNCHANGED <<answer, verdicts, cancelled, revoked, disposed>>
    BY <1>4 DEF ReviewOnce, Begin
  <2>2. Types' /\ Waiting' /\ Idle'
    BY <2>1, <1>0, <1>1 DEF IInv, Types, Waiting, Idle, BrokerKeeps, Phases
  <2>3. Named'
    BY <2>1, <1>0, <1>1 DEF IInv, Types, Named
  <2>4. UnderWay'
    BY <2>1, <1>0, <1>4, ReviewAssumption DEF IInv, Types, UnderWay, Keys
  <2>5. Trail'
    BY <2>1 DEF IInv, Types, Trail, Idle
  <2> QED BY <2>2, <2>3, <2>4, <2>5 DEF IInv
<1> QED BY <1>2, <1>3, <1>4

\* Every step preserves the invariant.
LEMMA StepInv == IInv /\ [Next]_vars => IInv'
<1> SUFFICES ASSUME IInv, [Next]_vars PROVE IInv'
  OBVIOUS
<1>w. ASSUME NEW c \in Calls, Wait(c) PROVE IInv'
  <2>1. Broker!Wait(c) /\ RunOf[c] \notin disposed
    BY <1>w DEF Wait
  <2>2. BrokerKeeps /\ (\A d \in pending' : RunOf[d] \notin disposed) /\ promise[c] = "idle" /\ promise'[c] # "idle"
    BY <2>1 DEF IInv, Types, Waiting, BrokerKeeps, Broker!Wait, Broker!Refuse, Broker!Verdicts, Broker!Decisions
  <2>3. CASE PostureOf[RunOf[c]] = "off"
    BY <1>w, <2>2, <2>3, Aside DEF Wait, review, maps, sides, IInv, Types
  <2> QED BY <1>w, <2>2, <2>3, Reviewing DEF Wait
<1>a. ASSUME NEW r \in Runs, Abort(r) PROVE IInv'
  <2>1. BrokerKeeps /\ pending' \subseteq pending
    <3>1. ASSUME NEW c \in pending, Broker!Settle(c, "cancelled")
          PROVE  BrokerKeeps /\ pending' \subseteq pending
      BY <3>1, Settling DEF IInv, Broker!Verdicts
    <3>2. ASSUME UNCHANGED <<pending, promise>> PROVE BrokerKeeps /\ pending' \subseteq pending
      BY <3>2 DEF BrokerKeeps, IInv, Types, Waiting
    <3> QED BY <1>a, <3>1, <3>2 DEF Abort, Broker!Abort
  <2> QED BY <1>a, <2>1, Aside DEF Abort, Release, maps, IInv, Types, Waiting
<1>b. ASSUME UNCHANGED broker PROVE BrokerKeeps
  BY <1>b DEF broker, BrokerKeeps, IInv, Types, Waiting
<1>v. ASSUME NEW v \in Calls, Review(v) PROVE IInv'
  <2>1. PICK a \in Answers : answer' = [answer EXCEPT ![v] = a]
    BY <1>v DEF Review
  <2>2. /\ phase[v] = "asked" /\ phase' = [phase EXCEPT ![v] = "answered"]
        /\ UNCHANGED <<broker, verdicts, cancelled, revoked, inFlight, cache, handle, disposed>>
    BY <1>v DEF Review, maps, sides
  <2>3. Types' /\ Waiting' /\ Idle' /\ Named'
    BY <1>b, <2>1, <2>2 DEF IInv, Types, Waiting, Idle, Named, Phases, BrokerKeeps, broker
  <2>4. UnderWay' /\ Trail'
    BY <2>1, <2>2 DEF IInv, Types, UnderWay, Trail
  <2> QED BY <2>3, <2>4 DEF IInv
<1>r. ASSUME NEW v \in Calls, Record(v) PROVE IInv'
  <2>1. /\ phase[v] = "answered" /\ phase' = [phase EXCEPT ![v] = "recorded"]
        /\ verdicts' = IF v \in revoked THEN verdicts
                       ELSE [verdicts EXCEPT ![v] = Append(@, answer[v])]
        /\ UNCHANGED <<broker, answer, cancelled, revoked, inFlight, handle, disposed>>
    BY <1>r DEF Record, Emitted, sides
  <2>2. cache' \in [Keys -> Calls \cup {None}]
    BY <1>r DEF Record, IInv, Types, Keys
  <2>3. \A k \in Keys : cache'[k] # None => KeyOf[cache'[k]] = k
    BY <1>r DEF Record, IInv, Types, Keys, Named
  <2>4. Types' /\ Waiting' /\ Idle' /\ Named'
    BY <1>b, <2>1, <2>2, <2>3 DEF IInv, Types, Waiting, Idle, Named, Phases, BrokerKeeps, broker
  <2>5. UnderWay'
    BY <2>1 DEF IInv, Types, UnderWay
  <2>6. verdicts[v] = IF v \in revoked THEN <<"revoked">> ELSE <<>>
    BY <2>1 DEF IInv, Trail
  <2>7. Trail'
    BY <2>1, <2>6 DEF IInv, Types, Trail
  <2> QED BY <2>4, <2>5, <2>7 DEF IInv
<1>l. ASSUME NEW v \in Calls, Leave(v) PROVE IInv'
  <2>1. /\ phase[v] = "recorded" /\ phase' = [phase EXCEPT ![v] = "settled"]
        /\ inFlight' = [inFlight EXCEPT ![KeyOf[v]] = IF @ = v THEN None ELSE @]
        /\ UNCHANGED <<broker, answer, verdicts, cancelled, revoked, cache, handle, disposed>>
    BY <1>l DEF Leave, sides
  <2>2. Types' /\ Waiting' /\ Idle' /\ Named'
    BY <1>b, <2>1 DEF IInv, Types, Waiting, Idle, Named, Phases, BrokerKeeps, broker
  <2>3. UnderWay'
    BY <2>1, ReviewAssumption DEF IInv, Types, UnderWay, Keys
  <2>4. Trail'
    BY <2>1 DEF IInv, Types, Trail
  <2> QED BY <2>2, <2>3, <2>4 DEF IInv
<1>p. ASSUME NEW v \in Calls, Lapse(v) PROVE IInv'
  BY <1>p, <1>b, Aside DEF Lapse, review, sides, IInv, Waiting, broker, Types
<1>f. ASSUME NEW c \in Calls, Finish(c) PROVE IInv'
  <2>1. BrokerKeeps /\ pending' \subseteq pending
    <3>1. CASE UNCHANGED broker
      BY <1>b, <3>1 DEF broker
    <3>2. CASE Resolve(c)
      BY <3>2, Deciding DEF Resolve, IInv, Broker!Decisions
    <3> QED BY <1>f, <3>1, <3>2 DEF Finish
  <2> QED BY <1>f, <2>1, Aside DEF Finish, Release, maps, IInv, Types, Waiting
<1>d. ASSUME NEW r \in Runs, Dispose(r) PROVE IInv'
  <2> DEFINE mine == {v \in Calls : RunOf[v] = r /\ inFlight[KeyOf[v]] = v}
  <2>1. /\ \A c \in pending : RunOf[c] # r
        /\ disposed' = disposed \cup {r}
        /\ cache' = [k \in Keys |-> IF cache[k] # None /\ RunOf[cache[k]] = r THEN None ELSE cache[k]]
        /\ verdicts' = [v \in Calls |-> IF v \in mine \ revoked THEN Append(verdicts[v], "revoked")
                                        ELSE verdicts[v]]
        /\ revoked' = revoked \cup mine
        /\ cancelled' = cancelled \cup mine
        /\ inFlight' = [k \in Keys |-> IF inFlight[k] \in mine THEN None ELSE inFlight[k]]
        /\ UNCHANGED <<broker, phase, answer, handle>>
    BY <1>d, Zenon DEF Dispose
  <2>2. mine \subseteq Calls
    OBVIOUS
  <2> HIDE DEF mine
  <2>3. Types' /\ Waiting' /\ Idle' /\ Named'
    BY <1>b, <2>1, <2>2 DEF IInv, Types, Waiting, Idle, Named, BrokerKeeps, broker
  <2>4. UnderWay'
    BY <2>1 DEF IInv, Types, UnderWay, Keys
  <2>5. Trail'
    <3> SUFFICES ASSUME NEW v \in Calls
                 PROVE  IF phase'[v] \in {"recorded", "settled"}
                        THEN \/ verdicts'[v] = <<answer'[v]>> /\ v \notin revoked'
                             \/ /\ verdicts'[v] \in {<<"revoked">>, <<answer'[v], "revoked">>}
                                /\ v \in revoked'
                        ELSE verdicts'[v] = IF v \in revoked' THEN <<"revoked">> ELSE <<>>
      BY DEF Trail
    <3>1. CASE v \in mine \ revoked
      <4>1. verdicts'[v] = Append(verdicts[v], "revoked") /\ v \in revoked' /\ v \notin revoked
        BY <2>1, <3>1
      <4>2. verdicts[v] = IF phase[v] \in {"recorded", "settled"} THEN <<answer[v]>> ELSE <<>>
        BY <4>1 DEF IInv, Trail
      <4>3. phase'[v] = phase[v] /\ answer'[v] = answer[v]
        BY <2>1
      <4>4. CASE phase[v] \in {"recorded", "settled"}
        <5>1. verdicts'[v] = <<answer[v], "revoked">>
          <6>1. verdicts[v] = <<answer[v]>> /\ answer[v] \in Answers
            BY <4>2, <4>4 DEF IInv, Types
          <6> QED BY <4>1, <6>1, Both
        <5> QED BY <4>1, <4>3, <4>4, <5>1
      <4>5. CASE phase[v] \notin {"recorded", "settled"}
        <5>1. verdicts'[v] = <<"revoked">>
          BY <4>1, <4>2, <4>5
        <5> QED BY <4>1, <4>3, <4>5, <5>1
      <4> QED BY <4>4, <4>5
    <3>2. CASE v \notin mine \ revoked
      <4>1. verdicts'[v] = verdicts[v] /\ (v \in revoked' <=> v \in revoked)
        BY <2>1, <3>2
      <4>2. phase'[v] = phase[v] /\ answer'[v] = answer[v]
        BY <2>1
      <4> QED BY <4>1, <4>2 DEF IInv, Trail
    <3> QED BY <3>1, <3>2
  <2> QED BY <2>3, <2>4, <2>5 DEF IInv
<1>u. ASSUME NEW c \in Calls, Due(c) PROVE IInv'
  <2>1. UNCHANGED <<pending, promise>>
    BY <1>u DEF Due, Broker!Due
  <2>2. BrokerKeeps
    BY <2>1 DEF BrokerKeeps, IInv, Types, Waiting
  <2> QED BY <1>u, <2>1, <2>2, Aside DEF Due, review, maps, sides, IInv, Waiting, Types
<1>e. ASSUME NEW c \in Calls, Expire(c) PROVE IInv'
  <2>1. BrokerKeeps /\ pending' \subseteq pending
    BY <1>e, Settling DEF Expire, Broker!Expire, IInv, Broker!Verdicts
  <2> QED BY <1>e, <2>1, Aside DEF Expire, review, maps, sides, IInv, Waiting, Types
<1>c. ASSUME NEW c \in Calls, NEW d \in Broker!Decisions, Decide(c, d) PROVE IInv'
  <2>1. BrokerKeeps /\ pending' \subseteq pending
    BY <1>c, Deciding DEF Decide, IInv
  <2> QED BY <1>c, <2>1, Aside DEF Decide, review, maps, sides, IInv, Waiting, Types
<1>s. ASSUME UNCHANGED vars PROVE IInv'
  BY <1>s, <1>b, Aside DEF vars, review, maps, sides, IInv, Waiting, broker, Types
<1> QED BY <1>w, <1>a, <1>v, <1>r, <1>l, <1>p, <1>f, <1>d, <1>u, <1>e, <1>c, <1>s DEF Next

-----------------------------------------------------------------------------
(* The theorems *)

\* The invariant holds in every state.
THEOREM Inductive == Spec => []IInv
BY InitInv, StepInv, PTL DEF Spec

\* Of two reviews of one key under way at least one is cancelled, and a review that is over
\* has a verdict, an answer that a revocation may follow or a revocation: reviewOnce() and
\* disposeRun().
THEOREM TrailAndKey == Spec => [](AskedOnce /\ TrailIsSound)
<1>1. IInv => AskedOnce
  <2> SUFFICES ASSUME IInv, NEW u \in Calls, NEW v \in Calls, u # v, KeyOf[u] = KeyOf[v],
                      {phase[u], phase[v]} \subseteq {"asked", "answered"}
               PROVE  u \in cancelled \/ v \in cancelled
    BY DEF AskedOnce
  <2> QED BY DEF IInv, UnderWay
<1>2. IInv => TrailIsSound
  <2> SUFFICES ASSUME IInv, NEW v \in Calls
               PROVE  /\ phase[v] = "settled" => verdicts[v] # <<>>
                      /\ \A m, n \in 1 .. Len(verdicts[v]) :
                            m < n => verdicts[v][m] # "revoked" /\ verdicts[v][n] = "revoked"
    BY DEF TrailIsSound
  <2>1. phase[v] \in {"recorded", "settled"} => answer[v] # "revoked"
    BY DEF IInv, Types, Answers
  <2>2. \/ verdicts[v] = <<>> /\ phase[v] # "settled"
        \/ verdicts[v] = <<"revoked">>
        \/ verdicts[v] = <<answer[v]>>
        \/ verdicts[v] = <<answer[v], "revoked">> /\ answer[v] # "revoked"
    BY <2>1 DEF IInv, Trail
  <2>3. CASE verdicts[v] = <<>> /\ phase[v] # "settled"
    BY <2>3
  <2>4. CASE verdicts[v] = <<"revoked">>
    BY <2>4
  <2>5. CASE verdicts[v] = <<answer[v]>>
    BY <2>5
  <2>6. CASE verdicts[v] = <<answer[v], "revoked">> /\ answer[v] # "revoked"
    <3>1. /\ Len(verdicts[v]) = 2 /\ verdicts[v] # <<>>
          /\ verdicts[v][1] # "revoked" /\ verdicts[v][2] = "revoked"
      BY <2>6
    <3>2. \A m, n \in 1 .. 2 : m < n => m = 1 /\ n = 2
      OBVIOUS
    <3> QED BY <3>1, <3>2
  <2> QED BY <2>2, <2>3, <2>4, <2>5, <2>6
<1> QED BY Inductive, <1>1, <1>2, PTL

\* The reviewer's allow reaches only a waiting request of a live run that opted in, of
\* the reviewed key, and in time.
THEOREM Warrant == Spec => AllowIsWarranted
<1>1. IInv /\ [Next]_vars => [Warranted]_vars
  <2> SUFFICES ASSUME IInv, Next PROVE Warranted
    BY DEF vars
  <2>1. CASE UNCHANGED done
    BY <2>1 DEF Warranted
  <2>2. ASSUME NEW c \in Calls, Finish(c) PROVE Warranted
    <3> SUFFICES ASSUME NEW x \in Calls, promise'[x] # promise[x]
                 PROVE  /\ promise[x] = "waiting" /\ promise'[x] \in {"allow", "expired"}
                        /\ RunOf[x] \notin aborted \cup disposed
                        /\ PostureOf[RunOf[x]] = "auto"
                        /\ \E v \in Calls : /\ KeyOf[v] = KeyOf[x] /\ KeyOf[v] \in LowRisk
                                            /\ answer[v] = "allow" /\ v \notin due
      BY DEF Warranted
    <3>1. /\ Resolve(c) /\ RunOf[c] \notin aborted /\ ShouldAutoResolve(c, handle[c])
          /\ handle[c] # None
      BY <2>2 DEF Finish, broker
    <3>2. handle[c] \in Calls /\ KeyOf[handle[c]] = KeyOf[c]
      BY <3>1 DEF IInv, Types, Named
    <3>3. PICK d \in pending : /\ IdOf[d] = IdOf[c]
                               /\ Broker!Settle(d, "allow") \/ Broker!Settle(d, "expired")
      BY <3>1 DEF Resolve, Broker!Decide, Broker!DecideInTime, Broker!DecideLate, Broker!DecideSettled
    <3>4. d = c /\ d = x /\ promise'[x] \in {"allow", "expired"}
      BY <3>3, ReviewAssumption DEF IInv, Types, Broker!Settle
    <3> QED BY <3>1, <3>2, <3>3, <3>4 DEF IInv, Waiting, ShouldAutoResolve, Eligible
  <2> QED BY <2>1, <2>2 DEF Next, Wait, ReviewOnce, Join, Begin, Abort, Review, Record, Leave,
             Lapse, Dispose, Due, Expire, Decide, sides
<1> QED BY Inductive, <1>1, PTL DEF Spec, AllowIsWarranted, Warranted

\* A step of the review is a step of the broker, or none of it.
LEMMA BrokerSteps == [Next]_vars => [Broker!Next]_broker
<1> SUFFICES ASSUME Next PROVE Broker!Next \/ UNCHANGED broker
  BY DEF vars
<1> QED BY DEF Next, Wait, Broker!Next, Abort, Finish, Resolve, Review, Record, Leave, Lapse, Dispose,
           Due, Expire, Decide, Runs, Broker!Runs, Broker!Ids, Broker!Decisions

\* With the reviewer at its side, the broker takes no step it could not take alone.
THEOREM Authority == Spec => KeepsAuthority
<1>1. Init => Broker!Init
  BY DEF Init
<1> QED BY <1>1, BrokerSteps, PTL DEF Spec, KeepsAuthority

-----------------------------------------------------------------------------
(* The broker's own invariant, with the reviewer at its side *)

\* The assumption of the broker's proofs.
LEMMA BrokerFits == BP!BrokerAssumption
BY ReviewAssumption DEF BP!BrokerAssumption

\* The broker of the model is the broker of ApprovalBrokerProofs.
LEMMA SameBroker ==
    /\ Broker!Init => BP!Init
    /\ [Broker!Next]_broker => [BP!Next]_(BP!vars)
    /\ BP!TypeOK => Broker!TypeOK
    /\ BP!EntriesMatchPromises => Broker!EntriesMatchPromises
<1>1. Broker!Init => BP!Init
  BY DEF Broker!Init, BP!Init, Broker!NoReply, BP!NoReply
<1>2. \A i : Broker!InHistory(i) <=> BP!InHistory(i)
  BY DEF Broker!InHistory, BP!InHistory
<1>3. ASSUME NEW X PROVE Broker!Cardinality(X) = BP!Cardinality(X)
  BY DEF Broker!Cardinality, BP!Cardinality, Broker!IsFiniteSet, BP!IsFiniteSet
<1>4. Broker!Cardinality(pending) = BP!Cardinality(pending)
  BY <1>3
<1>5. \A c, v : Broker!Settle(c, v) <=> BP!Settle(c, v)
  BY DEF Broker!Settle, BP!Settle, Broker!Remember, BP!Remember
<1>6. \A c, v : Broker!Refuse(c, v) <=> BP!Refuse(c, v)
  BY DEF Broker!Refuse, BP!Refuse, Broker!Remember, BP!Remember
<1>7. \A c : Broker!Wait(c) => BP!Wait(c)
  BY <1>2, <1>4, <1>6 DEF Broker!Wait, BP!Wait, Broker!NoReply, BP!NoReply
<1>8. \A c : /\ Broker!Due(c) => BP!Due(c)
             /\ Broker!Expire(c) => BP!Expire(c)
             /\ Broker!Abort(c) => BP!Abort(c)
  BY <1>5 DEF Broker!Due, BP!Due, Broker!Expire, BP!Expire, Broker!Abort, BP!Abort,
              Broker!NoReply, BP!NoReply
<1>9. ASSUME NEW i, NEW d, NEW r, Broker!Decide(i, d, r) PROVE BP!Decide(i, d, r)
  <2>1. Broker!DecideInTime(i, d, r) => BP!DecideInTime(i, d, r)
    BY <1>5 DEF Broker!DecideInTime, BP!DecideInTime, Broker!Matches, BP!Matches
  <2>2. Broker!DecideLate(i, r) => BP!DecideLate(i, r)
    BY <1>5 DEF Broker!DecideLate, BP!DecideLate, Broker!Matches, BP!Matches
  <2>3. Broker!DecideSettled(i, r) => BP!DecideSettled(i, r)
    BY DEF Broker!DecideSettled, BP!DecideSettled, Broker!Matches, BP!Matches
  <2> QED BY <1>9, <2>1, <2>2, <2>3 DEF Broker!Decide, BP!Decide
<1>10. Broker!Next => BP!Next
  BY <1>7, <1>8, <1>9, Zenon DEF Broker!Next, BP!Next, Broker!Runs, BP!Runs, Broker!Ids, BP!Ids,
     Broker!Decisions, BP!Decisions
<1>11. BP!TypeOK => Broker!TypeOK
  BY <1>4 DEF BP!TypeOK, Broker!TypeOK, Broker!Ids, BP!Ids, Broker!Runs, BP!Runs, Broker!Verdicts,
     BP!Verdicts, Broker!Decisions, BP!Decisions
<1>12. BP!EntriesMatchPromises => Broker!EntriesMatchPromises
  BY <1>2, <1>11 DEF BP!EntriesMatchPromises, Broker!EntriesMatchPromises
<1> QED BY <1>1, <1>10, <1>11, <1>12 DEF broker, BP!vars

\* What ApprovalBrokerProofs shows of the broker alone holds of it here: its map holds
\* exactly the requests that wait, within its limits.
THEOREM BrokerStaysTrue == Spec => []Broker!EntriesMatchPromises
<1>1. Init => BP!IInv
  BY SameBroker, BP!InitInv, BrokerFits DEF Init
<1>2. BP!IInv /\ [Next]_vars => BP!IInv'
  BY SameBroker, BrokerSteps, BP!StepInv, BrokerFits
<1>3. BP!IInv => Broker!EntriesMatchPromises
  BY SameBroker DEF BP!IInv
<1> QED BY <1>1, <1>2, <1>3, PTL DEF Spec

-----------------------------------------------------------------------------
(* Who shares a review *)

Sharers(v) == {c \in counted : handle[c] = v}

Rest ==
    /\ answer \in [Calls -> Answers \cup {None}]
    /\ verdicts = [v \in Calls |-> verdicts[v]]
    /\ lapsed \subseteq Calls /\ counted \subseteq Calls /\ done \subseteq Calls
    /\ disposed \subseteq Runs
    /\ waiters \in [Calls -> Nat]

\* Only calls that asked for consent wait, and only for reviews that were begun.
Begun ==
    /\ \A c \in Calls : promise[c] = "idle" => handle[c] = None /\ c \notin counted
    /\ \A c \in Calls : handle[c] # None => phase[handle[c]] # "none"
    /\ \A k \in Keys : inFlight[k] # None => phase[inFlight[k]] # "none"
    /\ \A k \in Keys : cache[k] # None => phase[cache[k]] # "none"

\* entry.waiters counts the calls that have not released the review.
Shares == \A v \in Calls : waiters[v] = Cardinality(Sharers(v))

WInv == Rest /\ Begun /\ Shares

\* The calls that share a review are finitely many.
LEMMA FewShare ==
    ASSUME Rest, NEW v
    PROVE  /\ IsFiniteSet(Sharers(v)) /\ Sharers(v) \subseteq Calls
           /\ Cardinality(Sharers(v)) \in 0 .. Cardinality(Calls)
<1>1. Sharers(v) \subseteq Calls /\ IsFiniteSet(Calls)
  BY ReviewAssumption DEF Sharers, Rest
<1>2. IsFiniteSet(Sharers(v)) /\ Cardinality(Sharers(v)) <= Cardinality(Calls)
  BY <1>1, FS_Subset
<1> QED BY <1>1, <1>2, FS_CardinalityType

\* The calls that leave take their share with them.
LEMMA Leaving ==
    ASSUME Rest, Shares, NEW cs, Release(cs), handle' = handle
    PROVE  waiters' \in [Calls -> Nat] /\ counted' \subseteq Calls /\ Shares'
<1> DEFINE out(v) == {c \in cs \cap counted : handle[c] = v}
<1>1. /\ waiters' = [v \in Calls |-> waiters[v] - Cardinality(out(v))]
      /\ counted' = counted \ cs
  BY DEF Release
<1>2. ASSUME NEW v \in Calls
      PROVE  waiters'[v] \in Nat /\ waiters'[v] = Cardinality(Sharers(v)')
  <2>1. Sharers(v)' = Sharers(v) \ out(v) /\ out(v) \subseteq Sharers(v)
    BY <1>1 DEF Sharers
  <2>2. IsFiniteSet(Sharers(v))
    BY FewShare
  <2> HIDE DEF out
  <2>3. Sharers(v) \cap out(v) = out(v)
    BY <2>1
  <2>4. Cardinality(Sharers(v) \ out(v)) = Cardinality(Sharers(v)) - Cardinality(out(v))
    BY <2>2, <2>3, FS_Difference
  <2>5. IsFiniteSet(Sharers(v) \ out(v))
    BY <2>2, FS_Subset
  <2>6. Cardinality(Sharers(v) \ out(v)) \in Nat
    BY <2>5, FS_CardinalityType
  <2>7. waiters'[v] = waiters[v] - Cardinality(out(v))
    BY <1>1
  <2> QED BY <2>1, <2>4, <2>6, <2>7 DEF Shares
<1> HIDE DEF out
<1>3. waiters' \in [Calls -> Nat]
  BY <1>1, <1>2
<1>4. counted' \subseteq Calls
  BY <1>1 DEF Rest
<1> QED BY <1>2, <1>3, <1>4 DEF Shares

\* Nobody waits for a review at first.
LEMMA InitShares == Init => WInv
<1> SUFFICES ASSUME Init PROVE WInv
  OBVIOUS
<1>1. Rest /\ Begun
  BY DEF Init, Rest, Begun
<1>2. \A v \in Calls : Sharers(v) = {}
  BY DEF Init, Sharers
<1>3. Shares
  BY <1>2, FS_EmptySet DEF Shares, Init
<1> QED BY <1>1, <1>3 DEF WInv

\* A step in which nobody comes or leaves, and no review is forgotten.
LEMMA NobodyMoves ==
    ASSUME WInv, IInv, IInv',
           UNCHANGED <<waiters, handle, counted>>,
           \A c \in Calls : promise'[c] = "idle" => promise[c] = "idle",
           \A v \in Calls : phase[v] # "none" => phase'[v] # "none",
           \A k \in Keys : inFlight'[k] \in {inFlight[k], None},
           \A k \in Keys : cache'[k] # None => phase'[cache'[k]] # "none",
           answer' \in [Calls -> Answers \cup {None}],
           verdicts' = [v \in Calls |-> verdicts'[v]],
           lapsed' \subseteq Calls, done' \subseteq Calls, disposed' \subseteq Runs
    PROVE  WInv'
<1>1. Rest'
  <2>1. answer' \in [Calls -> Answers \cup {None}] /\ counted' \subseteq Calls
        /\ waiters' \in [Calls -> Nat]
    BY DEF WInv, Rest
  <2> QED BY <2>1, Zenon DEF Rest
<1>2. Begun'
  BY DEF WInv, Begun, IInv, Types
<1>3. Shares'
  BY DEF WInv, Shares, Sharers
<1> QED BY <1>1, <1>2, <1>3 DEF WInv

\* Calls come and go: only the waiters, the shares and what happened beside them change.
LEMMA SomeLeave ==
    ASSUME WInv, IInv, IInv', NEW cs, Release(cs),
           \A c \in Calls : promise'[c] = "idle" => promise[c] = "idle",
           UNCHANGED <<phase, answer, verdicts, handle, inFlight, cache, lapsed, disposed>>,
           done' \subseteq Calls
    PROVE  WInv'
<1>1. waiters' \in [Calls -> Nat] /\ counted' \subseteq Calls /\ Shares'
  BY Leaving DEF WInv
<1>2. Rest'
  BY <1>1 DEF WInv, Rest
<1>3. counted' \subseteq counted
  BY DEF Release
<1>4. Begun'
  BY <1>3 DEF WInv, Begun, IInv, Types
<1> QED BY <1>1, <1>2, <1>4 DEF WInv

\* A new share is counted.
LEMMA Sharing ==
    ASSUME WInv, NEW c \in Calls, c \notin counted, NEW v \in Calls,
           counted' = counted \cup {c}, handle' = [handle EXCEPT ![c] = v],
           handle \in [Calls -> Calls \cup {None}],
           waiters' = [waiters EXCEPT ![v] = @ + 1]
    PROVE  Shares' /\ waiters' \in [Calls -> Nat]
<1>1. waiters \in [Calls -> Nat] /\ counted \subseteq Calls
  BY DEF WInv, Rest
<1>2. ASSUME NEW u \in Calls PROVE waiters'[u] = Cardinality(Sharers(u)')
  <2>1. IsFiniteSet(Sharers(u)) /\ waiters[u] = Cardinality(Sharers(u)) /\ c \notin Sharers(u)
    BY FewShare DEF WInv, Shares, Sharers
  <2>2. CASE u = v
    <3>1. Sharers(u)' = Sharers(u) \cup {c}
      BY <1>1, <2>2 DEF Sharers
    <3>2. Cardinality(Sharers(u) \cup {c}) = Cardinality(Sharers(u)) + 1
      BY <2>1, FS_AddElement
    <3> QED BY <1>1, <2>1, <2>2, <3>1, <3>2
  <2>3. CASE u # v
    <3>1. Sharers(u)' = Sharers(u)
      BY <1>1, <2>3 DEF Sharers
    <3> QED BY <1>1, <2>1, <2>3, <3>1
  <2> QED BY <2>2, <2>3
<1> QED BY <1>1, <1>2 DEF Shares

\* A call waits for the review it finds, or begins.
LEMMA Coming ==
    ASSUME WInv, IInv, IInv', NEW c \in Calls, ReviewOnce(c),
           promise[c] = "idle", promise'[c] # "idle",
           \A d \in Calls : promise'[d] = "idle" => promise[d] = "idle"
    PROVE  WInv'
<1> DEFINE k == KeyOf[c]
           hit == cache[k] # None /\ Fresh(cache[k])
<1>0. /\ k \in Keys /\ c \notin counted /\ handle[c] = None /\ phase[c] = "none"
      /\ UNCHANGED <<answer, verdicts, lapsed, done, disposed>>
      /\ \A j \in Keys : cache'[j] \in {cache[j], None}
  BY DEF Keys, WInv, Begun, IInv, Idle, Types, ReviewOnce
<1>1. CASE hit
  <2>1. /\ handle' = [handle EXCEPT ![c] = cache[k]]
        /\ UNCHANGED <<phase, waiters, inFlight, counted, cache>>
    BY <1>1 DEF ReviewOnce
  <2>2. Rest'
    BY <1>0, <2>1 DEF WInv, Rest
  <2>3. Begun'
    <3>1. cache[k] \in Calls /\ phase[cache[k]] # "none"
      BY <1>0, <1>1 DEF IInv, Types, WInv, Begun
    <3>2. \A d \in Calls : handle'[d] = IF d = c THEN cache[k] ELSE handle[d]
      BY <2>1 DEF IInv, Types
    <3> QED BY <1>0, <2>1, <3>1, <3>2 DEF WInv, Begun
  <2>4. Shares'
    <3>1. \A u \in Calls : Sharers(u)' = Sharers(u)
      BY <1>0, <2>1 DEF Sharers, IInv, Types
    <3> QED BY <2>1, <3>1 DEF WInv, Shares
  <2> QED BY <2>2, <2>3, <2>4 DEF WInv
<1>2. CASE ~hit /\ inFlight[k] # None
  <2> DEFINE v == inFlight[k]
  <2>1. /\ handle' = [handle EXCEPT ![c] = v] /\ waiters' = [waiters EXCEPT ![v] = @ + 1]
        /\ counted' = counted \cup {c} /\ UNCHANGED <<phase, inFlight>>
    BY <1>2 DEF ReviewOnce, Join
  <2>2. v \in Calls /\ phase[v] # "none"
    BY <1>0, <1>2 DEF IInv, Types, WInv, Begun
  <2>3. handle \in [Calls -> Calls \cup {None}]
    BY DEF IInv, Types
  <2> HIDE DEF v
  <2>4. Shares' /\ waiters' \in [Calls -> Nat]
    BY <1>0, <2>1, <2>2, <2>3, Sharing
  <2>5. Rest'
    BY <1>0, <2>1, <2>4 DEF WInv, Rest
  <2>6. Begun'
    <3>1. \A d \in Calls : handle'[d] = IF d = c THEN v ELSE handle[d]
      BY <2>1, <2>3
    <3> QED BY <1>0, <2>1, <2>2, <3>1 DEF WInv, Begun
  <2> QED BY <2>4, <2>5, <2>6 DEF WInv
<1>3. CASE ~hit /\ inFlight[k] = None
  <2>1. /\ handle' = [handle EXCEPT ![c] = c] /\ waiters' = [waiters EXCEPT ![c] = 1]
        /\ counted' = counted \cup {c} /\ phase' = [phase EXCEPT ![c] = "asked"]
        /\ inFlight' = [inFlight EXCEPT ![k] = c]
    BY <1>3 DEF ReviewOnce, Begin
  <2>2. Sharers(c) = {}
    BY <1>0, ReviewAssumption DEF Sharers, WInv, Begun, Rest
  <2>3. waiters \in [Calls -> Nat] /\ waiters[c] = 0
    BY <2>2, FS_EmptySet DEF WInv, Shares, Rest
  <2>4. waiters' = [waiters EXCEPT ![c] = @ + 1]
    BY <2>1, <2>3
  <2>5. handle \in [Calls -> Calls \cup {None}]
    BY DEF IInv, Types
  <2>6. Shares' /\ waiters' \in [Calls -> Nat]
    BY <1>0, <2>1, <2>4, <2>5, Sharing
  <2>7. Rest'
    BY <1>0, <2>1, <2>6 DEF WInv, Rest
  <2>8. Begun'
    <3>1. \A d \in Calls : handle'[d] = IF d = c THEN c ELSE handle[d]
      BY <2>1, <2>5
    <3>2. \A d \in Calls : phase'[d] = IF d = c THEN "asked" ELSE phase[d]
      BY <2>1 DEF IInv, Types
    <3>3. \A j \in Keys : inFlight'[j] = IF j = k THEN c ELSE inFlight[j]
      BY <2>1 DEF IInv, Types
    <3> QED BY <1>0, <2>1, <3>1, <3>2, <3>3 DEF WInv, Begun, IInv, Types
  <2> QED BY <2>6, <2>7, <2>8 DEF WInv
<1> QED BY <1>1, <1>2, <1>3

\* Every step keeps the count.
LEMMA StepShares == ASSUME IInv, IInv', WInv, [Next]_vars PROVE WInv'
<1>b. ASSUME UNCHANGED promise PROVE \A c \in Calls : promise'[c] = "idle" => promise[c] = "idle"
  BY <1>b
<1>p. ASSUME NEW c \in Calls, NEW v \in Broker!Verdicts, Broker!Settle(c, v)
      PROVE  \A d \in Calls : promise'[d] = "idle" => promise[d] = "idle"
  BY <1>p DEF Broker!Settle, Broker!Verdicts, Broker!Decisions, IInv, Types
<1>d. ASSUME NEW i, NEW d \in Broker!Decisions, NEW r, Broker!Decide(i, d, r)
      PROVE  \A c \in Calls : promise'[c] = "idle" => promise[c] = "idle"
  BY <1>d, Deciding DEF BrokerKeeps, IInv
<1>1. ASSUME NEW c \in Calls, Wait(c) PROVE WInv'
  <2>1. /\ promise[c] = "idle" /\ promise'[c] # "idle"
        /\ \A d \in Calls : promise'[d] = "idle" => promise[d] = "idle"
    BY <1>1 DEF Wait, IInv, Types, Broker!Wait, Broker!Refuse
  <2>2. CASE PostureOf[RunOf[c]] = "off"
    BY <1>1, <2>1, <2>2, NobodyMoves DEF Wait, review, maps, sides, WInv, Rest, Begun
  <2> QED BY <1>1, <2>1, <2>2, Coming DEF Wait
<1>2. ASSUME NEW c \in Calls, Due(c) PROVE WInv'
  BY <1>2, <1>b, NobodyMoves DEF Due, Broker!Due, review, maps, sides, WInv, Rest, Begun
<1>3. ASSUME NEW c \in Calls, Expire(c) PROVE WInv'
  <2>1. \A d \in Calls : promise'[d] = "idle" => promise[d] = "idle"
    BY <1>3, <1>p DEF Expire, Broker!Expire, Broker!Verdicts
  <2> QED BY <1>3, <2>1, NobodyMoves DEF Expire, review, maps, sides, WInv, Rest, Begun
<1>4. ASSUME NEW c \in Calls, NEW d \in Broker!Decisions, Decide(c, d) PROVE WInv'
  <2>1. \A e \in Calls : promise'[e] = "idle" => promise[e] = "idle"
    BY <1>4, <1>d DEF Decide
  <2> QED BY <1>4, <2>1, NobodyMoves DEF Decide, review, maps, sides, WInv, Rest, Begun
<1>5. ASSUME NEW c \in Calls, Finish(c) PROVE WInv'
  <2>1. \A e \in Calls : promise'[e] = "idle" => promise[e] = "idle"
    <3>1. CASE UNCHANGED broker
      BY <1>b, <3>1 DEF broker
    <3>2. CASE Resolve(c)
      BY <1>d, <3>2 DEF Resolve, Broker!Decisions
    <3> QED BY <1>5, <3>1, <3>2 DEF Finish
  <2>2. /\ Release({c}) /\ done' = done \cup {c}
        /\ UNCHANGED <<phase, answer, verdicts, maps, handle, disposed>>
    BY <1>5 DEF Finish
  <2> QED BY <2>1, <2>2, SomeLeave DEF maps, WInv, Rest
<1>6. ASSUME NEW r \in Runs, Abort(r) PROVE WInv'
  <2>1. \A e \in Calls : promise'[e] = "idle" => promise[e] = "idle"
    <3>1. ASSUME NEW c \in pending, Broker!Settle(c, "cancelled")
          PROVE  \A e \in Calls : promise'[e] = "idle" => promise[e] = "idle"
      BY <1>p, <3>1 DEF IInv, Types, Broker!Verdicts
    <3>2. ASSUME UNCHANGED <<pending, promise>>
          PROVE  \A e \in Calls : promise'[e] = "idle" => promise[e] = "idle"
      BY <3>2
    <3> QED BY <1>6, <3>1, <3>2 DEF Abort, Broker!Abort
  <2>2. /\ Release({c \in Calls : RunOf[c] = r})
        /\ UNCHANGED <<phase, answer, verdicts, maps, handle, done, disposed>>
    BY <1>6 DEF Abort
  <2> QED BY <2>1, <2>2, SomeLeave DEF maps, WInv, Rest
<1>7. ASSUME NEW v \in Calls, Review(v) PROVE WInv'
  <2>1. PICK a \in Answers : answer' = [answer EXCEPT ![v] = a]
    BY <1>7 DEF Review
  <2>2. answer' \in [Calls -> Answers \cup {None}]
    BY <2>1 DEF WInv, Rest
  <2>3. \A u \in Calls : phase[u] # "none" => phase'[u] # "none"
    BY <1>7 DEF Review, IInv, Types
  <2>4. UNCHANGED <<promise, verdicts, waiters, handle, counted, inFlight, cache, lapsed, done, disposed>>
    BY <1>7 DEF Review, broker, maps, sides
  <2>5. \A k \in Keys : cache'[k] # None => phase'[cache'[k]] # "none"
    BY <2>3, <2>4 DEF WInv, Begun, IInv, Types
  <2> QED BY <1>b, <2>2, <2>3, <2>4, <2>5, NobodyMoves DEF WInv, Rest
<1>8. ASSUME NEW v \in Calls, Record(v) PROVE WInv'
  <2>1. \A u \in Calls : phase[u] # "none" => phase'[u] # "none"
    BY <1>8 DEF Record, IInv, Types
  <2>2. /\ UNCHANGED <<promise, answer, waiters, handle, counted, inFlight, lapsed, done, disposed>>
        /\ cache' \in {cache, [cache EXCEPT ![KeyOf[v]] = v]}
        /\ phase'[v] # "none"
    BY <1>8 DEF Record, broker, sides, IInv, Types
  <2>3. \A k \in Keys : cache'[k] \in {cache[k], v}
    BY <2>2 DEF IInv, Types
  <2>4. \A k \in Keys : cache'[k] # None => phase'[cache'[k]] # "none"
    BY <2>1, <2>2, <2>3 DEF WInv, Begun, IInv, Types
  <2>5. verdicts' = [u \in Calls |-> verdicts'[u]]
    <3>1. verdicts' = verdicts \/ verdicts' = Emitted(v, answer[v])
      BY <1>8 DEF Record
    <3>2. verdicts = [u \in Calls |-> verdicts[u]]
      BY DEF WInv, Rest
    <3> QED BY <3>1, <3>2, Zenon DEF Emitted
  <2> QED BY <1>b, <2>1, <2>2, <2>4, <2>5, NobodyMoves DEF WInv, Rest
<1>9. ASSUME NEW v \in Calls, Leave(v) PROVE WInv'
  <2>1. \A u \in Calls : phase[u] # "none" => phase'[u] # "none"
    BY <1>9 DEF Leave, IInv, Types
  <2>2. /\ UNCHANGED <<promise, answer, verdicts, waiters, handle, counted, cache, lapsed, done, disposed>>
        /\ \A k \in Keys : inFlight'[k] \in {inFlight[k], None}
    BY <1>9 DEF Leave, broker, sides, IInv, Types
  <2>3. \A k \in Keys : cache'[k] # None => phase'[cache'[k]] # "none"
    BY <2>1, <2>2 DEF WInv, Begun, IInv, Types
  <2> QED BY <1>b, <2>1, <2>2, <2>3, NobodyMoves DEF WInv, Rest
<1>10. ASSUME NEW v \in Calls, Lapse(v) PROVE WInv'
  BY <1>10, <1>b, NobodyMoves DEF Lapse, broker, review, sides, WInv, Rest, Begun
<1>11. ASSUME NEW r \in Runs, Dispose(r) PROVE WInv'
  <2>1. /\ UNCHANGED <<promise, phase, answer, waiters, lapsed, handle, counted, done>>
        /\ disposed' = disposed \cup {r}
    BY <1>11 DEF Dispose, broker
  <2>2. /\ \A k \in Keys : cache'[k] \in {cache[k], None}
        /\ \A k \in Keys : inFlight'[k] \in {inFlight[k], None}
    BY <1>11 DEF Dispose
  <2>3. \A k \in Keys : cache'[k] # None => phase'[cache'[k]] # "none"
    BY <2>1, <2>2 DEF WInv, Begun
  <2>4. verdicts' = [u \in Calls |-> verdicts'[u]]
    BY <1>11, Zenon DEF Dispose
  <2> QED BY <1>b, <2>1, <2>2, <2>3, <2>4, NobodyMoves DEF WInv, Rest
<1>12. ASSUME UNCHANGED vars PROVE WInv'
  BY <1>12, <1>b, NobodyMoves DEF vars, broker, review, maps, sides, WInv, Rest, Begun
<1> QED BY <1>1, <1>2, <1>3, <1>4, <1>5, <1>6, <1>7, <1>8, <1>9, <1>10, <1>11, <1>12 DEF Next

\* entry.waiters is the number of calls that have not released the review: the last of
\* them, and nobody before, aborts it.
THEOREM WaitersCounted == Spec => []WInv
<1>1. IInv /\ WInv /\ [Next]_vars => WInv'
  BY StepInv, StepShares
<1> QED BY <1>1, InitShares, Inductive, PTL DEF Spec

\* Every trail is a sequence of answers and revocations.
LEMMA TrailTyped ==
    ASSUME IInv, WInv PROVE verdicts \in [Calls -> Seq(Answers \cup {"revoked"})]
<1> SUFFICES ASSUME NEW v \in Calls PROVE verdicts[v] \in Seq(Answers \cup {"revoked"})
  BY Zenon DEF WInv, Rest
<1>1. phase[v] \in {"recorded", "settled"} => answer[v] \in Answers
  BY DEF IInv, Types
<1>2. \/ verdicts[v] = <<>>
      \/ verdicts[v] = <<"revoked">>
      \/ verdicts[v] = <<answer[v]>> /\ answer[v] \in Answers
      \/ verdicts[v] = <<answer[v], "revoked">> /\ answer[v] \in Answers
  BY <1>1 DEF IInv, Trail
<1>3. <<>> \in Seq(Answers \cup {"revoked"}) /\ <<"revoked">> \in Seq(Answers \cup {"revoked"})
  OBVIOUS
<1>4. \A a \in Answers : /\ <<a>> \in Seq(Answers \cup {"revoked"})
                        /\ <<a, "revoked">> \in Seq(Answers \cup {"revoked"})
  OBVIOUS
<1> QED BY <1>2, <1>3, <1>4

\* The same with the types and the count of waiters that TypeOK adds: OneVerdict, for any
\* calls, keys and limits.
THEOREM SingleVerdict == Spec => []OneVerdict
<1>1. ASSUME Broker!EntriesMatchPromises, IInv, WInv PROVE TypeOK
  <2>1. Broker!TypeOK
    BY <1>1 DEF Broker!EntriesMatchPromises
  <2>2. waiters \in [Calls -> 0 .. Cardinality(Calls)]
    BY <1>1, FewShare DEF WInv, Shares, Rest
  <2>3. \A v \in Calls : waiters[v] = Cardinality({c \in counted : handle[c] = v})
    BY <1>1 DEF WInv, Shares, Sharers
  <2> QED BY <1>1, <2>1, <2>2, <2>3, TrailTyped DEF TypeOK, IInv, Types, WInv, Rest
<1> QED BY <1>1, BrokerStaysTrue, Inductive, WaitersCounted, TrailAndKey, PTL DEF OneVerdict
=============================================================================
