--------------------------- MODULE SchedulerProofs ---------------------------
(***************************************************************************)
(* Proofs that the scheduler keeps its books, its workspace exclusion and  *)
(* its limits, for every set of requests, every policy and any number of   *)
(* acquire() calls.                                                        *)
(***************************************************************************)
EXTENDS Scheduler, TLAPS, FiniteSetTheorems

\* The leases of S respect the workspaces and the limits.
Fit(S) ==
    /\ \A e, f \in S : e # f => ~WorkspaceConflicts(e.req, f.req)
    /\ Cardinality(S) <= MaxActiveRuns
    /\ \A k \in Kinds : Usage(S, k) <= Capacity[k]

\* A set of entries numbered below n, no two alike, each of which can be granted.
Numbered(S, n) ==
    /\ S \subseteq Entry
    /\ IsFiniteSet(S)
    /\ \A e \in S : e.order < n /\ CanEverGrant(e.req)
    /\ \A e, f \in S : e.order = f.order => e = f

\* pump() grants exactly G out of the queue q next to the leases a.
Grants(q, a, G) == \A e \in q : e \in G <=> CanGrant(e.req, a \cup {g \in G : Before(g, e)})

\* The inductive invariant.
IInv ==
    /\ TypeOK
    /\ Numbered(queue \cup active, order)
    /\ \A l \in granted : l.order < order
    /\ queue \cap granted = {}
    /\ BooksAgree
    /\ Fit(active)
    /\ WorkConserving

-----------------------------------------------------------------------------
(* Finite sums as cardinalities *)

\* The slots of a numbered set are finitely many.
LEMMA SlotsFinite ==
    ASSUME NEW S, NEW n, Numbered(S, n), NEW k \in Kinds
    PROVE  IsFiniteSet(Slots(S, k)) /\ Usage(S, k) \in Nat
<1>1. Slots(S, k) \subseteq S \X (1 .. Capacity[k])
  BY SchedulerAssumption DEF Slots, Numbered, CanEverGrant, Entry
<1>2. IsFiniteSet(S \X (1 .. Capacity[k]))
  <2>1. IsFiniteSet(1 .. Capacity[k])
    BY FS_Interval, SchedulerAssumption
  <2> QED BY <2>1, FS_Product DEF Numbered
<1>3. IsFiniteSet(Slots(S, k))
  BY <1>1, <1>2, FS_Subset
<1> QED BY <1>3, FS_CardinalityType DEF Usage

\* Adding an entry adds what it asks for.
LEMMA UsageAdd ==
    ASSUME NEW S, NEW n, NEW e, Numbered(S \cup {e}, n), e \notin S, NEW k \in Kinds
    PROVE  Usage(S \cup {e}, k) = Usage(S, k) + e.req.need[k]
<1> DEFINE new == {e} \X (1 .. e.req.need[k])
<1>1. e.req.need[k] \in Nat
  BY SchedulerAssumption DEF Numbered, Entry
<1>2. IsFiniteSet(new) /\ Cardinality(new) = e.req.need[k]
  <2>1. IsFiniteSet({e}) /\ Cardinality({e}) = 1
    BY FS_Singleton
  <2>2. IsFiniteSet(1 .. e.req.need[k]) /\ Cardinality(1 .. e.req.need[k]) = e.req.need[k]
    <3>1. ASSUME NEW u \in Nat PROVE IsFiniteSet(1 .. u) /\ Cardinality(1 .. u) = u
      BY FS_Interval
    <3> QED BY <1>1, <3>1
  <2> QED BY <1>1, <2>1, <2>2, FS_Product
<1>3. Numbered(S, n)
  BY FS_Subset DEF Numbered
<1>4. IsFiniteSet(Slots(S, k)) /\ Usage(S, k) \in Nat
  BY <1>3, SlotsFinite
<1>5. Slots(S \cup {e}, k) = Slots(S, k) \cup new
  BY DEF Slots
<1>6. Slots(S, k) \cap new = {}
  BY DEF Slots
<1>7. Cardinality(Slots(S, k) \cap new) = 0
  BY <1>6, FS_EmptySet
<1>8. Cardinality(Slots(S, k) \cup new)
        = Cardinality(Slots(S, k)) + Cardinality(new) - Cardinality(Slots(S, k) \cap new)
  BY <1>2, <1>4, FS_Union
<1>9. Usage(S \cup {e}, k) = Cardinality(Slots(S, k) \cup new)
  BY <1>5 DEF Usage
<1>10. Usage(S, k) = Cardinality(Slots(S, k))
  BY DEF Usage
<1> HIDE DEF new
<1> QED BY <1>1, <1>2, <1>4, <1>7, <1>8, <1>9, <1>10

\* A part of a numbered set uses no more than the whole.
LEMMA UsageMonotone ==
    ASSUME NEW S, NEW n, Numbered(S, n), NEW T, T \subseteq S
    PROVE  /\ Numbered(T, n)
           /\ Cardinality(T) <= Cardinality(S)
           /\ Cardinality(T) \in Nat /\ Cardinality(S) \in Nat
           /\ \A k \in Kinds : /\ Usage(T, k) \in Nat /\ Usage(S, k) \in Nat
                               /\ Usage(T, k) <= Usage(S, k)
<1>1. Numbered(T, n) /\ Cardinality(T) <= Cardinality(S)
  BY FS_Subset DEF Numbered
<1>2. Cardinality(T) \in Nat /\ Cardinality(S) \in Nat
  BY <1>1, FS_CardinalityType DEF Numbered
<1>3. ASSUME NEW k \in Kinds
      PROVE  Usage(T, k) \in Nat /\ Usage(S, k) \in Nat /\ Usage(T, k) <= Usage(S, k)
  <2>1. IsFiniteSet(Slots(S, k)) /\ Usage(T, k) \in Nat /\ Usage(S, k) \in Nat
    BY <1>1, SlotsFinite
  <2>2. Slots(T, k) \subseteq Slots(S, k)
    BY DEF Slots
  <2> QED BY <2>1, <2>2, FS_Subset DEF Usage
<1> QED BY <1>1, <1>2, <1>3

-----------------------------------------------------------------------------
(* What pump() keeps *)

\* A nonempty set of naturals with an upper bound has a greatest element.
LEMMA Greatest ==
    ASSUME NEW S, S \subseteq Nat, S # {}, NEW n \in Nat, \A s \in S : s < n
    PROVE  \E m \in S : \A s \in S : s <= m
<1> DEFINE B == {i \in Nat : \A s \in S : s <= i}
<1>1. n \in B
  OBVIOUS
<1>2. PICK m \in B : \A i \in B : ~(<<i, m>> \in OpToRel(<, Nat))
  BY <1>1, NatLessThanWellFounded, WFMin
<1>3. \A i \in B : ~(i < m)
  BY <1>2 DEF OpToRel
<1>4. m \in S
  <2> SUFFICES ASSUME m \notin S PROVE FALSE
    OBVIOUS
  <2>1. m \in Nat /\ \A s \in S : s <= m /\ s # m /\ s \in Nat
    OBVIOUS
  <2>2. m > 0
    <3>1. PICK s : s \in S
      OBVIOUS
    <3>2. s <= m /\ s # m /\ s \in Nat /\ m \in Nat
      BY <2>1, <3>1
    <3> QED BY <3>2
  <2>3. m - 1 \in B
    BY <2>1, <2>2
  <2> QED BY <1>3, <2>1, <2>3
<1> QED BY <1>4

\* pickCandidateIndex() tries some entry of any nonempty set last.
LEMMA LastTried ==
    ASSUME NEW G, NEW n \in Nat, Numbered(G, n), G # {}
    PROVE  \E m \in G : \A g \in G \ {m} : Before(g, m)
<1> DEFINE late == IF \E g \in G : g.req.priority = "background"
                   THEN {g \in G : g.req.priority = "background"} ELSE G
           numbers == {g.order : g \in late}
<1>1. \A g \in G : /\ g.order \in Nat /\ g.order < n
                   /\ g.req.priority \in {"interactive", "background"}
  BY SchedulerAssumption DEF Numbered, Entry
<1>2. numbers \subseteq Nat /\ numbers # {} /\ \A s \in numbers : s < n
  BY <1>1
<1>3. PICK top \in numbers : \A s \in numbers : s <= top
  BY <1>2, Greatest
<1>4. PICK m \in late : m.order = top
  BY <1>3
<1>5. m \in G
  OBVIOUS
<1>6. ASSUME NEW g \in G \ {m} PROVE Before(g, m)
  <2>1. g.order # m.order
    BY <1>5, <1>6 DEF Numbered
  <2>2. CASE g \in late
    <3>1. g.order <= m.order
      BY <1>3, <1>4, <2>2
    <3>2. g.req.priority = m.req.priority
      BY <1>1, <1>5, <2>2
    <3> QED BY <1>1, <1>5, <2>1, <3>1, <3>2 DEF Before
  <2>3. CASE g \notin late
    BY <1>1, <2>3 DEF Before
  <2> QED BY <2>2, <2>3
<1> QED BY <1>5, <1>6

\* A request that fits next to some leases fits next to fewer.
LEMMA CanGrantFewer ==
    ASSUME NEW S, NEW n, Numbered(S, n), NEW T, T \subseteq S,
           NEW q \in Requests, CanGrant(q, S)
    PROVE  CanGrant(q, T)
<1>1. /\ Cardinality(T) <= Cardinality(S)
      /\ Cardinality(T) \in Nat /\ Cardinality(S) \in Nat
      /\ \A k \in Kinds : /\ Usage(T, k) \in Nat /\ Usage(S, k) \in Nat
                          /\ Usage(T, k) <= Usage(S, k)
  BY UsageMonotone
<1>2. Cardinality(T) < MaxActiveRuns
  BY <1>1, SchedulerAssumption DEF CanGrant
<1>3. ASSUME NEW k \in Kinds PROVE Usage(T, k) + q.need[k] <= Capacity[k]
  <2>1. q.need[k] \in Nat /\ Capacity[k] \in Nat
    BY SchedulerAssumption
  <2>2. Usage(S, k) + q.need[k] <= Capacity[k]
    BY DEF CanGrant
  <2> QED BY <1>1, <2>1, <2>2
<1> QED BY <1>2, <1>3 DEF CanGrant

\* pump() leaves leases that fit and no waiting entry that would fit.
LEMMA PumpFits ==
    ASSUME NEW n \in Nat, NEW q, NEW a, Numbered(q \cup a, n), q \cap a = {}, Fit(a),
           NEW G \in SUBSET q,
           Grants(q, a, G)
    PROVE  Fit(a \cup G) /\ \A e \in q \ G : ~CanGrant(e.req, a \cup G)
<1>1. Numbered(a \cup G, n) /\ Numbered(G, n)
  BY UsageMonotone, a \cup G \subseteq q \cup a, G \subseteq q \cup a
<1>2. \A e \in a \cup G : e.req \in Requests /\ e.order \in Nat
  BY <1>1 DEF Numbered, Entry
<1>3. \A e \in q \ G : ~CanGrant(e.req, a \cup G)
  <2> SUFFICES ASSUME NEW e \in q \ G, CanGrant(e.req, a \cup G) PROVE FALSE
    OBVIOUS
  <2>1. a \cup {g \in G : Before(g, e)} \subseteq a \cup G
    OBVIOUS
  <2>2. e.req \in Requests
    BY DEF Numbered, Entry
  <2>3. CanGrant(e.req, a \cup {g \in G : Before(g, e)})
    BY <1>1, <2>1, <2>2, CanGrantFewer
  <2> QED BY <2>3 DEF Grants
<1>4. Fit(a \cup G)
  <2>1. CASE G = {}
    BY <2>1
  <2>2. CASE G # {}
    <3>1. PICK m \in G : \A g \in G \ {m} : Before(g, m)
      BY <1>1, <2>2, LastTried
    <3> DEFINE S == a \cup (G \ {m})
    <3>2. CanGrant(m.req, S)
      <4>1. ~Before(m, m)
        BY <1>2 DEF Before
      <4>2. a \cup {g \in G : Before(g, m)} = S
        BY <3>1, <4>1
      <4> QED BY <4>2 DEF Grants
    <3>3. a \cup G = S \cup {m} /\ m \notin S
      OBVIOUS
    <3>4. Cardinality(a \cup G) <= MaxActiveRuns
      <4>1. IsFiniteSet(S)
        BY <1>1, <3>3, FS_Subset DEF Numbered
      <4>2. Cardinality(S \cup {m}) = Cardinality(S) + 1
        BY <3>3, <4>1, FS_AddElement
      <4>3. Cardinality(S) \in Nat
        BY <4>1, FS_CardinalityType
      <4>4. Cardinality(S) < MaxActiveRuns
        BY <3>2 DEF CanGrant
      <4>5. MaxActiveRuns \in Nat
        BY SchedulerAssumption
      <4>6. Cardinality(a \cup G) = Cardinality(S \cup {m})
        BY <3>3
      <4> HIDE DEF S
      <4> QED BY <4>2, <4>3, <4>4, <4>5, <4>6
    <3>5. ASSUME NEW k \in Kinds PROVE Usage(a \cup G, k) <= Capacity[k]
      <4>1. Usage(S, k) + m.req.need[k] <= Capacity[k]
        BY <3>2 DEF CanGrant
      <4>2. Numbered(S \cup {m}, n)
        BY <1>1, <3>3
      <4> HIDE DEF S
      <4>3. Usage(S \cup {m}, k) = Usage(S, k) + m.req.need[k]
        BY <3>3, <4>2, UsageAdd
      <4> QED BY <3>3, <4>1, <4>3
    <3>6. \A e, f \in a \cup G : e # f => ~WorkspaceConflicts(e.req, f.req)
      <4> SUFFICES ASSUME NEW e \in a \cup G, NEW f \in a \cup G, e # f
                   PROVE  ~WorkspaceConflicts(e.req, f.req)
        OBVIOUS
      <4>1. \A x \in G : \A y \in a : ~WorkspaceConflicts(y.req, x.req)
        BY DEF CanGrant, Grants
      <4>2. \A x, y \in G : Before(y, x) => ~WorkspaceConflicts(y.req, x.req)
        BY DEF CanGrant, Grants
      <4>3. \A x, y \in G : x # y => Before(x, y) \/ Before(y, x)
        BY <1>1, <1>2, SchedulerAssumption DEF Before, Numbered
      <4>4. \A x, y : WorkspaceConflicts(x, y) <=> WorkspaceConflicts(y, x)
        BY DEF WorkspaceConflicts
      <4> QED BY <4>1, <4>2, <4>3, <4>4 DEF Fit
    <3> QED BY <3>4, <3>5, <3>6 DEF Fit
  <2> QED BY <2>1, <2>2
<1> QED BY <1>3, <1>4

-----------------------------------------------------------------------------
(* The inductive invariant *)

\* The initial states satisfy the invariant.
LEMMA InitIInv == Init => IInv
<1> SUFFICES ASSUME Init PROVE IInv
  OBVIOUS
<1> USE DEF Init
<1>1. TypeOK /\ BooksAgree /\ WorkConserving
  BY DEF TypeOK, BooksAgree, Outstanding, WorkConserving
<1>2. Numbered(queue \cup active, order)
  BY FS_EmptySet DEF Numbered
<1>3. Fit(active)
  <2>1. \A k \in Kinds : Slots({}, k) = {}
    BY DEF Slots
  <2>2. \A k \in Kinds : Usage({}, k) = 0
    BY <2>1, FS_EmptySet DEF Usage
  <2> QED BY <2>2, FS_EmptySet, SchedulerAssumption DEF Fit
<1> QED BY <1>1, <1>2, <1>3 DEF IInv

\* pump() over a queue q and the leases a that remain in force re-establishes the
\* invariant, whatever operation it ends.
LEMMA PumpIInv ==
    ASSUME NEW q, NEW a, TypeOK, order' \in Nat,
           Numbered(q \cup a, order'), q \cap a = {}, Fit(a),
           \A e, f \in q \cup a : e.req.run = f.req.run => e = f,
           a = granted \ released', released' \subseteq granted,
           \A l \in granted : l.order < order', q \cap granted = {},
           Pump(q, a)
    PROVE  IInv'
<1>1. PICK G \in SUBSET q :
          /\ Grants(q, a, G)
          /\ queue' = q \ G
          /\ active' = a \cup G
          /\ granted' = granted \cup G
  BY DEF Pump, Grants
<1>2. Fit(a \cup G) /\ \A e \in q \ G : ~CanGrant(e.req, a \cup G)
  BY <1>1, PumpFits
<1>3. queue' \cup active' = q \cup a
  BY <1>1
<1>4. TypeOK'
  BY <1>1 DEF TypeOK, Numbered
<1>5. Numbered(queue' \cup active', order')
  BY <1>3
<1>6. BooksAgree'
  <2>1. active' = granted' \ released'
    BY <1>1
  <2> QED BY <1>3, <2>1 DEF BooksAgree, Outstanding
<1>7. (\A l \in granted : l.order < order)' /\ (queue \cap granted = {})'
  BY <1>1 DEF Numbered
<1>8. Fit(active')
  BY <1>1, <1>2
<1>9. WorkConserving'
  BY <1>1, <1>2 DEF WorkConserving
<1> QED BY <1>4, <1>5, <1>6, <1>7, <1>8, <1>9 DEF IInv, Fit, Numbered

\* Every step preserves the invariant.
LEMMA StepIInv == IInv /\ [Next]_vars => IInv'
<1> SUFFICES ASSUME IInv, [Next]_vars PROVE IInv'
  OBVIOUS
<1>1. ASSUME NEW q \in Requests, Acquire(q) PROVE IInv'
  <2> DEFINE e == [order |-> order, req |-> q]
  <2>1. e \in Entry /\ order \in Nat /\ order' = order + 1
    BY <1>1 DEF Acquire, IInv, TypeOK, Entry
  <2>2. e \notin queue \cup active \cup granted
    BY <2>1 DEF IInv, Numbered, TypeOK, Entry
  <2>3. Numbered((queue \cup {e}) \cup active, order')
    <3>1. IsFiniteSet((queue \cup active) \cup {e})
      BY FS_AddElement DEF IInv, Numbered
    <3>2. (queue \cup {e}) \cup active = (queue \cup active) \cup {e}
      OBVIOUS
    <3>3. \A f \in queue \cup active : f.order \in Nat /\ f.order < order
      BY DEF IInv, Numbered, Entry
    <3>4. CanEverGrant(q)
      BY <1>1 DEF Acquire
    <3>5. e.order = order /\ e.req = q
      OBVIOUS
    <3> HIDE DEF e
    <3>6. \A f \in queue \cup active \cup {e} : f.order < order' /\ CanEverGrant(f.req)
      BY <2>1, <3>3, <3>4, <3>5 DEF IInv, Numbered
    <3>7. \A f, g \in queue \cup active \cup {e} : f.order = g.order => f = g
      BY <2>1, <3>3, <3>5 DEF IInv, Numbered
    <3>8. queue \cup active \cup {e} \subseteq Entry
      BY <2>1 DEF IInv, Numbered
    <3> QED BY <3>1, <3>2, <3>6, <3>7, <3>8 DEF Numbered
  <2>4. \A f, g \in (queue \cup {e}) \cup active : f.req.run = g.req.run => f = g
    BY <1>1 DEF Acquire, Known, IInv, BooksAgree
  <2>5. active = granted \ released' /\ released' \subseteq granted
    BY <1>1 DEF Acquire, IInv, BooksAgree, Outstanding, TypeOK
  <2>6. \A l \in granted : l.order < order'
    BY <2>1 DEF IInv, TypeOK, Entry
  <2>7. (queue \cup {e}) \cap active = {} /\ (queue \cup {e}) \cap granted = {}
    BY <2>2, <2>5 DEF IInv
  <2>8. TypeOK /\ Fit(active) /\ order' \in Nat
    BY <2>1 DEF IInv
  <2>9. Pump(queue \cup {e}, active)
    BY <1>1 DEF Acquire
  <2> HIDE DEF e
  <2> QED BY <2>3, <2>4, <2>5, <2>6, <2>7, <2>8, <2>9, PumpIInv
<1>2. ASSUME NEW r, CancelQueued(r) PROVE IInv'
  <2>1. /\ queue' \subseteq queue
        /\ order' = order /\ active' = active
        /\ granted' = granted /\ released' = released
    BY <1>2 DEF CancelQueued
  <2>2. Numbered(queue' \cup active, order)
    BY <2>1, UsageMonotone, queue' \cup active \subseteq queue \cup active DEF IInv
  <2>3. TypeOK' /\ BooksAgree' /\ Fit(active')
    BY <2>1 DEF IInv, TypeOK, BooksAgree, Outstanding, Fit
  <2>4. WorkConserving'
    BY <2>1 DEF IInv, WorkConserving
  <2> QED BY <2>1, <2>2, <2>3, <2>4 DEF IInv, Fit, Numbered
<1>3. ASSUME NEW l \in granted, Release(l) PROVE IInv'
  <2> DEFINE kept == {e \in active : e.req.run # l.req.run}
  <2>1. l \in active /\ kept = active \ {l}
    BY <1>3 DEF Release, IInv, BooksAgree, Outstanding
  <2>2. kept = granted \ released' /\ released' \subseteq granted
    BY <1>3, <2>1 DEF Release, IInv, BooksAgree, Outstanding, TypeOK
  <2>3. order' = order /\ order \in Nat /\ TypeOK
    BY <1>3 DEF Release, IInv, TypeOK
  <2>4. Numbered(queue \cup kept, order)
    BY UsageMonotone, queue \cup kept \subseteq queue \cup active DEF IInv
  <2>5. \A e, f \in queue \cup kept : e.req.run = f.req.run => e = f
    BY DEF IInv, BooksAgree
  <2>6. queue \cap kept = {} /\ queue \cap granted = {}
    BY <2>2 DEF IInv
  <2>7. Fit(kept)
    <3>1. kept \subseteq active /\ Numbered(active, order)
      BY UsageMonotone, active \subseteq queue \cup active DEF IInv
    <3>2. /\ Cardinality(kept) <= Cardinality(active)
          /\ Cardinality(kept) \in Nat /\ Cardinality(active) \in Nat
          /\ \A k \in Kinds : /\ Usage(kept, k) \in Nat /\ Usage(active, k) \in Nat
                              /\ Usage(kept, k) <= Usage(active, k)
      BY <3>1, UsageMonotone
    <3>3. MaxActiveRuns \in Nat /\ \A k \in Kinds : Capacity[k] \in Nat
      BY SchedulerAssumption
    <3> HIDE DEF kept
    <3> QED BY <3>1, <3>2, <3>3 DEF IInv, Fit
  <2>8. \A x \in granted : x.order < order
    BY DEF IInv
  <2>9. Pump(queue, kept)
    BY <1>3 DEF Release
  <2> HIDE DEF kept
  <2> QED BY <2>2, <2>3, <2>4, <2>5, <2>6, <2>7, <2>8, <2>9, PumpIInv
<1>4. CASE UNCHANGED vars
  BY <1>4 DEF vars, IInv, TypeOK, Numbered, BooksAgree, Outstanding, Fit, WorkConserving
<1> QED BY <1>1, <1>2, <1>3, <1>4 DEF Next

-----------------------------------------------------------------------------
(* Theorems *)

\* Every state of the scheduler satisfies the inductive invariant: the operations of
\* the class keep the books, the exclusion, the limits and the full queue scan together.
THEOREM Inductive == Spec => []IInv
<1> QED BY InitIInv, StepIInv, PTL DEF Spec

\* Type correctness.
THEOREM TypeCorrect == Spec => []TypeOK
<1>1. IInv => TypeOK
  BY DEF IInv
<1> QED BY <1>1, Inductive, PTL

\* The active map is exactly the set of leases callers still hold, one per run.
THEOREM Books == Spec => []LeasesMatchBooks
<1>1. IInv => LeasesMatchBooks
  BY DEF IInv, LeasesMatchBooks
<1> QED BY <1>1, Inductive, PTL

\* No two holders conflict on a workspace: one writer, or any number of readers.
THEOREM Exclusion == Spec => []WorkspaceExclusive
<1>1. IInv => WorkspaceExclusive
  BY DEF IInv, Fit, BooksAgree, WorkspaceExclusive
<1> QED BY <1>1, Inductive, PTL

\* The leases in force never exceed a limit of the policy.
THEOREM Limits == Spec => []WithinCapacity
<1>1. IInv => WithinCapacity
  BY DEF IInv, Fit, BooksAgree, WithinCapacity
<1> QED BY <1>1, Inductive, PTL

\* No queued request waits while it would fit, after any operation.
THEOREM NoIdleRoom == Spec => []WorkConserving
<1>1. IInv => WorkConserving
  BY DEF IInv
<1> QED BY <1>1, Inductive, PTL

\* Granting G out of q passes over no earlier peer.
NoPeerPassed(q, G) ==
    \A e \in G : \A f \in q \ G : NoEasier(e, f) => e.order < f.order

\* One pump() grants no entry past an earlier peer that asks for no more.
LEMMA PumpInOrder ==
    ASSUME NEW n \in Nat, NEW q, NEW a, Numbered(q \cup a, n),
           NEW G \in SUBSET q,
           Grants(q, a, G)
    PROVE  NoPeerPassed(q, G)
<1> SUFFICES ASSUME NEW e \in G, NEW f \in q \ G, NoEasier(e, f), ~(e.order < f.order)
             PROVE  FALSE
  BY DEF NoPeerPassed
<1> DEFINE beforeE == a \cup {g \in G : Before(g, e)}
           beforeF == a \cup {g \in G : Before(g, f)}
<1>1. \A x \in q \cup a : /\ x.order \in Nat /\ x.req \in Requests
                           /\ x.req.priority \in {"interactive", "background"}
  BY SchedulerAssumption DEF Numbered, Entry
<1>2. f.order < e.order
  BY <1>1 DEF Numbered
<1>3. beforeF \subseteq beforeE
  BY <1>1, <1>2 DEF Before, NoEasier
<1>4. Numbered(beforeE, n)
  BY UsageMonotone, beforeE \subseteq q \cup a
<1>5. CanGrant(e.req, beforeE)
  BY DEF Grants
<1>6. CanGrant(e.req, beforeF)
  <2> HIDE DEF beforeE, beforeF
  <2> QED BY <1>1, <1>3, <1>4, <1>5, CanGrantFewer
<1>7. CanGrant(f.req, beforeF)
  <2>1. ASSUME NEW k \in Kinds PROVE Usage(beforeF, k) + f.req.need[k] <= Capacity[k]
    <3>1. Usage(beforeF, k) \in Nat
      <4> HIDE DEF beforeE, beforeF
      <4> QED BY <1>3, <1>4, UsageMonotone
    <3>2. e.req.need[k] \in Nat /\ f.req.need[k] \in Nat /\ Capacity[k] \in Nat
      BY <1>1, SchedulerAssumption
    <3>3. f.req.need[k] <= e.req.need[k]
      BY DEF NoEasier
    <3>4. Usage(beforeF, k) + e.req.need[k] <= Capacity[k]
      BY <1>6 DEF CanGrant
    <3> HIDE DEF beforeF
    <3> QED BY <3>1, <3>2, <3>3, <3>4
  <2> HIDE DEF beforeF
  <2> QED BY <1>6, <2>1 DEF CanGrant, WorkspaceConflicts, NoEasier
<1> QED BY <1>7 DEF Grants

\* The same of the step an operation ends in: what it grants passes over no peer.
LEMMA PumpInOrderStep ==
    ASSUME NEW q, NEW a, Numbered(q \cup a, order'), order' \in Nat, Pump(q, a)
    PROVE  \A e \in granted' \ granted : \A f \in queue' :
               NoEasier(e, f) => e.order < f.order
<1>1. PICK G \in SUBSET q :
          /\ Grants(q, a, G)
          /\ queue' = q \ G
          /\ granted' = granted \cup G
  BY DEF Pump, Grants
<1>2. NoPeerPassed(q, G)
  BY <1>1, PumpInOrder
<1> QED BY <1>1, <1>2 DEF NoPeerPassed

\* Requests that ask for the same are granted in the order they arrived.
THEOREM InOrder == Spec => PeersInOrder
<1> DEFINE Step == \A e \in granted' \ granted : \A f \in queue' :
                      NoEasier(e, f) => e.order < f.order
<1>1. IInv /\ IInv' /\ [Next]_vars => [Step]_vars
  <2> SUFFICES ASSUME IInv, IInv', Next PROVE Step
    BY DEF vars
  <2>1. ASSUME NEW q, NEW a, q \cup a = queue' \cup active', Pump(q, a) PROVE Step
    BY <2>1, PumpInOrderStep DEF IInv, TypeOK
  <2>2. ASSUME NEW q, NEW a, Pump(q, a) PROVE q \cup a = queue' \cup active'
    BY <2>2 DEF Pump
  <2>3. (\E q \in Requests : Acquire(q)) => Step
    BY <2>1, <2>2 DEF Acquire
  <2>4. (\E l \in granted : Release(l)) => Step
    BY <2>1, <2>2 DEF Release
  <2>5. (\E r \in {x.run : x \in Requests} : CancelQueued(r)) => Step
    BY DEF CancelQueued
  <2> QED BY <2>3, <2>4, <2>5 DEF Next
<1>2. Spec => [][Step]_vars
  BY <1>1, Inductive, PTL DEF Spec
<1> QED BY <1>2 DEF PeersInOrder
=============================================================================
