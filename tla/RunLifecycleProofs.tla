------------------------- MODULE RunLifecycleProofs -------------------------
(***************************************************************************)
(* Proofs about runs, for any runs, requests, limits, crashes and failed   *)
(* appends: no second attempt of a tool call without consent; a log that   *)
(* keeps its contract; leases that have owners; no orphaned run.           *)
(*                                                                         *)
(* The properties speak of the log, the scheduler and the controllers; a   *)
(* loop decides by where it is (pc), and what it decided last may still be *)
(* on its way to the log (todo).  The invariants join them: what log and   *)
(* todo together end in (IInv), which events todo may add to the status    *)
(* the log shows (CInv), the scheduler's books (SchedulerProofs), who      *)
(* waits and holds at each place of a loop (LInv), and what a run has      *)
(* counted there (TInv).                                                   *)
(*                                                                         *)
(* The last part is about those who watch a run (SseStream): what they are *)
(* shown is the log, and the logs are such as a stream may serve.          *)
(***************************************************************************)
EXTENDS RunLifecycle, SseStream, TLAPS, SequenceTheorems, WellFoundedInduction

Events ==
    [type : {"run.status", "run.created", "run.completed", "run.failed", "run.cancelled",
             "run.needs_recovery", "run.titled", "tool.started", "approval.required",
             "approval.decided", "approval.expired"},
     arg : {"", "first", "second", "allow", "deny", "queued", "planning", "executing",
            "waiting-approval", "cancelling", "completed", "failed", "cancelled",
            "needs-recovery"}]
Second == ToolStarted("second")
Harmless == Events \ {Second}

\* A log in which each second attempt comes right after consent to the first.
Sound(s) ==
    \A n \in 1 .. Len(s) :
        s[n] = Second =>
            /\ n > 5
            /\ s[n - 1] = Status("executing")
            /\ s[n - 2] = Decided("allow")
            /\ s[n - 3] = Status("waiting-approval")
            /\ s[n - 4] = Event("approval.required")
            /\ s[n - 5] = ToolStarted("first")

\* What the log of a loop ends in at label l.
EndsAt(l, s) ==
    /\ l = "attempt1" => Len(s) >= 1 /\ s[Len(s)] = ToolStarted("first")
    /\ l = "decision" => /\ Len(s) >= 3
                         /\ s[Len(s)] = Status("waiting-approval")
                         /\ s[Len(s) - 1] = Event("approval.required")
                         /\ s[Len(s) - 2] = ToolStarted("first")
    /\ l = "approve"  => /\ Len(s) >= 5
                         /\ s[Len(s)] = Status("executing")
                         /\ s[Len(s) - 1] = Decided("allow")
                         /\ s[Len(s) - 2] = Status("waiting-approval")
                         /\ s[Len(s) - 3] = Event("approval.required")
                         /\ s[Len(s) - 4] = ToolStarted("first")

Types ==
    /\ log \in [Runs -> Seq(Events)]
    /\ todo \in [Runs -> Seq(Events)]
    /\ DOMAIN pc = Runs

\* The log with what is on its way to it.
Whole(r) == log[r] \o todo[r]

Consent == \A r \in Runs : Sound(Whole(r)) /\ EndsAt(pc[r], Whole(r))

\* While the daemon is not up there is no loop.
NoLoops == daemon # "up" => \A r \in Runs : pc[r] = "none"

IInv == Types /\ Consent /\ NoLoops

-----------------------------------------------------------------------------
(* Logs *)

\* Appending what is no second attempt keeps a log sound.
LEMMA Extended ==
    ASSUME NEW s \in Seq(Events), NEW t \in Seq(Events), Sound(s),
           \A n \in 1 .. Len(t) : t[n] # Second
    PROVE  Sound(s \o t)
<1> SUFFICES ASSUME NEW n \in 1 .. Len(s \o t), (s \o t)[n] = Second
             PROVE  /\ n > 5
                    /\ (s \o t)[n - 1] = Status("executing")
                    /\ (s \o t)[n - 2] = Decided("allow")
                    /\ (s \o t)[n - 3] = Status("waiting-approval")
                    /\ (s \o t)[n - 4] = Event("approval.required")
                    /\ (s \o t)[n - 5] = ToolStarted("first")
  BY DEF Sound
<1>1. /\ Len(s) \in Nat /\ Len(t) \in Nat /\ Len(s \o t) = Len(s) + Len(t)
      /\ \A m \in 1 .. Len(s) : (s \o t)[m] = s[m]
      /\ \A m \in Len(s) + 1 .. Len(s) + Len(t) : (s \o t)[m] = t[m - Len(s)]
  OBVIOUS
<1>2. n \in 1 .. Len(s) /\ s[n] = Second
  <2>1. n \in Len(s) + 1 .. Len(s) + Len(t) => n - Len(s) \in 1 .. Len(t)
    BY <1>1
  <2> QED BY <1>1, <2>1
<1>3. /\ n > 5
      /\ s[n - 1] = Status("executing")
      /\ s[n - 2] = Decided("allow")
      /\ s[n - 3] = Status("waiting-approval")
      /\ s[n - 4] = Event("approval.required")
      /\ s[n - 5] = ToolStarted("first")
  BY <1>2 DEF Sound
<1> HIDE DEF Second, ToolStarted, Status, Decided, Event
<1> QED BY <1>1, <1>2, <1>3

\* The beginning of a sound log is sound.
LEMMA Beginning ==
    ASSUME NEW s \in Seq(Events), NEW t \in Seq(Events), Sound(s \o t)
    PROVE  Sound(s)
<1> SUFFICES ASSUME NEW n \in 1 .. Len(s), s[n] = Second
             PROVE  /\ n > 5
                    /\ s[n - 1] = Status("executing")
                    /\ s[n - 2] = Decided("allow")
                    /\ s[n - 3] = Status("waiting-approval")
                    /\ s[n - 4] = Event("approval.required")
                    /\ s[n - 5] = ToolStarted("first")
  BY DEF Sound
<1>1. /\ Len(s) \in Nat /\ Len(s \o t) = Len(s) + Len(t) /\ Len(t) \in Nat
      /\ \A m \in 1 .. Len(s) : (s \o t)[m] = s[m]
  OBVIOUS
<1>2. n \in 1 .. Len(s \o t) /\ (s \o t)[n] = Second
  BY <1>1
<1>3. /\ n > 5
      /\ (s \o t)[n - 1] = Status("executing")
      /\ (s \o t)[n - 2] = Decided("allow")
      /\ (s \o t)[n - 3] = Status("waiting-approval")
      /\ (s \o t)[n - 4] = Event("approval.required")
      /\ (s \o t)[n - 5] = ToolStarted("first")
  BY <1>2 DEF Sound
<1> QED BY <1>1, <1>3

\* Where the events of t are found in s \o t.
LEMMA Grown ==
    ASSUME NEW s \in Seq(Events), NEW t \in Seq(Events)
    PROVE  /\ s \o t \in Seq(Events)
           /\ Len(s) \in Nat /\ Len(t) \in Nat /\ Len(s \o t) = Len(s) + Len(t)
           /\ \A m \in 1 .. Len(s) : (s \o t)[m] = s[m]
           /\ \A m \in 1 .. Len(t) : (s \o t)[Len(s) + m] = t[m]
OBVIOUS

\* A log of one event.
LEMMA One ==
    ASSUME NEW a \in Events
    PROVE  <<a>> \in Seq(Events) /\ Len(<<a>>) = 1 /\ <<a>>[1] = a
OBVIOUS

\* A log of two events.
LEMMA Two ==
    ASSUME NEW a \in Events, NEW b \in Events
    PROVE  /\ <<a, b>> \in Seq(Events) /\ Len(<<a, b>>) = 2
           /\ <<a, b>>[1] = a /\ <<a, b>>[2] = b
OBVIOUS

\* The events of a tool call.
LEMMA CallEvents ==
    /\ ToolStarted("first") \in Events /\ Second \in Events
    /\ Status("waiting-approval") \in Events /\ Status("executing") \in Events
    /\ Event("approval.required") \in Events /\ Decided("allow") \in Events
BY DEF ToolStarted, Second, Status, Event, Decided, Events

\* A second attempt may follow on consent.
LEMMA Retried ==
    ASSUME NEW s \in Seq(Events), Sound(s), EndsAt("approve", s)
    PROVE  Sound(s \o <<Second>>)
<1> DEFINE t == <<Second>>
           w == s \o t
<1>1. t \in Seq(Events) /\ Len(t) = 1 /\ t[1] = Second
  BY One, CallEvents
<1>2. /\ Len(s) \in Nat /\ Len(w) = Len(s) + 1 /\ w[Len(s) + 1] = Second
      /\ \A m \in 1 .. Len(s) : w[m] = s[m]
  <2> HIDE DEF t
  <2> QED BY <1>1, Grown
<1> SUFFICES ASSUME NEW n \in 1 .. Len(w), w[n] = Second
             PROVE  /\ n > 5
                    /\ w[n - 1] = Status("executing")
                    /\ w[n - 2] = Decided("allow")
                    /\ w[n - 3] = Status("waiting-approval")
                    /\ w[n - 4] = Event("approval.required")
                    /\ w[n - 5] = ToolStarted("first")
  BY DEF Sound
<1> HIDE DEF w
<1>3. CASE n = Len(s) + 1
  BY <1>2, <1>3 DEF EndsAt
<1>4. CASE n \in 1 .. Len(s)
  BY <1>2, <1>4 DEF Sound
<1>5. n \in 1 .. Len(s) + 1 => n = Len(s) + 1 \/ n \in 1 .. Len(s)
  BY <1>2
<1> QED BY <1>2, <1>3, <1>4, <1>5

\* What append() makes durable leaves log and todo together as they were.
LEMMA Moved ==
    ASSUME NEW s \in Seq(Events), NEW t \in Seq(Events), t # <<>>
    PROVE  /\ Append(s, Head(t)) \in Seq(Events) /\ Tail(t) \in Seq(Events)
           /\ Append(s, Head(t)) \o Tail(t) = s \o t
<1> DEFINE u == Append(s, Head(t))
           v == Tail(t)
<1>1. /\ u \in Seq(Events) /\ Len(u) = Len(s) + 1
      /\ \A m \in 1 .. Len(s) : u[m] = s[m]
      /\ u[Len(s) + 1] = t[1]
  OBVIOUS
<1>2. /\ v \in Seq(Events) /\ Len(v) = Len(t) - 1
      /\ \A m \in 1 .. Len(t) - 1 : v[m] = t[m + 1]
  OBVIOUS
<1>3. Len(s) \in Nat /\ Len(t) \in Nat /\ Len(t) > 0
  OBVIOUS
<1> HIDE DEF u, v
<1>4. /\ u \o v \in Seq(Events) /\ Len(u \o v) = Len(u) + Len(v)
      /\ \A m \in 1 .. Len(u) : (u \o v)[m] = u[m]
      /\ \A m \in 1 .. Len(v) : (u \o v)[Len(u) + m] = v[m]
  BY <1>1, <1>2, Grown
<1>5. /\ s \o t \in Seq(Events) /\ Len(s \o t) = Len(s) + Len(t)
      /\ \A m \in 1 .. Len(s) : (s \o t)[m] = s[m]
      /\ \A m \in 1 .. Len(t) : (s \o t)[Len(s) + m] = t[m]
  BY Grown
<1>6. Len(u \o v) = Len(s \o t)
  BY <1>1, <1>2, <1>3, <1>4, <1>5
<1>7. ASSUME NEW m \in 1 .. Len(s \o t) PROVE (u \o v)[m] = (s \o t)[m]
  <2>1. CASE m \in 1 .. Len(s)
    BY <1>1, <1>3, <1>4, <1>5, <2>1
  <2>2. CASE m = Len(s) + 1
    <3>1. (u \o v)[m] = t[1]
      BY <1>1, <1>3, <1>4, <2>2
    <3>2. (s \o t)[m] = t[1]
      BY <1>3, <1>5, <2>2
    <3> QED BY <3>1, <3>2
  <2>3. CASE m > Len(s) + 1
    <3>1. PICK k \in 1 .. Len(t) - 1 : m = Len(s) + 1 + k
      <4>1. m - (Len(s) + 1) \in 1 .. Len(t) - 1 /\ m = Len(s) + 1 + (m - (Len(s) + 1))
        BY <1>3, <1>5, <2>3
      <4> QED BY <4>1
    <3>2. (u \o v)[Len(u) + k] = v[k] /\ Len(u) + k = m
      BY <1>1, <1>2, <1>3, <1>4, <3>1
    <3>3. (s \o t)[Len(s) + (k + 1)] = t[k + 1] /\ Len(s) + (k + 1) = m
      BY <1>3, <1>5, <3>1
    <3> QED BY <1>2, <3>2, <3>3
  <2>4. m \in 1 .. Len(s) \/ m = Len(s) + 1 \/ m > Len(s) + 1
    BY <1>3, <1>5
  <2> QED BY <2>1, <2>2, <2>3, <2>4
<1>8. u \o v = s \o t
  BY <1>4, <1>5, <1>6, <1>7, SeqEqual
<1> QED BY <1>1, <1>2, <1>8 DEF u, v

\* Nothing appended leaves a log as it was.
LEMMA Nothing == ASSUME NEW s \in Seq(Events) PROVE s \o <<>> = s
BY ConcatEmptySeq

\* The first attempt brings a log to where its outcome is awaited.
LEMMA Attempting ==
    ASSUME NEW s \in Seq(Events)
    PROVE  EndsAt("attempt1", s \o <<ToolStarted("first")>>)
<1> DEFINE t == <<ToolStarted("first")>>
<1>1. t \in Seq(Events) /\ Len(t) = 1 /\ t[1] = ToolStarted("first")
  BY One, CallEvents
<1> HIDE DEF t
<1>2. EndsAt("attempt1", s \o t)
  BY <1>1, Grown DEF EndsAt
<1> QED BY <1>2 DEF t

\* The request for consent brings a log to where the decision is awaited.
LEMMA Asking ==
    ASSUME NEW s \in Seq(Events), EndsAt("attempt1", s)
    PROVE  EndsAt("decision", s \o <<Event("approval.required"), Status("waiting-approval")>>)
<1> DEFINE t == <<Event("approval.required"), Status("waiting-approval")>>
<1>1. t \in Seq(Events) /\ Len(t) = 2
      /\ t[1] = Event("approval.required") /\ t[2] = Status("waiting-approval")
  BY Two, CallEvents
<1>2. Len(s) >= 1 /\ s[Len(s)] = ToolStarted("first")
  BY DEF EndsAt
<1> HIDE DEF t
<1>3. /\ Len(s) \in Nat /\ Len(s \o t) = Len(s) + 2
      /\ (s \o t)[Len(s) + 2] = Status("waiting-approval")
      /\ (s \o t)[Len(s) + 1] = Event("approval.required")
      /\ (s \o t)[Len(s)] = ToolStarted("first")
  <2>0. /\ Len(s) \in Nat /\ Len(t) \in Nat /\ Len(s \o t) = Len(s) + Len(t)
        /\ \A m \in 1 .. Len(s) : (s \o t)[m] = s[m]
        /\ \A m \in 1 .. Len(t) : (s \o t)[Len(s) + m] = t[m]
    <3>1. t \in Seq(Events)
      BY <1>1
    <3> QED BY <3>1, Grown
  <2>1. 1 \in 1 .. Len(t) /\ 2 \in 1 .. Len(t)
    BY <1>1
  <2>2. Len(s) \in Nat /\ Len(s \o t) = Len(s) + 2
    BY <1>1, <2>0
  <2>3. Len(s) \in 1 .. Len(s)
    BY <1>2, <2>2
  <2> QED BY <1>1, <1>2, <2>0, <2>1, <2>2, <2>3
<1>4. Len(s) + 2 - 1 = Len(s) + 1 /\ Len(s) + 2 - 2 = Len(s) /\ Len(s) + 2 >= 3
  BY <1>2, <1>3
<1>5. EndsAt("decision", s \o t)
  BY <1>3, <1>4 DEF EndsAt
<1> QED BY <1>5 DEF t

\* The consent brings a log to where the call is tried again.
LEMMA Allowing ==
    ASSUME NEW s \in Seq(Events), EndsAt("decision", s)
    PROVE  EndsAt("approve", s \o <<Decided("allow"), Status("executing")>>)
<1> DEFINE t == <<Decided("allow"), Status("executing")>>
<1>1. t \in Seq(Events) /\ Len(t) = 2
      /\ t[1] = Decided("allow") /\ t[2] = Status("executing")
  BY Two, CallEvents
<1>2. /\ Len(s) >= 3 /\ s[Len(s)] = Status("waiting-approval")
      /\ s[Len(s) - 1] = Event("approval.required")
      /\ s[Len(s) - 2] = ToolStarted("first")
  BY DEF EndsAt
<1> HIDE DEF t
<1>3. /\ Len(s) \in Nat /\ Len(s \o t) = Len(s) + 2
      /\ (s \o t)[Len(s) + 2] = Status("executing")
      /\ (s \o t)[Len(s) + 1] = Decided("allow")
  <2>0. /\ Len(s) \in Nat /\ Len(t) \in Nat /\ Len(s \o t) = Len(s) + Len(t)
        /\ \A m \in 1 .. Len(s) : (s \o t)[m] = s[m]
        /\ \A m \in 1 .. Len(t) : (s \o t)[Len(s) + m] = t[m]
    <3>1. t \in Seq(Events)
      BY <1>1
    <3> QED BY <3>1, Grown
  <2>1. 1 \in 1 .. Len(t) /\ 2 \in 1 .. Len(t)
    BY <1>1
  <2> QED BY <1>1, <2>0, <2>1
<1>4. /\ (s \o t)[Len(s)] = Status("waiting-approval")
      /\ (s \o t)[Len(s) - 1] = Event("approval.required")
      /\ (s \o t)[Len(s) - 2] = ToolStarted("first")
  <2>1. Len(s) \in 1 .. Len(s) /\ Len(s) - 1 \in 1 .. Len(s) /\ Len(s) - 2 \in 1 .. Len(s)
    BY <1>2, <1>3
  <2> QED BY <1>1, <1>2, <2>1, Grown
<1>5. /\ Len(s) + 2 - 1 = Len(s) + 1 /\ Len(s) + 2 - 2 = Len(s) /\ Len(s) + 2 - 3 = Len(s) - 1
      /\ Len(s) + 2 - 4 = Len(s) - 2 /\ Len(s) + 2 >= 5
  BY <1>2, <1>3
<1>6. EndsAt("approve", s \o t)
  BY <1>3, <1>4, <1>5 DEF EndsAt
<1> QED BY <1>6 DEF t

-----------------------------------------------------------------------------
(* Steps *)

\* A step that takes the loop of r to label l with events t to append, from a log and
\* to a log that are what the invariant asks for.
LEMMA Placed ==
    ASSUME IInv, NEW r \in Runs, NEW l, NEW t \in Seq(Events), daemon = "up",
           pc' = [pc EXCEPT ![r] = l], todo' = [todo EXCEPT ![r] = t],
           log' = log, daemon' = daemon,
           Sound(log[r] \o t), EndsAt(l, log[r] \o t)
    PROVE  IInv'
<1>1. Types'
  BY DEF IInv, Types
<1>2. Consent'
  <2> SUFFICES ASSUME NEW q \in Runs PROVE (Sound(Whole(q)) /\ EndsAt(pc[q], Whole(q)))'
    BY DEF Consent
  <2>1. CASE q = r
    <3>1. pc'[q] = l /\ todo'[q] = t /\ log'[q] = log[r]
      BY <2>1 DEF IInv, Types
    <3> QED BY <3>1 DEF Whole, Sound, EndsAt
  <2>2. CASE q # r
    <3>1. pc'[q] = pc[q] /\ todo'[q] = todo[q] /\ log'[q] = log[q]
      BY <2>2 DEF IInv, Types
    <3>2. Sound(log[q] \o todo[q]) /\ EndsAt(pc[q], log[q] \o todo[q])
      BY DEF IInv, Consent, Whole
    <3>3. Sound(log'[q] \o todo'[q]) /\ EndsAt(pc'[q], log'[q] \o todo'[q])
      BY <3>1, <3>2
    <3> QED BY <3>3 DEF Whole, Sound, EndsAt
  <2> QED BY <2>1, <2>2
<1>3. NoLoops'
  BY DEF NoLoops
<1> QED BY <1>1, <1>2, <1>3 DEF IInv

\* What is durable is sound by itself.
LEMMA Durable == ASSUME IInv, NEW r \in Runs PROVE log[r] \in Seq(Events) /\ Sound(log[r])
<1>1. log[r] \in Seq(Events) /\ todo[r] \in Seq(Events) /\ Sound(log[r] \o todo[r])
  BY DEF IInv, Types, Consent, Whole
<1> QED BY <1>1, Beginning

\* A list of harmless events has no second attempt.
LEMMA HarmlessSeq ==
    ASSUME NEW t \in Seq(Harmless)
    PROVE  t \in Seq(Events) /\ \A n \in 1 .. Len(t) : t[n] # Second
<1>1. \A n \in 1 .. Len(t) : t[n] \in Harmless
  BY ElementOfSeq
<1>2. t \in Seq(Events)
  BY DEF Harmless
<1> QED BY <1>1, <1>2 DEF Harmless

\* Most steps have no second attempt to append and go on elsewhere.
LEMMA Plain ==
    ASSUME IInv, NEW r \in Runs, NEW l, NEW t \in Seq(Harmless), daemon = "up",
           l \notin {"attempt1", "decision", "approve"},
           Continue(r, l, t), log' = log, daemon' = daemon
    PROVE  IInv'
<1>1. t \in Seq(Events) /\ Sound(log[r] \o t)
  BY Durable, Extended, HarmlessSeq
<1>2. EndsAt(l, log[r] \o t)
  BY DEF EndsAt
<1> QED BY <1>1, <1>2, Placed DEF Continue

\* The endings of a run have no second attempt.
LEMMA Endings ==
    \A s \in {"completed", "failed", "cancelled"} : Ending(s) \in Seq(Harmless)
<1>1. /\ Status("completed") \in Harmless /\ Status("failed") \in Harmless
      /\ Status("cancelled") \in Harmless /\ Status("cancelling") \in Harmless
      /\ Event("run.completed") \in Harmless /\ Event("run.failed") \in Harmless
      /\ Event("run.cancelled") \in Harmless
  BY DEF Status, Event, Harmless, Events, Second, ToolStarted
<1>2. /\ FinalEvent("completed") = Event("run.completed")
      /\ FinalEvent("failed") = Event("run.failed")
      /\ FinalEvent("cancelled") = Event("run.cancelled")
  BY DEF FinalEvent
<1> HIDE DEF Status, Event
<1>3. Ending("completed") \in Seq(Harmless)
  BY <1>1, <1>2 DEF Ending
<1>4. Ending("failed") \in Seq(Harmless)
  BY <1>1, <1>2 DEF Ending
<1>5. Ending("cancelled") \in Seq(Harmless)
  BY <1>1, <1>2 DEF Ending
<1> QED BY <1>3, <1>4, <1>5

\* A harmless event before harmless ones.
LEMMA Prefixed ==
    ASSUME NEW a \in Harmless, NEW s \in Seq(Harmless) PROVE <<a>> \o s \in Seq(Harmless)
OBVIOUS

\* The events a step appends one by one, other than the second attempt's.
LEMMA OtherEvents ==
    /\ Event("run.created") \in Harmless /\ Event("run.titled") \in Harmless
    /\ Event("approval.required") \in Harmless /\ Event("approval.expired") \in Harmless
    /\ Status("queued") \in Harmless /\ Status("planning") \in Harmless
    /\ Status("executing") \in Harmless /\ Status("needs-recovery") \in Harmless
    /\ Decided("deny") \in Harmless /\ FinalEvent("needs-recovery") \in Harmless
BY DEF Event, Status, Decided, FinalEvent, Harmless, Events, Second, ToolStarted

\* Short lists of harmless events.
LEMMA Listed ==
    /\ <<>> \in Seq(Harmless)
    /\ \A a \in Harmless : <<a>> \in Seq(Harmless)
    /\ \A a, b \in Harmless : <<a, b>> \in Seq(Harmless)
OBVIOUS

\* The steps up to the first turn.
LEMMA Starting ==
    ASSUME IInv, NEW r \in Runs,
           Start(r) \/ StartThrows(r) \/ Begin(r) \/ Acquire(r) \/ Acquired(r) \/ Title(r)
    PROVE  IInv'
<1> USE OtherEvents, Listed
<1>1. CASE Start(r)
  BY <1>1, Plain DEF Start
<1>2. CASE StartThrows(r)
  BY <1>2, Plain DEF StartThrows, At
<1>3. CASE Begin(r)
  <2>1. daemon = "up" /\ log' = log /\ daemon' = daemon
    BY <1>3 DEF Begin, At, Unchanged1
  <2>2. ASSUME NEW t \in Seq(Harmless), NEW l \in {"queued", "finally"}, Continue(r, l, t)
        PROVE  IInv'
    BY <2>1, <2>2, Plain
  <2>3. <<Event("run.created")>> \o Ending("failed") \in Seq(Harmless)
    BY Endings, Prefixed
  <2>4. <<Event("run.created"), Status("queued")>> \in Seq(Harmless)
    BY Listed
  <2>5. \/ Continue(r, "queued", <<Event("run.created"), Status("queued")>>)
        \/ Continue(r, "finally", <<Event("run.created")>> \o Ending("failed"))
    BY <1>3 DEF Begin
  <2> QED BY <2>2, <2>3, <2>4, <2>5
<1>4. CASE Acquire(r)
  <2>1. daemon = "up" /\ log' = log /\ daemon' = daemon
    BY <1>4 DEF Acquire, At, Unchanged1
  <2>2. \/ Continue(r, "finally", Ending("cancelled")) \/ Continue(r, "finally", Ending("failed"))
        \/ Continue(r, "acquiring", <<>>)
    BY <1>4 DEF Acquire, Cancelled, Fail
  <2> QED BY <2>1, <2>2, Plain, Endings
<1>5. CASE Acquired(r)
  <2>1. daemon = "up" /\ log' = log /\ daemon' = daemon
    BY <1>5 DEF Acquired, At, Unchanged1
  <2>2. \/ Continue(r, "finally", Ending("cancelled")) \/ Continue(r, "turn", <<Status("planning")>>)
    BY <1>5 DEF Acquired, Cancelled
  <2> QED BY <2>1, <2>2, Plain, Endings
<1>6. CASE Title(r)
  <2>1. daemon = "up" /\ log' = log /\ daemon' = daemon
    BY <1>6 DEF Title, At, Unchanged1
  <2> QED BY <1>6, <2>1, Plain DEF Title
<1> QED BY <1>1, <1>2, <1>3, <1>4, <1>5, <1>6

\* Turns, and the ends of a loop.
LEMMA Turning ==
    ASSUME IInv, NEW r \in Runs,
           BeginTurn(r) \/ ModelAnswers(r) \/ EndTurn(r) \/ ToolFailed(r) \/ Finish(r)
    PROVE  IInv'
<1> USE OtherEvents, Listed
<1>1. CASE BeginTurn(r)
  <2>1. daemon = "up" /\ log' = log /\ daemon' = daemon
    BY <1>1 DEF BeginTurn, At
  <2>2. \/ Continue(r, "finally", Ending("cancelled")) \/ Continue(r, "model", <<Status("executing")>>)
    BY <1>1 DEF BeginTurn, Cancelled
  <2> QED BY <2>1, <2>2, Plain, Endings
<1>2. CASE ModelAnswers(r)
  <2>1. daemon = "up" /\ log' = log /\ daemon' = daemon
    BY <1>2 DEF ModelAnswers, At
  <2>2. \/ \E l \in {"inStream", "finally"}, s \in {"completed", "failed", "cancelled"} :
              Continue(r, l, Ending(s))
        \/ Continue(r, "call", <<>>)
    BY <1>2 DEF ModelAnswers, Fail
  <2> QED BY <2>1, <2>2, Plain, Endings
<1>3. CASE EndTurn(r)
  <2>1. daemon = "up" /\ log' = log /\ daemon' = daemon
    BY <1>3 DEF EndTurn, At, Unchanged1
  <2>2. \/ Continue(r, "finally", Ending("failed")) \/ Continue(r, "turn", <<Status("planning")>>)
    BY <1>3 DEF EndTurn, Fail
  <2> QED BY <2>1, <2>2, Plain, Endings
<1>4. CASE ToolFailed(r)
  <2>1. daemon = "up" /\ log' = log /\ daemon' = daemon
    BY <1>4 DEF ToolFailed, At, Unchanged1
  <2>2. \/ Continue(r, "finally", Ending("failed")) \/ Continue(r, "finally", Ending("cancelled"))
    BY <1>4 DEF ToolFailed, Fail, Cancelled
  <2> QED BY <2>1, <2>2, Plain, Endings
<1>5. CASE Finish(r)
  <2>1. daemon = "up" /\ log' = log /\ daemon' = daemon
    BY <1>5 DEF Finish, At
  <2> QED BY <1>5, <2>1, Plain DEF Finish
<1> QED BY <1>1, <1>2, <1>3, <1>4, <1>5

\* The steps of a tool call, of which consent is one.
LEMMA Calling ==
    ASSUME IInv, NEW r \in Runs,
           CallTool(r) \/ Execute(r) \/ RequireApproval(r) \/ Decision(r) \/ Approve(r)
    PROVE  IInv'
<1> USE OtherEvents, Listed
<1>1. ASSUME todo[r] = <<>>
      PROVE  log[r] \in Seq(Events) /\ Sound(log[r]) /\ EndsAt(pc[r], log[r])
  <2>1. log[r] \in Seq(Events) /\ Sound(log[r] \o todo[r]) /\ EndsAt(pc[r], log[r] \o todo[r])
    BY DEF IInv, Types, Consent, Whole
  <2> QED BY <1>1, <2>1, Nothing
<1>2. CASE CallTool(r)
  <2>1. daemon = "up" /\ log' = log /\ daemon' = daemon /\ todo[r] = <<>>
    BY <1>2 DEF CallTool, At
  <2>2. CASE Continue(r, "attempt1", <<ToolStarted("first")>>)
    <3>1. ToolStarted("first") \in Harmless
      BY DEF ToolStarted, Harmless, Events, Second
    <3>2. <<ToolStarted("first")>> \in Seq(Harmless)
      BY <3>1
    <3>3. Sound(log[r] \o <<ToolStarted("first")>>) /\ <<ToolStarted("first")>> \in Seq(Events)
      BY <1>1, <2>1, <3>2, HarmlessSeq, Extended
    <3>4. EndsAt("attempt1", log[r] \o <<ToolStarted("first")>>)
      BY <1>1, <2>1, Attempting
    <3> QED BY <2>1, <2>2, <3>3, <3>4, Placed DEF Continue
  <2>3. CASE Continue(r, "call", <<>>)
    BY <2>1, <2>3, Plain
  <2> QED BY <1>2, <2>2, <2>3 DEF CallTool, CallDone
<1>3. CASE Execute(r)
  <2>1. daemon = "up" /\ log' = log /\ daemon' = daemon
    BY <1>3 DEF Execute, At
  <2>2. Continue(r, "call", <<>>) \/ Continue(r, "toolFailed", <<>>)
    BY <1>3 DEF Execute, CallDone
  <2> QED BY <2>1, <2>2, Plain
<1>4. CASE RequireApproval(r)
  <2> DEFINE t == <<Event("approval.required"), Status("waiting-approval")>>
  <2>1. daemon = "up" /\ log' = log /\ daemon' = daemon /\ todo[r] = <<>>
    BY <1>4 DEF RequireApproval, At, Unchanged1
  <2>2. CASE pc[r] = "attempt1" /\ Continue(r, "decision", t)
    <3>1. Status("waiting-approval") \in Harmless
      BY DEF Status, Harmless, Events, Second, ToolStarted
    <3>2. t \in Seq(Harmless)
      BY <3>1
    <3>3. EndsAt("decision", log[r] \o t)
      BY <1>1, <2>1, <2>2, Asking
    <3> HIDE DEF t
    <3>4. Sound(log[r] \o t) /\ t \in Seq(Events)
      BY <1>1, <2>1, <3>2, HarmlessSeq, Extended
    <3> QED BY <2>1, <2>2, <3>3, <3>4, Placed DEF Continue
  <2>3. CASE Continue(r, "toolFailed", <<Event("approval.required")>>)
    BY <2>1, <2>3, Plain
  <2> QED BY <1>4, <2>2, <2>3 DEF RequireApproval, At
<1>5. CASE Decision(r)
  <2> DEFINE t == <<Decided("allow"), Status("executing")>>
  <2>1. daemon = "up" /\ log' = log /\ daemon' = daemon /\ todo[r] = <<>> /\ pc[r] = "decision"
    BY <1>5 DEF Decision, At, Unchanged1
  <2>2. CASE Continue(r, "approve", t)
    <3>1. Decided("allow") \in Harmless
      BY DEF Decided, Harmless, Events, Second, ToolStarted
    <3>2. t \in Seq(Harmless)
      BY <3>1
    <3>3. EndsAt("approve", log[r] \o t)
      BY <1>1, <2>1, Allowing
    <3> HIDE DEF t
    <3>4. Sound(log[r] \o t) /\ t \in Seq(Events)
      BY <1>1, <2>1, <3>2, HarmlessSeq, Extended
    <3> QED BY <2>1, <2>2, <3>3, <3>4, Placed DEF Continue
  <2>3. CASE \/ Continue(r, "toolFailed", <<Decided("deny")>>)
             \/ Continue(r, "toolFailed", <<Event("approval.expired")>>)
             \/ Continue(r, "toolFailed", <<>>)
    BY <2>1, <2>3, Plain
  <2> QED BY <1>5, <2>2, <2>3 DEF Decision
<1>6. CASE Approve(r)
  <2>1. daemon = "up" /\ log' = log /\ daemon' = daemon /\ todo[r] = <<>> /\ pc[r] = "approve"
    BY <1>6 DEF Approve, At, Unchanged1
  <2>2. CASE Continue(r, "attempt2", <<Second>>)
    <3>1. Sound(log[r] \o <<Second>>) /\ EndsAt("attempt2", log[r] \o <<Second>>)
      BY <1>1, <2>1, Retried DEF EndsAt
    <3>2. <<Second>> \in Seq(Events)
      BY One, CallEvents
    <3> HIDE DEF Second
    <3> QED BY <2>1, <2>2, <3>1, <3>2, Placed DEF Continue
  <2>3. CASE Continue(r, "toolFailed", <<>>)
    BY <2>1, <2>3, Plain
  <2> QED BY <1>6, <2>2, <2>3 DEF Approve, Second
<1> QED BY <1>2, <1>3, <1>4, <1>5, <1>6

\* An append that rejects drops what was on its way.
LEMMA Throwing ==
    ASSUME IInv, NEW r \in Runs, LoopThrows(r) \/ StreamThrows(r)
    PROVE  IInv'
<1>1. CASE LoopThrows(r)
  <2>1. daemon = "up" /\ log' = log /\ daemon' = daemon
    BY <1>1 DEF LoopThrows, AppendRejects
  <2> QED BY <1>1, <2>1, Plain, Listed DEF LoopThrows
<1>2. CASE StreamThrows(r)
  <2>1. daemon = "up" /\ log' = log /\ daemon' = daemon
    BY <1>2 DEF StreamThrows, AppendRejects
  <2>2. CASE Continue(r, "finally", Ending("cancelled"))
    BY <2>1, <2>2, Plain, Endings
  <2>3. CASE Continue(r, "finally", todo[r])
    <3>1. todo[r] \in Seq(Events) /\ Sound(log[r] \o todo[r])
      BY DEF IInv, Types, Consent, Whole
    <3>2. EndsAt("finally", log[r] \o todo[r])
      BY DEF EndsAt
    <3> QED BY <2>1, <2>3, <3>1, <3>2, Placed DEF Continue
  <2> QED BY <1>2, <2>2, <2>3 DEF StreamThrows
<1> QED BY <1>1, <1>2

\* The event store makes the next event durable.
LEMMA Appending == ASSUME IInv, NEW r \in Runs, Append1(r) PROVE IInv'
<1>1. log[r] \in Seq(Events) /\ todo[r] \in Seq(Events) /\ todo[r] # <<>>
  BY DEF IInv, Types, Append1
<1>2. /\ log' = [log EXCEPT ![r] = Append(log[r], Head(todo[r]))]
      /\ todo' = [todo EXCEPT ![r] = Tail(todo[r])]
      /\ pc' = pc /\ daemon' = daemon
  BY DEF Append1, NoChangeButLog
<1>3. /\ Append(log[r], Head(todo[r])) \in Seq(Events) /\ Tail(todo[r]) \in Seq(Events)
      /\ Append(log[r], Head(todo[r])) \o Tail(todo[r]) = log[r] \o todo[r]
  BY <1>1, Moved
<1>4. Types'
  BY <1>2, <1>3 DEF IInv, Types
<1>5. ASSUME NEW q \in Runs PROVE log'[q] \o todo'[q] = log[q] \o todo[q]
  <2>1. CASE q = r
    BY <1>2, <1>3, <2>1 DEF IInv, Types
  <2>2. CASE q # r
    <3>1. log'[q] = log[q] /\ todo'[q] = todo[q]
      BY <1>2, <2>2 DEF IInv, Types
    <3> QED BY <3>1
  <2> QED BY <2>1, <2>2
<1>6. Consent'
  <2> SUFFICES ASSUME NEW q \in Runs PROVE (Sound(Whole(q)) /\ EndsAt(pc[q], Whole(q)))'
    BY DEF Consent
  <2>1. Sound(log[q] \o todo[q]) /\ EndsAt(pc[q], log[q] \o todo[q])
    BY DEF IInv, Consent, Whole
  <2>2. Sound(log'[q] \o todo'[q]) /\ EndsAt(pc'[q], log'[q] \o todo'[q])
    BY <1>2, <1>5, <2>1
  <2> QED BY <2>2 DEF Whole, Sound, EndsAt
<1> QED BY <1>2, <1>4, <1>6 DEF IInv, NoLoops

\* A crash leaves the durable logs.
LEMMA Crashing == ASSUME IInv, Crash PROVE IInv'
<1>1. /\ log' = log /\ pc' = [r \in Runs |-> "none"] /\ todo' = [r \in Runs |-> <<>>]
  BY DEF Crash
<1>2. Types'
  BY <1>1 DEF IInv, Types
<1>3. Consent'
  <2> SUFFICES ASSUME NEW q \in Runs PROVE (Sound(Whole(q)) /\ EndsAt(pc[q], Whole(q)))'
    BY DEF Consent
  <2>1. log[q] \in Seq(Events) /\ Sound(log[q])
    BY Durable
  <2>2. log'[q] \o todo'[q] = log[q] /\ pc'[q] = "none"
    BY <1>1, <2>1, Nothing
  <2>3. Sound(log'[q] \o todo'[q]) /\ EndsAt(pc'[q], log'[q] \o todo'[q])
    BY <2>1, <2>2 DEF EndsAt
  <2> QED BY <2>3 DEF Whole, Sound, EndsAt
<1> QED BY <1>1, <1>2, <1>3 DEF IInv, NoLoops

\* Recovery appends to the log of a run that has no loop.
LEMMA Recovering == ASSUME IInv, NEW r \in Runs, Recover(r) PROVE IInv'
<1> USE OtherEvents, Listed
<1>1. PICK t \in Seq(Harmless) : todo' = [todo EXCEPT ![r] = t]
  BY DEF Recover
<1>2. log' = log /\ pc' = pc /\ daemon' = daemon /\ \A q \in Runs : pc[q] = "none"
  BY DEF Recover, IInv, NoLoops
<1>3. t \in Seq(Events) /\ Sound(log[r] \o t)
  BY Durable, Extended, HarmlessSeq
<1>4. Types'
  BY <1>1, <1>2, <1>3 DEF IInv, Types
<1>5. Consent'
  <2> SUFFICES ASSUME NEW q \in Runs PROVE (Sound(Whole(q)) /\ EndsAt(pc[q], Whole(q)))'
    BY DEF Consent
  <2>1. Sound(log[q] \o todo[q])
    BY DEF IInv, Consent, Whole
  <2>2. Sound(log'[q] \o todo'[q])
    <3>1. CASE q = r
      BY <1>1, <1>2, <1>3, <3>1 DEF IInv, Types
    <3>2. CASE q # r
      <4>1. log'[q] = log[q] /\ todo'[q] = todo[q]
        BY <1>1, <1>2, <3>2 DEF IInv, Types
      <4> QED BY <2>1, <4>1
    <3> QED BY <3>1, <3>2
  <2>3. EndsAt(pc'[q], log'[q] \o todo'[q])
    BY <1>2 DEF EndsAt
  <2> QED BY <2>2, <2>3 DEF Whole, Sound, EndsAt
<1> QED BY <1>2, <1>4, <1>5 DEF IInv, NoLoops

\* Steps that touch neither logs nor loops.
LEMMA Aside ==
    ASSUME IInv, log' = log, todo' = todo, pc' = pc,
           daemon' = "up" \/ \A r \in Runs : pc[r] = "none" \/ daemon' = daemon
    PROVE  IInv'
BY DEF IInv, Types, Consent, NoLoops, Whole, Sound, EndsAt

-----------------------------------------------------------------------------
(* Theorems *)

\* The initial states satisfy the invariant.
LEMMA First == Init => IInv
<1> SUFFICES ASSUME Init PROVE IInv
  OBVIOUS
<1>1. Types
  BY DEF Init, Types
<1>2. ASSUME NEW r \in Runs PROVE Sound(Whole(r)) /\ EndsAt(pc[r], Whole(r))
  <2>1. Whole(r) = <<>> /\ pc[r] = "none"
    BY DEF Init, Whole
  <2> QED BY <2>1 DEF Sound, EndsAt
<1> QED BY <1>1, <1>2 DEF IInv, Consent, NoLoops, Init

\* Every step preserves the invariant.
LEMMA Step == IInv /\ [Next]_vars => IInv'
<1> SUFFICES ASSUME IInv, [Next]_vars PROVE IInv'
  OBVIOUS
<1>1. ASSUME NEW r \in Runs,
             Start(r) \/ StartThrows(r) \/ LoopStep(r) \/ Title(r) \/ LoopThrows(r)
               \/ StreamThrows(r) \/ Recover(r)
      PROVE  IInv'
  BY <1>1, Starting, Turning, Calling, Throwing, Appending, Recovering DEF LoopStep
<1>2. ASSUME NEW r \in Runs, Cancel(r) \/ Settle(r) PROVE IInv'
  BY <1>2, Aside DEF Cancel, Settle
<1>3. CASE Crash
  BY <1>3, Crashing
<1>4. CASE Boot \/ Listen
  BY <1>4, Aside DEF Boot, Listen, IInv, NoLoops
<1>5. CASE UNCHANGED vars
  BY <1>5, Aside DEF vars
<1> QED BY <1>1, <1>2, <1>3, <1>4, <1>5 DEF Next

\* In every log, on its way or durable, a second attempt of a tool call comes right
\* after the consent given to the first.
THEOREM Inductive == Spec => []IInv
BY First, Step, PTL DEF Spec

\* No tool call is tried a second time without consent (AgentLoop.executeToolCall):
\* the log shows the 'allow' right before it, and before that the request that the
\* first attempt of the same call led to.
THEOREM Consented == Spec => []RetryHasConsent
<1>1. IInv => RetryHasConsent
  <2> SUFFICES ASSUME IInv, NEW r \in Runs PROVE Sound(log[r])
    BY DEF RetryHasConsent, Sound, Second
  <2> QED BY Durable
<1> QED BY <1>1, Inductive, PTL

-----------------------------------------------------------------------------
(* The status and the closing of a log *)

\* A nonempty set of naturals has a least element.
LEMMA Least ==
    ASSUME NEW T, T \subseteq Nat, T # {}
    PROVE  \E m \in T : \A n \in T : m <= n
<1>1. PICK m \in T : \A n \in T : ~(<<n, m>> \in OpToRel(<, Nat))
  BY NatLessThanWellFounded, WFMin
<1>2. \A n \in T : ~(n < m)
  BY <1>1 DEF OpToRel
<1> QED BY <1>2

\* The status after n events, told from the status before the last of them.
Told(s, h, n) ==
    IF n = 0 THEN "created" ELSE IF NamesStatus(s[n]) THEN StatusIn(s[n]) ELSE h[n - 1]
Tells(s, h, n) == h = [i \in 0 .. n |-> Told(s, h, i)]

\* latestRunStatus() has a result for every log.
LEMMA Telling == ASSUME NEW s \in Seq(Events), NEW n \in Nat PROVE \E h : Tells(s, h, n)
<1> DEFINE Untold == {i \in Nat : \A h : ~Tells(s, h, i)}
<1> SUFFICES ASSUME Untold # {} PROVE FALSE
  OBVIOUS
<1>1. PICK m \in Untold : \A i \in Untold : m <= i
  BY Least
<1>2. m # 0
  <2> DEFINE h == [i \in 0 .. 0 |-> "created"]
  <2>1. Tells(s, h, 0)
    BY DEF Tells, Told
  <2> QED BY <1>1, <2>1
<1>3. m - 1 \in Nat /\ m - 1 \notin Untold
  BY <1>1, <1>2
<1>4. PICK g : Tells(s, g, m - 1)
  BY <1>3
<1> DEFINE h == [i \in 0 .. m |-> Told(s, g, i)]
<1>5. \A i \in 0 .. m - 1 : h[i] = g[i]
  BY <1>1, <1>4 DEF Tells
<1>6. \A i \in 0 .. m : Told(s, h, i) = Told(s, g, i)
  <2> SUFFICES ASSUME NEW i \in 0 .. m PROVE Told(s, h, i) = Told(s, g, i)
    OBVIOUS
  <2>1. i # 0 => i - 1 \in 0 .. m - 1
    BY <1>1
  <2> HIDE DEF h
  <2> QED BY <1>5, <2>1 DEF Told
<1>7. Tells(s, h, m)
  BY <1>6 DEF Tells
<1> QED BY <1>1, <1>7

\* latestRunStatus() looks at the events one by one.
LEMMA StatusLoop == ASSUME NEW s \in Seq(Events) PROVE Tells(s, StatusAfter(s), Len(s))
<1>1. PICK h : Tells(s, h, Len(s))
  BY Telling
<1>2. StatusAfter(s) = CHOOSE f : Tells(s, f, Len(s))
  BY DEF StatusAfter, Tells, Told
<1> QED BY <1>1, <1>2

\* An event appended to a log changes its status to the one it names, and the status of
\* an empty log to 'created'.
LEMMA StatusGrows ==
    ASSUME NEW s \in Seq(Events), NEW e \in Events
    PROVE  StatusOf(Append(s, e)) = IF NamesStatus(e) THEN StatusIn(e)
                                    ELSE IF s = <<>> THEN "created" ELSE StatusOf(s)
<1> DEFINE w == Append(s, e)
           F == StatusAfter(w)
           G == StatusAfter(s)
<1>1. /\ w \in Seq(Events) /\ Len(s) \in Nat /\ Len(w) = Len(s) + 1 /\ w # <<>>
      /\ w[Len(s) + 1] = e /\ \A n \in 1 .. Len(s) : w[n] = s[n]
      /\ (s = <<>> <=> Len(s) = 0)
  OBVIOUS
<1>2. Tells(w, F, Len(s) + 1) /\ Tells(s, G, Len(s))
  BY <1>1, StatusLoop
<1> HIDE DEF w, F, G
<1>3. /\ \A n \in 0 .. Len(s) + 1 : F[n] = Told(w, F, n)
      /\ \A n \in 0 .. Len(s) : G[n] = Told(s, G, n)
  BY <1>2 DEF Tells
<1>4. \A n \in 0 .. Len(s) : F[n] = G[n]
  <2> DEFINE D == {n \in 0 .. Len(s) : F[n] # G[n]}
  <2> SUFFICES ASSUME D # {} PROVE FALSE
    OBVIOUS
  <2>1. D \subseteq Nat
    BY <1>1
  <2>2. PICK m \in D : \A n \in D : m <= n
    BY <2>1, Least
  <2>3. m \in 0 .. Len(s) /\ m \in 0 .. Len(s) + 1 /\ F[m] # G[m]
    BY <1>1, <2>2
  <2>4. m # 0
    BY <1>3, <2>3 DEF Told
  <2>5. m - 1 \in 0 .. Len(s) /\ m - 1 \notin D
    BY <1>1, <2>2, <2>3, <2>4
  <2>6. F[m - 1] = G[m - 1] /\ w[m] = s[m]
    BY <1>1, <2>3, <2>4, <2>5
  <2> HIDE DEF D
  <2> QED BY <1>3, <2>3, <2>4, <2>6 DEF Told
<1>5. F[Len(s) + 1] = IF NamesStatus(e) THEN StatusIn(e) ELSE F[Len(s)]
  <2>1. Len(s) + 1 \in 0 .. Len(s) + 1 /\ Len(s) + 1 # 0 /\ Len(s) + 1 - 1 = Len(s)
    BY <1>1
  <2> QED BY <1>1, <1>3, <2>1 DEF Told
<1>6. F[Len(s)] = G[Len(s)] /\ (Len(s) = 0 => G[Len(s)] = "created")
  <2>1. Len(s) \in 0 .. Len(s)
    BY <1>1
  <2> QED BY <1>3, <1>4, <2>1 DEF Told
<1>7. StatusOf(w) = F[Len(s) + 1] /\ (s # <<>> => StatusOf(s) = G[Len(s)])
  BY <1>1 DEF StatusOf, F, G
<1> QED BY <1>1, <1>5, <1>6, <1>7 DEF w

\* The statuses a run can have, with "none" for no run, and those it can end in.
Final == {"completed", "failed", "cancelled", "needs-recovery"}
Open == {"created", "queued", "planning", "executing", "waiting-approval", "cancelling"}

\* An event that closes nothing leaves a log as closed as it was.
LEMMA StillClosed ==
    ASSUME NEW s \in Seq(Events), NEW e \in Events, ~Closes(e)
    PROVE  ClosedAs(Append(s, e)) = ClosedAs(s)
<1> DEFINE w == Append(s, e)
           last == CHOOSE n \in Closings(s) : TRUE
<1>1. /\ Len(s) \in Nat /\ Len(w) = Len(s) + 1
      /\ w[Len(s) + 1] = e /\ \A n \in 1 .. Len(s) : w[n] = s[n]
  OBVIOUS
<1> HIDE DEF w
<1>2. Closings(w) = Closings(s) /\ \A n \in Closings(s) : w[n] = s[n]
  <2>1. \A n \in 1 .. Len(w) : n \in 1 .. Len(s) \/ n = Len(s) + 1
    BY <1>1
  <2> QED BY <1>1, <2>1 DEF Closings
<1>3. Closings(s) # {} => w[last] = s[last]
  BY <1>2
<1>4. ClosedAs(w) = IF Closings(s) = {} THEN "none"
                    ELSE IF \E m, n \in Closings(s) : m # n THEN "twice" ELSE ClosesAs(w[last])
  BY <1>2 DEF ClosedAs
<1>5. ClosedAs(s) = IF Closings(s) = {} THEN "none"
                    ELSE IF \E m, n \in Closings(s) : m # n THEN "twice" ELSE ClosesAs(s[last])
  BY DEF ClosedAs
<1> HIDE DEF last
<1>6. ClosedAs(w) = ClosedAs(s)
  <2>1. CASE Closings(s) = {}
    BY <1>4, <1>5, <2>1
  <2>2. CASE Closings(s) # {}
    <3>1. ClosesAs(w[last]) = ClosesAs(s[last])
      BY <1>3, <2>2
    <3> QED BY <1>4, <1>5, <3>1
  <2> QED BY <2>1, <2>2
<1> QED BY <1>6 DEF w

\* The first final event closes a log as what it names.
LEMMA NowClosed ==
    ASSUME NEW s \in Seq(Events), NEW x \in Final, FinalEvent(x) \in Events,
           ClosedAs(s) = "none"
    PROVE  ClosedAs(Append(s, FinalEvent(x))) = x
<1> DEFINE e == FinalEvent(x)
           w == Append(s, e)
<1>1. /\ Len(s) \in Nat /\ Len(w) = Len(s) + 1
      /\ w[Len(s) + 1] = e /\ \A n \in 1 .. Len(s) : w[n] = s[n]
  OBVIOUS
<1>2. Closes(e)
  BY DEF FinalEvent, Closes, Event, Final
<1>3. Closings(s) = {}
  BY DEF ClosedAs, ClosesAs
<1>4. Closings(w) = {Len(s) + 1}
  <2> HIDE DEF w, e
  <2>1. \A n \in 1 .. Len(w) : n \in 1 .. Len(s) \/ n = Len(s) + 1
    BY <1>1
  <2>2. Len(s) + 1 \in 1 .. Len(w)
    BY <1>1
  <2> QED BY <1>1, <1>2, <1>3, <2>1, <2>2 DEF Closings
<1> HIDE DEF w, e
<1>5. ClosedAs(w) = ClosesAs(w[Len(s) + 1])
  <2>1. (CHOOSE n \in {Len(s) + 1} : TRUE) = Len(s) + 1
    OBVIOUS
  <2> QED BY <1>4, <2>1 DEF ClosedAs
<1>6. ClosesAs(e) = x
  BY DEF ClosesAs, Final, e, FinalEvent, Event
<1> QED BY <1>1, <1>5, <1>6 DEF w, e

-----------------------------------------------------------------------------
(* The contract of a log *)

\* What event e makes of a run with status s that is closed as c.
StatusBy(s, e) == IF NamesStatus(e) THEN StatusIn(e) ELSE IF s = "none" THEN "created" ELSE s
ClosedBy(s, c, e) == IF Closes(e) THEN s ELSE c

\* The events the contract allows next.
Allowed(s, c, e) ==
    \/ s = "none" /\ e = Event("run.created")
    \/ e.type = "run.status" /\ e.arg \in Contract!Transitions(s)
    \/ s \in Final /\ c = "none" /\ e = FinalEvent(s)
    \/ s # "none" /\ ~NamesStatus(e) /\ ~Closes(e)

\* The status and closing a loop finds when it goes on at label l; a "lost" run's is
\* left as a crash found it.
Fits(l, s, c) ==
    /\ l = "none" => s \in Final \cup {"none"}
    /\ l = "recalling" => s = "none"
    /\ l \in {"queued", "acquiring"} => s = "queued"
    /\ l = "turn" => s = "planning"
    /\ l \in {"model", "call", "attempt1", "approve", "attempt2"} => s = "executing"
    /\ l = "decision" => s = "waiting-approval"
    /\ l = "toolFailed" => s \in {"executing", "waiting-approval"}
    /\ l \in {"finally", "inStream", "ended", "titled"} => s \in Final \ {"needs-recovery"}

\* Events t lead, one allowed step at a time, to where the loop can go on at l.
Leads0(l, s, c, t) == t = <<>> /\ Fits(l, s, c)
Leads1(l, s, c, t) ==
    \/ Leads0(l, s, c, t)
    \/ t # <<>> /\ Allowed(s, c, Head(t))
                /\ Leads0(l, StatusBy(s, Head(t)), ClosedBy(s, c, Head(t)), Tail(t))
Leads2(l, s, c, t) ==
    \/ Leads1(l, s, c, t)
    \/ t # <<>> /\ Allowed(s, c, Head(t))
                /\ Leads1(l, StatusBy(s, Head(t)), ClosedBy(s, c, Head(t)), Tail(t))
Leads(l, s, c, t) ==
    \/ Leads2(l, s, c, t)
    \/ t # <<>> /\ Allowed(s, c, Head(t))
                /\ Leads2(l, StatusBy(s, Head(t)), ClosedBy(s, c, Head(t)), Tail(t))

\* A run nobody looks after: the daemon is down, or has not come to it in recovery.
Place(r) == IF daemon = "down" \/ r \in scan THEN "lost" ELSE pc[r]

LoopPlaces == {"queued", "acquiring", "turn", "model", "call", "attempt1", "attempt2",
               "decision", "approve", "toolFailed", "finally", "inStream"}
Places == LoopPlaces \cup {"none", "recalling", "ended", "titled", "dead"}

\* What the stream's try block has left to append of an ending.
StreamTodo(s, t) ==
    \/ s = "executing" /\ t \in {Ending("failed"), Ending("cancelled")}
    \/ s = "cancelling" /\ t = EndingDirect("cancelled")
    \/ t = <<>> \/ \E f \in Final : t = <<FinalEvent(f)>>

Story(r) ==
    LET s == StatusNow(r)
        c == ClosedAs(log[r])
    IN  /\ Leads(Place(r), s, c, todo[r])
        /\ c # "none" => s \in Final /\ c = s
        /\ pc[r] = "inStream" => StreamTodo(s, todo[r])
        /\ pc[r] \in {"recalling", "ended", "dead"} => todo[r] = <<>>
        /\ daemon = "up" /\ pc[r] = "none" => todo[r] = <<>>
        /\ pc[r] = "titled" => s \in Final
        /\ s = "none" <=> log[r] = <<>>
        /\ s \in Final \cup Open \cup {"none"}

CInv ==
    /\ pc \in [Runs -> Places]
    /\ scan \subseteq Runs
    /\ daemon # "recovering" => scan = {}
    /\ \A r \in scan : log[r] # <<>> /\ todo[r] = <<>>
    /\ \A r \in Runs : Story(r)
    /\ daemon = "down" => \A r \in Runs : todo[r] = <<>>

\* A loop that has nothing left to append finds the status and the closing of its place.
LEMMA Here ==
    ASSUME CInv, NEW r \in Runs, todo[r] = <<>>
    PROVE  /\ Fits(Place(r), StatusNow(r), ClosedAs(log[r]))
           /\ StatusNow(r) \notin Final => ClosedAs(log[r]) = "none"
BY DEF CInv, Story, Leads, Leads2, Leads1, Leads0

\* Nothing to append, and one, two or three events, lead where they should.
LEMMA LeadsNowhere == ASSUME NEW l, NEW s, NEW c, Fits(l, s, c) PROVE Leads(l, s, c, <<>>)
BY DEF Leads, Leads2, Leads1, Leads0

\* One event.
LEMMA LeadsByOne ==
    ASSUME NEW l, NEW s, NEW c, NEW a, Allowed(s, c, a),
           Fits(l, StatusBy(s, a), ClosedBy(s, c, a))
    PROVE  Leads(l, s, c, <<a>>)
<1>1. <<a>> # <<>> /\ Head(<<a>>) = a /\ Tail(<<a>>) = <<>>
  OBVIOUS
<1> QED BY <1>1 DEF Leads, Leads2, Leads1, Leads0

\* Two events.
LEMMA LeadsByTwo ==
    ASSUME NEW l, NEW s, NEW c, NEW a, NEW b, Allowed(s, c, a),
           NEW s1, s1 = StatusBy(s, a), NEW c1, c1 = ClosedBy(s, c, a), Allowed(s1, c1, b),
           Fits(l, StatusBy(s1, b), ClosedBy(s1, c1, b))
    PROVE  Leads(l, s, c, <<a, b>>)
<1>1. <<a, b>> # <<>> /\ Head(<<a, b>>) = a /\ Tail(<<a, b>>) = <<b>>
  OBVIOUS
<1>2. <<b>> # <<>> /\ Head(<<b>>) = b /\ Tail(<<b>>) = <<>>
  OBVIOUS
<1>3. Leads1(l, s1, c1, <<b>>)
  BY <1>2 DEF Leads1, Leads0
<1> QED BY <1>1, <1>3 DEF Leads, Leads2

\* Three events.
LEMMA LeadsByThree ==
    ASSUME NEW l, NEW s, NEW c, NEW a, NEW b, NEW d, Allowed(s, c, a),
           NEW s1, s1 = StatusBy(s, a), NEW c1, c1 = ClosedBy(s, c, a), Allowed(s1, c1, b),
           NEW s2, s2 = StatusBy(s1, b), NEW c2, c2 = ClosedBy(s1, c1, b), Allowed(s2, c2, d),
           Fits(l, StatusBy(s2, d), ClosedBy(s2, c2, d))
    PROVE  Leads(l, s, c, <<a, b, d>>)
<1>1. <<a, b, d>> # <<>> /\ Head(<<a, b, d>>) = a /\ Tail(<<a, b, d>>) = <<b, d>>
  OBVIOUS
<1>2. <<b, d>> # <<>> /\ Head(<<b, d>>) = b /\ Tail(<<b, d>>) = <<d>>
  OBVIOUS
<1>3. <<d>> # <<>> /\ Head(<<d>>) = d /\ Tail(<<d>>) = <<>>
  OBVIOUS
<1>4. Leads1(l, s2, c2, <<d>>)
  BY <1>3 DEF Leads1, Leads0
<1>5. Leads2(l, s1, c1, <<b, d>>)
  BY <1>2, <1>4 DEF Leads2
<1> QED BY <1>1, <1>5 DEF Leads

\* The next event is allowed, and what follows it leads on.
LEMMA LeadsOn ==
    ASSUME NEW l, NEW s, NEW c, NEW t, Leads(l, s, c, t), t # <<>>
    PROVE  /\ Allowed(s, c, Head(t))
           /\ Leads(l, StatusBy(s, Head(t)), ClosedBy(s, c, Head(t)), Tail(t))
BY DEF Leads, Leads2, Leads1, Leads0

\* The entries of TRANSITIONS a loop and recovery use.
LEMMA Table ==
    /\ "queued" \in Contract!Transitions("created")
    /\ "planning" \in Contract!Transitions("queued")
    /\ "executing" \in Contract!Transitions("planning")
    /\ "planning" \in Contract!Transitions("executing")
    /\ "waiting-approval" \in Contract!Transitions("executing")
    /\ "executing" \in Contract!Transitions("waiting-approval")
    /\ "completed" \in Contract!Transitions("executing")
    /\ \A s \in {"created", "queued", "executing", "waiting-approval"} :
          "failed" \in Contract!Transitions(s)
    /\ \A s \in {"queued", "planning", "executing", "waiting-approval"} :
          "cancelling" \in Contract!Transitions(s)
    /\ "cancelled" \in Contract!Transitions("cancelling")
    /\ \A s \in {"created", "queued", "planning", "executing", "waiting-approval",
                  "cancelling"} : "needs-recovery" \in Contract!Transitions(s)
BY DEF Contract!Transitions

\* No status is entered after a final one, nor before 'created'.
LEMMA NoWayOut == \A s \in Final \cup {"none"} : Contract!Transitions(s) = {}
BY DEF Contract!Transitions, Final

\* Where TRANSITIONS leads.
LEMMA Targets ==
    ASSUME NEW s, NEW x \in Contract!Transitions(s)
    PROVE  x \in Final \cup Open \cup {"timed-out"}
<1>1. CASE s \notin Open
  <2>1. Contract!Transitions(s) = {}
    BY <1>1 DEF Contract!Transitions, Open
  <2> QED BY <2>1
<1>2. CASE s \in Open
  <2>1. /\ Contract!Transitions("created") = {"queued", "failed", "needs-recovery"}
        /\ Contract!Transitions("queued") = {"planning", "cancelling", "failed", "needs-recovery"}
    BY DEF Contract!Transitions
  <2>2. /\ Contract!Transitions("planning")
             = {"executing", "waiting-approval", "cancelling", "failed", "timed-out",
                "needs-recovery"}
        /\ Contract!Transitions("executing")
             = {"planning", "waiting-approval", "cancelling", "completed", "failed",
                "timed-out", "needs-recovery"}
    BY DEF Contract!Transitions
  <2>3. /\ Contract!Transitions("waiting-approval")
             = {"executing", "cancelling", "failed", "timed-out", "needs-recovery"}
        /\ Contract!Transitions("cancelling") = {"cancelled", "failed", "needs-recovery"}
    BY DEF Contract!Transitions
  <2> QED BY <1>2, <2>1, <2>2, <2>3 DEF Final, Open
<1> QED BY <1>1, <1>2

\* What a status change and a final event do.
LEMMA Moves ==
    /\ \A s, c, x : /\ x \in Contract!Transitions(s) => Allowed(s, c, Status(x))
                    /\ StatusBy(s, Status(x)) = x
                    /\ ClosedBy(s, c, Status(x)) = c
    /\ \A x \in Final : /\ Allowed(x, "none", FinalEvent(x))
                        /\ StatusBy(x, FinalEvent(x)) = x
                        /\ ClosedBy(x, "none", FinalEvent(x)) = x
BY DEF Allowed, StatusBy, ClosedBy, NamesStatus, StatusIn, Closes, Status, FinalEvent, Event, Final

\* What the other events do.
LEMMA Others ==
    /\ \A c : /\ Allowed("none", c, Event("run.created"))
              /\ StatusBy("none", Event("run.created")) = "created"
              /\ ClosedBy("none", c, Event("run.created")) = c
    /\ \A s, c : \A e \in {ToolStarted("first"), ToolStarted("second"), Decided("allow"),
                           Decided("deny"), Event("approval.required"),
                           Event("approval.expired"), Event("run.titled")} :
          s # "none" => Allowed(s, c, e) /\ StatusBy(s, e) = s /\ ClosedBy(s, c, e) = c
<1>1. ASSUME NEW c
      PROVE  /\ Allowed("none", c, Event("run.created"))
             /\ StatusBy("none", Event("run.created")) = "created"
             /\ ClosedBy("none", c, Event("run.created")) = c
  BY DEF Allowed, StatusBy, ClosedBy, NamesStatus, Closes, Event
<1>2. ASSUME NEW s, NEW c, NEW e, s # "none",
             e.type \in {"tool.started", "approval.decided", "approval.required",
                         "approval.expired", "run.titled"}
      PROVE  Allowed(s, c, e) /\ StatusBy(s, e) = s /\ ClosedBy(s, c, e) = c
  BY <1>2 DEF Allowed, StatusBy, ClosedBy, NamesStatus, Closes
<1>3. /\ ToolStarted("first").type = "tool.started" /\ ToolStarted("second").type = "tool.started"
      /\ Decided("allow").type = "approval.decided" /\ Decided("deny").type = "approval.decided"
      /\ Event("approval.required").type = "approval.required"
      /\ Event("approval.expired").type = "approval.expired"
      /\ Event("run.titled").type = "run.titled"
  BY DEF ToolStarted, Decided, Event
<1> QED BY <1>1, <1>2, <1>3

\* One event before two.
LEMMA Joined ==
    ASSUME NEW A, NEW a \in A, NEW b \in A, NEW d \in A
    PROVE  <<a>> \o <<b, d>> = <<a, b, d>>
<1> DEFINE u == <<a>> \o <<b, d>>
           v == <<a, b, d>>
<1>1. u \in Seq(A) /\ v \in Seq(A) /\ Len(u) = 3 /\ Len(v) = 3
  OBVIOUS
<1>2. u[1] = v[1] /\ u[2] = v[2] /\ u[3] = v[3]
  OBVIOUS
<1> HIDE DEF u, v
<1>3. \A n \in 1 .. Len(u) : u[n] = v[n]
  BY <1>1, <1>2
<1>4. u = v
  BY <1>1, <1>3, SeqEqual
<1> QED BY <1>4 DEF u, v

\* An ending leads to the finally block, from wherever a loop may begin it.
LEMMA EndingLeads ==
    ASSUME NEW s, NEW x, NEW l \in {"finally", "inStream"},
           \/ x = "failed" /\ s \in {"created", "queued", "executing", "waiting-approval"}
           \/ x = "cancelled" /\ s \in {"queued", "planning", "executing", "waiting-approval"}
           \/ x = "completed" /\ s = "executing"
    PROVE  Leads(l, s, "none", Ending(x))
<1>0. Fits(l, x, x) /\ x \in Final
  BY DEF Fits, Final
<1>1. CASE x = "cancelled"
  <2>1. Ending(x) = <<Status("cancelling"), Status("cancelled"), FinalEvent("cancelled")>>
    <3>1. Ending("cancelled")
            = <<Status("cancelling")>> \o <<Status("cancelled"), FinalEvent("cancelled")>>
      BY DEF Ending
    <3> QED BY <1>1, <3>1, Joined
  <2>2. Allowed(s, "none", Status("cancelling")) /\ Allowed("cancelling", "none", Status("cancelled"))
    BY <1>1, Moves, Table
  <2> QED BY <1>0, <1>1, <2>1, <2>2, Moves, LeadsByThree
<1>2. CASE x # "cancelled"
  <2>1. Ending(x) = <<Status(x), FinalEvent(x)>>
    BY <1>2 DEF Ending
  <2>2. Allowed(s, "none", Status(x))
    BY <1>2, Moves, Table
  <2> QED BY <1>0, <2>1, <2>2, Moves, LeadsByTwo
<1> QED BY <1>1, <1>2

\* A step that takes the loop of r to label l with events t to append.
LEMMA Onward ==
    ASSUME Types, CInv, NEW r \in Runs, NEW l \in Places, NEW t, daemon = "up",
           Continue(r, l, t), log' = log, daemon' = daemon, scan' = scan,
           Leads(l, StatusNow(r), ClosedAs(log[r]), t),
           l = "inStream" => StreamTodo(StatusNow(r), t),
           l \in {"none", "recalling", "ended", "dead"} => t = <<>>,
           l = "titled" => StatusNow(r) \in Final
    PROVE  CInv'
<1>1. /\ pc' = [pc EXCEPT ![r] = l] /\ todo' = [todo EXCEPT ![r] = t]
      /\ pc \in [Runs -> Places] /\ DOMAIN todo = Runs /\ scan = {}
  BY DEF Continue, CInv, Types
<1>2. ASSUME NEW q \in Runs PROVE Story(q)'
  <2>1. Story(q) /\ StatusNow(q)' = StatusNow(q) /\ ClosedAs(log'[q]) = ClosedAs(log[q])
    BY DEF CInv, StatusNow
  <2>2. CASE q = r
    <3>1. pc'[q] = l /\ todo'[q] = t /\ Place(q)' = l
      BY <1>1, <2>2 DEF Place
    <3> QED BY <2>1, <2>2, <3>1 DEF Story
  <2>3. CASE q # r
    <3>1. pc'[q] = pc[q] /\ todo'[q] = todo[q] /\ Place(q)' = Place(q)
      BY <1>1, <2>3 DEF Place
    <3> QED BY <2>1, <3>1 DEF Story
  <2> QED BY <2>2, <2>3
<1>3. pc' \in [Runs -> Places]
  BY <1>1
<1> QED BY <1>1, <1>2, <1>3 DEF CInv

\* What a loop finds when its step has been appended and it goes on at l.
LEMMA Found ==
    ASSUME CInv, NEW r \in Runs, NEW l, At(r, l)
    PROVE  /\ Fits(l, StatusNow(r), ClosedAs(log[r]))
           /\ StatusNow(r) \notin Final => ClosedAs(log[r]) = "none"
           /\ daemon = "up"
<1>1. todo[r] = <<>> /\ Place(r) = l /\ daemon = "up"
  BY DEF At, Place, CInv
<1> QED BY <1>1, Here

\* The steps up to the first turn keep to the contract.
LEMMA ContractStarting ==
    ASSUME Types, CInv, NEW r \in Runs,
           Start(r) \/ StartThrows(r) \/ Begin(r) \/ Acquire(r) \/ Acquired(r) \/ Title(r)
    PROVE  CInv'
<1> DEFINE s == StatusNow(r)
           c == ClosedAs(log[r])
<1>1. CASE Start(r)
  <2>1. s = "none"
    BY <1>1 DEF Start, StatusNow, StatusOf
  <2>2. Leads("recalling", s, c, <<>>)
    BY <2>1, LeadsNowhere DEF Fits
  <2> QED BY <1>1, <2>2, Onward DEF Start, Places
<1>2. CASE StartThrows(r)
  <2>1. s = "none" /\ daemon = "up"
    BY <1>2, Found DEF StartThrows, Fits
  <2>2. Leads("none", s, c, <<>>)
    BY <2>1, LeadsNowhere DEF Fits
  <2> QED BY <1>2, <2>1, <2>2, Onward DEF StartThrows, Places
<1>3. CASE Begin(r)
  <2>1. s = "none" /\ c = "none" /\ daemon = "up"
    BY <1>3, Found DEF Begin, Fits, Final
  <2>2. log' = log /\ daemon' = daemon /\ scan' = scan
    BY <1>3 DEF Begin, Unchanged1
  <2>3. CASE Continue(r, "queued", <<Event("run.created"), Status("queued")>>)
    <3>1. Leads("queued", s, c, <<Event("run.created"), Status("queued")>>)
      BY <2>1, Others, Moves, Table, LeadsByTwo DEF Fits
    <3> QED BY <2>1, <2>2, <2>3, <3>1, Onward DEF Places, LoopPlaces
  <2>4. CASE Continue(r, "finally", <<Event("run.created")>> \o Ending("failed"))
    <3> DEFINE t == <<Event("run.created"), Status("failed"), FinalEvent("failed")>>
    <3>1. <<Event("run.created")>> \o Ending("failed") = t
      <4> DEFINE a == Event("run.created")
                 b == Status("failed")
                 d == FinalEvent("failed")
      <4>1. Ending("failed") = <<b, d>>
        BY DEF Ending
      <4> HIDE DEF a, b, d
      <4>2. <<a>> \o <<b, d>> = <<a, b, d>>
        BY Joined, a \in {a, b, d}, b \in {a, b, d}, d \in {a, b, d}
      <4> QED BY <4>1, <4>2 DEF a, b, d
    <3>2. "failed" \in Final /\ Fits("finally", "failed", "failed")
      BY DEF Final, Fits
    <3>3. Leads("finally", s, c, t)
      BY <2>1, <3>2, Others, Moves, Table, LeadsByThree
    <3>4. Continue(r, "finally", t)
      BY <2>4, <3>1
    <3> HIDE DEF t
    <3> QED BY <2>1, <2>2, <3>3, <3>4, Onward DEF Places, LoopPlaces
  <2> QED BY <1>3, <2>3, <2>4 DEF Begin
<1>4. CASE Acquire(r)
  <2>1. s = "queued" /\ c = "none" /\ daemon = "up"
    BY <1>4, Found DEF Acquire, Fits, Final
  <2>2. log' = log /\ daemon' = daemon /\ scan' = scan
    BY <1>4 DEF Acquire, Unchanged1
  <2>3. \/ Continue(r, "finally", Ending("cancelled")) \/ Continue(r, "finally", Ending("failed"))
        \/ Continue(r, "acquiring", <<>>)
    BY <1>4 DEF Acquire, Cancelled, Fail
  <2>4. Leads("finally", s, c, Ending("cancelled")) /\ Leads("finally", s, c, Ending("failed"))
    BY <2>1, EndingLeads
  <2>5. Leads("acquiring", s, c, <<>>)
    BY <2>1, LeadsNowhere DEF Fits
  <2> QED BY <2>1, <2>2, <2>3, <2>4, <2>5, Onward DEF Places, LoopPlaces
<1>5. CASE Acquired(r)
  <2>1. s = "queued" /\ c = "none" /\ daemon = "up"
    BY <1>5, Found DEF Acquired, Fits, Final
  <2>2. log' = log /\ daemon' = daemon /\ scan' = scan
    BY <1>5 DEF Acquired, Unchanged1
  <2>3. \/ Continue(r, "finally", Ending("cancelled")) \/ Continue(r, "turn", <<Status("planning")>>)
    BY <1>5 DEF Acquired, Cancelled
  <2>4. Leads("finally", s, c, Ending("cancelled"))
    BY <2>1, EndingLeads
  <2>5. Leads("turn", s, c, <<Status("planning")>>)
    BY <2>1, Moves, Table, LeadsByOne DEF Fits
  <2> QED BY <2>1, <2>2, <2>3, <2>4, <2>5, Onward DEF Places, LoopPlaces
<1>6. CASE Title(r)
  <2>1. daemon = "up" /\ log' = log /\ daemon' = daemon /\ scan' = scan /\ s = "completed"
    BY <1>6 DEF Title, At, Unchanged1
  <2>2. Fits("titled", s, c)
    BY <2>1 DEF Fits, Final
  <2>3. Leads("titled", s, c, <<Event("run.titled")>>)
    BY <2>1, <2>2, Others, LeadsByOne
  <2> QED BY <1>6, <2>1, <2>3, Onward DEF Title, Places, Final
<1> QED BY <1>1, <1>2, <1>3, <1>4, <1>5, <1>6

\* Turns and the end of a loop keep to the contract.
LEMMA ContractTurning ==
    ASSUME Types, CInv, NEW r \in Runs,
           BeginTurn(r) \/ ModelAnswers(r) \/ EndTurn(r) \/ ToolFailed(r) \/ Finish(r)
    PROVE  CInv'
<1> DEFINE s == StatusNow(r)
           c == ClosedAs(log[r])
<1>1. CASE BeginTurn(r)
  <2>1. s = "planning" /\ c = "none" /\ daemon = "up"
    BY <1>1, Found DEF BeginTurn, Fits, Final
  <2>2. log' = log /\ daemon' = daemon /\ scan' = scan
    BY <1>1 DEF BeginTurn
  <2>3. \/ Continue(r, "finally", Ending("cancelled")) \/ Continue(r, "model", <<Status("executing")>>)
    BY <1>1 DEF BeginTurn, Cancelled
  <2>4. Leads("finally", s, c, Ending("cancelled"))
    BY <2>1, EndingLeads
  <2>5. Leads("model", s, c, <<Status("executing")>>)
    BY <2>1, Moves, Table, LeadsByOne DEF Fits
  <2> QED BY <2>1, <2>2, <2>3, <2>4, <2>5, Onward DEF Places, LoopPlaces
<1>2. CASE ModelAnswers(r)
  <2>1. s = "executing" /\ c = "none" /\ daemon = "up"
    BY <1>2, Found DEF ModelAnswers, Fits, Final
  <2>2. log' = log /\ daemon' = daemon /\ scan' = scan
    BY <1>2 DEF ModelAnswers
  <2>3. \/ \E l \in {"inStream", "finally"}, x \in {"failed", "cancelled"} : Continue(r, l, Ending(x))
        \/ Continue(r, "finally", Ending("completed"))
        \/ Continue(r, "call", <<>>)
    BY <1>2 DEF ModelAnswers, Fail
  <2>4. /\ \A l \in {"inStream", "finally"}, x \in {"failed", "cancelled"} : Leads(l, s, c, Ending(x))
        /\ Leads("finally", s, c, Ending("completed"))
    BY <2>1, EndingLeads
  <2>5. Leads("call", s, c, <<>>)
    BY <2>1, LeadsNowhere DEF Fits
  <2>6. \A x \in {"failed", "cancelled"} : StreamTodo(s, Ending(x))
    BY <2>1 DEF StreamTodo
  <2>7. ASSUME NEW l \in {"inStream", "finally"}, NEW x \in {"failed", "cancelled"},
               Continue(r, l, Ending(x))
        PROVE  CInv'
    BY <2>1, <2>2, <2>4, <2>6, <2>7, Onward DEF Places, LoopPlaces
  <2>8. CASE Continue(r, "finally", Ending("completed"))
    BY <2>1, <2>2, <2>4, <2>8, Onward DEF Places, LoopPlaces
  <2>9. CASE Continue(r, "call", <<>>)
    BY <2>1, <2>2, <2>5, <2>9, Onward DEF Places, LoopPlaces
  <2> QED BY <2>3, <2>7, <2>8, <2>9
<1>3. CASE EndTurn(r)
  <2>1. s = "executing" /\ c = "none" /\ daemon = "up"
    BY <1>3, Found DEF EndTurn, Fits, Final
  <2>2. log' = log /\ daemon' = daemon /\ scan' = scan
    BY <1>3 DEF EndTurn, Unchanged1
  <2>3. \/ Continue(r, "finally", Ending("failed")) \/ Continue(r, "turn", <<Status("planning")>>)
    BY <1>3 DEF EndTurn, Fail
  <2>4. Leads("finally", s, c, Ending("failed"))
    BY <2>1, EndingLeads
  <2>5. Leads("turn", s, c, <<Status("planning")>>)
    BY <2>1, Moves, Table, LeadsByOne DEF Fits
  <2> QED BY <2>1, <2>2, <2>3, <2>4, <2>5, Onward DEF Places, LoopPlaces
<1>4. CASE ToolFailed(r)
  <2>1. s \in {"executing", "waiting-approval"} /\ c = "none" /\ daemon = "up"
    BY <1>4, Found DEF ToolFailed, Fits, Final
  <2>2. log' = log /\ daemon' = daemon /\ scan' = scan
    BY <1>4 DEF ToolFailed, Unchanged1
  <2>3. \/ Continue(r, "finally", Ending("failed")) \/ Continue(r, "finally", Ending("cancelled"))
    BY <1>4 DEF ToolFailed, Fail, Cancelled
  <2>4. Leads("finally", s, c, Ending("failed")) /\ Leads("finally", s, c, Ending("cancelled"))
    BY <2>1, EndingLeads
  <2> QED BY <2>1, <2>2, <2>3, <2>4, Onward DEF Places, LoopPlaces
<1>5. CASE Finish(r)
  <2>1. PICK l \in {"finally", "inStream"} : At(r, l)
    BY <1>5 DEF Finish
  <2>2. Fits("ended", s, c) /\ daemon = "up"
    BY <2>1, Found DEF Fits
  <2>3. log' = log /\ daemon' = daemon /\ scan' = scan /\ Continue(r, "ended", <<>>)
    BY <1>5 DEF Finish
  <2> QED BY <2>2, <2>3, LeadsNowhere, Onward DEF Places
<1> QED BY <1>1, <1>2, <1>3, <1>4, <1>5

\* Tool calls and consent keep to the contract.
LEMMA ContractCalling ==
    ASSUME Types, CInv, NEW r \in Runs,
           CallTool(r) \/ Execute(r) \/ RequireApproval(r) \/ Decision(r) \/ Approve(r)
    PROVE  CInv'
<1> DEFINE s == StatusNow(r)
           c == ClosedAs(log[r])
<1>1. CASE CallTool(r)
  <2>1. s = "executing" /\ daemon = "up"
    BY <1>1, Found DEF CallTool, Fits
  <2>2. log' = log /\ daemon' = daemon /\ scan' = scan
    BY <1>1 DEF CallTool
  <2>3. Continue(r, "attempt1", <<ToolStarted("first")>>) \/ Continue(r, "call", <<>>)
    BY <1>1 DEF CallTool, CallDone
  <2>4. Leads("attempt1", s, c, <<ToolStarted("first")>>)
    BY <2>1, Others, LeadsByOne DEF Fits
  <2>5. Leads("call", s, c, <<>>)
    BY <2>1, LeadsNowhere DEF Fits
  <2> QED BY <2>1, <2>2, <2>3, <2>4, <2>5, Onward DEF Places, LoopPlaces
<1>2. CASE Execute(r)
  <2>1. s = "executing" /\ daemon = "up"
    BY <1>2, Found DEF Execute, Fits
  <2>2. log' = log /\ daemon' = daemon /\ scan' = scan
    BY <1>2 DEF Execute
  <2>3. Continue(r, "call", <<>>) \/ Continue(r, "toolFailed", <<>>)
    BY <1>2 DEF Execute, CallDone
  <2>4. Leads("call", s, c, <<>>) /\ Leads("toolFailed", s, c, <<>>)
    BY <2>1, LeadsNowhere DEF Fits
  <2> QED BY <2>1, <2>2, <2>3, <2>4, Onward DEF Places, LoopPlaces
<1>3. CASE RequireApproval(r)
  <2>1. s = "executing" /\ daemon = "up"
    BY <1>3, Found DEF RequireApproval, Fits
  <2>2. log' = log /\ daemon' = daemon /\ scan' = scan
    BY <1>3 DEF RequireApproval, Unchanged1
  <2>3. \/ Continue(r, "decision", <<Event("approval.required"), Status("waiting-approval")>>)
        \/ Continue(r, "toolFailed", <<Event("approval.required")>>)
    BY <1>3 DEF RequireApproval
  <2>4. Leads("decision", s, c, <<Event("approval.required"), Status("waiting-approval")>>)
    BY <2>1, Others, Moves, Table, LeadsByTwo DEF Fits
  <2>5. Leads("toolFailed", s, c, <<Event("approval.required")>>)
    BY <2>1, Others, LeadsByOne DEF Fits
  <2> QED BY <2>1, <2>2, <2>3, <2>4, <2>5, Onward DEF Places, LoopPlaces
<1>4. CASE Decision(r)
  <2>1. s = "waiting-approval" /\ daemon = "up"
    BY <1>4, Found DEF Decision, Fits
  <2>2. log' = log /\ daemon' = daemon /\ scan' = scan
    BY <1>4 DEF Decision, Unchanged1
  <2>3. \/ Continue(r, "approve", <<Decided("allow"), Status("executing")>>)
        \/ Continue(r, "toolFailed", <<Decided("deny")>>)
        \/ Continue(r, "toolFailed", <<Event("approval.expired")>>)
        \/ Continue(r, "toolFailed", <<>>)
    BY <1>4 DEF Decision
  <2>4. Leads("approve", s, c, <<Decided("allow"), Status("executing")>>)
    BY <2>1, Others, Moves, Table, LeadsByTwo DEF Fits
  <2>5. /\ Leads("toolFailed", s, c, <<Decided("deny")>>)
        /\ Leads("toolFailed", s, c, <<Event("approval.expired")>>)
    BY <2>1, Others, LeadsByOne DEF Fits
  <2>6. Leads("toolFailed", s, c, <<>>)
    BY <2>1, LeadsNowhere DEF Fits
  <2> QED BY <2>1, <2>2, <2>3, <2>4, <2>5, <2>6, Onward DEF Places, LoopPlaces
<1>5. CASE Approve(r)
  <2>1. s = "executing" /\ daemon = "up"
    BY <1>5, Found DEF Approve, Fits
  <2>2. log' = log /\ daemon' = daemon /\ scan' = scan
    BY <1>5 DEF Approve, Unchanged1
  <2>3. \/ Continue(r, "attempt2", <<ToolStarted("second")>>) \/ Continue(r, "toolFailed", <<>>)
    BY <1>5 DEF Approve
  <2>4. Leads("attempt2", s, c, <<ToolStarted("second")>>)
    BY <2>1, Others, LeadsByOne DEF Fits
  <2>5. Leads("toolFailed", s, c, <<>>)
    BY <2>1, LeadsNowhere DEF Fits
  <2> QED BY <2>1, <2>2, <2>3, <2>4, <2>5, Onward DEF Places, LoopPlaces
<1> QED BY <1>1, <1>2, <1>3, <1>4, <1>5

\* An ending begins with the status change it is named for, or 'cancelling'.
LEMMA EndingIs ==
    /\ Ending("failed") # <<>> /\ Head(Ending("failed")) = Status("failed")
    /\ Tail(Ending("failed")) = <<FinalEvent("failed")>>
    /\ Ending("cancelled") # <<>> /\ Head(Ending("cancelled")) = Status("cancelling")
    /\ Tail(Ending("cancelled")) = EndingDirect("cancelled")
    /\ EndingDirect("cancelled") # <<>> /\ Head(EndingDirect("cancelled")) = Status("cancelled")
    /\ Tail(EndingDirect("cancelled")) = <<FinalEvent("cancelled")>>
<1> DEFINE a == Status("cancelling")
           b == Status("cancelled")
           d == FinalEvent("cancelled")
           f == Status("failed")
           g == FinalEvent("failed")
<1>1. Ending("failed") = <<f, g>>
  BY DEF Ending
<1>2. Ending("cancelled") = <<a>> \o <<b, d>>
  BY DEF Ending
<1>3. EndingDirect("cancelled") = <<b, d>>
  BY DEF EndingDirect
<1> HIDE DEF a, b, d, f, g
<1>4. <<a>> \o <<b, d>> = <<a, b, d>>
  BY Joined, a \in {a, b, d}, b \in {a, b, d}, d \in {a, b, d}
<1>5. /\ <<f, g>> # <<>> /\ Head(<<f, g>>) = f /\ Tail(<<f, g>>) = <<g>>
      /\ <<a, b, d>> # <<>> /\ Head(<<a, b, d>>) = a /\ Tail(<<a, b, d>>) = <<b, d>>
      /\ <<b, d>> # <<>> /\ Head(<<b, d>>) = b /\ Tail(<<b, d>>) = <<d>>
  OBVIOUS
<1> QED BY <1>1, <1>2, <1>3, <1>4, <1>5 DEF a, b, d, f, g

\* A failed append keeps to the contract: the loop stops, or the stream cancels the run.
LEMMA ContractThrowing ==
    ASSUME Types, CInv, NEW r \in Runs, LoopThrows(r) \/ StreamThrows(r)
    PROVE  CInv'
<1> DEFINE s == StatusNow(r)
           c == ClosedAs(log[r])
<1>1. CASE LoopThrows(r)
  <2>1. /\ log' = log /\ daemon' = daemon /\ scan' = scan /\ daemon = "up"
        /\ Continue(r, "dead", <<>>)
    BY <1>1 DEF LoopThrows, AppendRejects
  <2>2. Leads("dead", s, c, <<>>)
    BY LeadsNowhere DEF Fits
  <2> QED BY <2>1, <2>2, Onward DEF Places
<1>2. CASE StreamThrows(r)
  <2>1. /\ log' = log /\ daemon' = daemon /\ scan' = scan /\ daemon = "up"
        /\ pc[r] = "inStream" /\ Head(todo[r]).type = "run.status" /\ todo[r] # <<>>
        /\ Continue(r, "finally",
              IF Head(todo[r]) = Status("cancelled") THEN todo[r] ELSE Ending("cancelled"))
    BY <1>2 DEF StreamThrows, AppendRejects, CaughtByStream
  <2>2. StreamTodo(s, todo[r])
    BY <2>1 DEF CInv, Story
  <2>3. \A f \in Final : <<FinalEvent(f)>> # todo[r]
    <3>1. \A f : FinalEvent(f).type # "run.status"
      BY DEF FinalEvent, Event
    <3>2. \A e : Head(<<e>>) = e
      OBVIOUS
    <3> QED BY <2>1, <3>1, <3>2
  <2>4. \/ s = "executing" /\ todo[r] \in {Ending("failed"), Ending("cancelled")}
        \/ s = "cancelling" /\ todo[r] = EndingDirect("cancelled")
    BY <2>1, <2>2, <2>3 DEF StreamTodo
  <2>5. c = "none"
    BY <2>4 DEF CInv, Story, Final
  <2>6. CASE s = "executing" /\ todo[r] \in {Ending("failed"), Ending("cancelled")}
    <3>1. Head(todo[r]) # Status("cancelled")
      BY <2>6, EndingIs DEF Status
    <3>2. Leads("finally", s, c, Ending("cancelled"))
      BY <2>5, <2>6, EndingLeads
    <3> QED BY <2>1, <3>1, <3>2, Onward DEF Places, LoopPlaces
  <2>7. CASE s = "cancelling" /\ todo[r] = EndingDirect("cancelled")
    <3>1. Continue(r, "finally", EndingDirect("cancelled"))
      BY <2>1, <2>7, EndingIs
    <3>2. "cancelled" \in Final /\ Fits("finally", "cancelled", "cancelled")
      BY DEF Final, Fits
    <3>3. Leads("finally", s, c, <<Status("cancelled"), FinalEvent("cancelled")>>)
      BY <2>5, <2>7, <3>2, Moves, Table, LeadsByTwo
    <3>4. Leads("finally", s, c, EndingDirect("cancelled"))
      BY <3>3 DEF EndingDirect
    <3> QED BY <2>1, <3>1, <3>4, Onward DEF Places, LoopPlaces
  <2> QED BY <2>4, <2>6, <2>7
<1> QED BY <1>1, <1>2

\* What the contract allows, one durable event makes of a run's status and closing.
LEMMA OneEvent ==
    ASSUME Types, CInv, NEW r \in Runs, Append1(r),
           NEW e, e = Head(todo[r]),
           NEW s, s = StatusNow(r), NEW c, c = ClosedAs(log[r])
    PROVE  /\ e \in Events /\ Allowed(s, c, e)
           /\ Leads(Place(r), StatusBy(s, e), ClosedBy(s, c, e), Tail(todo[r]))
           /\ StatusNow(r)' = StatusBy(s, e) /\ ClosedAs(log'[r]) = ClosedBy(s, c, e)
           /\ log'[r] # <<>>
<1>1. log[r] \in Seq(Events) /\ todo[r] \in Seq(Events) /\ todo[r] # <<>> /\ e \in Events
  BY DEF Types, Append1
<1>2. log'[r] = Append(log[r], e) /\ log'[r] # <<>>
  <2>1. log'[r] = Append(log[r], Head(todo[r]))
    BY DEF Append1, Types
  <2>2. Append(log[r], e) # <<>>
    BY <1>1
  <2> QED BY <2>1, <2>2
<1>3. Allowed(s, c, e) /\ Leads(Place(r), StatusBy(s, e), ClosedBy(s, c, e), Tail(todo[r]))
  BY <1>1, LeadsOn DEF CInv, Story
<1>4. StatusNow(r)' = StatusBy(s, e)
  <2>1. s = "none" <=> log[r] = <<>>
    BY DEF CInv, Story
  <2>2. StatusOf(log'[r]) = IF NamesStatus(e) THEN StatusIn(e)
                            ELSE IF log[r] = <<>> THEN "created" ELSE StatusOf(log[r])
    BY <1>1, <1>2, StatusGrows
  <2> QED BY <2>1, <2>2 DEF StatusNow, StatusBy
<1>5. ClosedAs(log'[r]) = ClosedBy(s, c, e)
  <2>1. CASE Closes(e)
    <3>1. s \in Final /\ c = "none" /\ e = FinalEvent(s)
      <4>1. e.type # "run.created" /\ e.type # "run.status"
        BY <2>1 DEF Closes
      <4>2. Event("run.created").type = "run.created"
        BY DEF Event
      <4> QED BY <1>3, <2>1, <4>1, <4>2 DEF Allowed
    <3> QED BY <1>1, <1>2, <2>1, <3>1, NowClosed DEF ClosedBy
  <2>2. CASE ~Closes(e)
    BY <1>1, <1>2, <2>2, StillClosed DEF ClosedBy
  <2> QED BY <2>1, <2>2
<1> QED BY <1>1, <1>2, <1>3, <1>4, <1>5

\* A final status stays, and no event takes a run back to none.
LEMMA FinalStays ==
    ASSUME NEW s, NEW c, NEW e \in Events, Allowed(s, c, e), s \in Final \cup Open \cup {"none"}
    PROVE  /\ s \in Final => StatusBy(s, e) = s
           /\ StatusBy(s, e) \in Final \cup Open
           /\ c # "none" /\ c = s /\ s \in Final => ClosedBy(s, c, e) = c
           /\ c = "none" => ClosedBy(s, c, e) = "none" \/ (s \in Final /\ ClosedBy(s, c, e) = s)
<1>1. CASE s = "none" /\ e = Event("run.created")
  BY <1>1, Others DEF Final, Open
<1>2. CASE e.type = "run.status" /\ e.arg \in Contract!Transitions(s)
  <2>1. s \notin Final /\ s # "none"
    BY <1>2, NoWayOut
  <2>2. StatusBy(s, e) = e.arg /\ ClosedBy(s, c, e) = c
    BY <1>2 DEF StatusBy, ClosedBy, NamesStatus, StatusIn, Closes
  <2>3. e.arg # "timed-out"
    BY DEF Events
  <2>4. e.arg \in Final \cup Open \cup {"timed-out"}
    BY <1>2, Targets
  <2> QED BY <1>2, <2>1, <2>2, <2>3, <2>4
<1>3. CASE s \in Final /\ c = "none" /\ e = FinalEvent(s)
  BY <1>3, Moves
<1>4. CASE s # "none" /\ ~NamesStatus(e) /\ ~Closes(e)
  BY <1>4 DEF StatusBy, ClosedBy
<1> QED BY <1>1, <1>2, <1>3, <1>4 DEF Allowed

\* A durable event keeps to the contract.
LEMMA ContractAppending == ASSUME Types, CInv, NEW r \in Runs, Append1(r) PROVE CInv'
<1> DEFINE s == StatusNow(r)
           c == ClosedAs(log[r])
           e == Head(todo[r])
<1>1. /\ todo[r] # <<>> /\ daemon # "down" /\ daemon' = daemon /\ scan' = scan /\ pc' = pc
      /\ todo' = [todo EXCEPT ![r] = Tail(todo[r])] /\ DOMAIN todo = Runs
      /\ \A q \in Runs \ {r} : log'[q] = log[q] /\ todo'[q] = todo[q]
      /\ todo'[r] = Tail(todo[r])
  BY DEF Append1, NoChangeButLog, Types
<1>2. /\ e \in Events /\ Allowed(s, c, e)
      /\ Leads(Place(r), StatusBy(s, e), ClosedBy(s, c, e), Tail(todo[r]))
      /\ StatusNow(r)' = StatusBy(s, e) /\ ClosedAs(log'[r]) = ClosedBy(s, c, e)
      /\ log'[r] # <<>>
  BY OneEvent
<1>3. Story(r) /\ r \notin scan
  BY <1>1 DEF CInv
<1>4. /\ s \in Final => StatusBy(s, e) = s
      /\ StatusBy(s, e) \in Final \cup Open
      /\ c # "none" /\ c = s /\ s \in Final => ClosedBy(s, c, e) = c
      /\ c = "none" => ClosedBy(s, c, e) = "none" \/ (s \in Final /\ ClosedBy(s, c, e) = s)
  BY <1>2, <1>3, FinalStays DEF Story
<1>5. pc[r] = "inStream" => StreamTodo(StatusBy(s, e), Tail(todo[r]))
  <2> SUFFICES ASSUME pc[r] = "inStream" PROVE StreamTodo(StatusBy(s, e), Tail(todo[r]))
    OBVIOUS
  <2>1. StreamTodo(s, todo[r])
    BY <1>3 DEF Story
  <2>2. "failed" \in Final /\ "cancelled" \in Final
    BY DEF Final
  <2>3. CASE todo[r] = Ending("failed") \/ todo[r] = EndingDirect("cancelled")
    BY <2>2, <2>3, EndingIs DEF StreamTodo
  <2>4. CASE todo[r] = Ending("cancelled")
    BY <2>4, EndingIs, Moves DEF StreamTodo
  <2>5. CASE \E f \in Final : todo[r] = <<FinalEvent(f)>>
    <3>1. \A x : Tail(<<x>>) = <<>>
      OBVIOUS
    <3> QED BY <2>5, <3>1 DEF StreamTodo
  <2> QED BY <1>1, <2>1, <2>3, <2>4, <2>5 DEF StreamTodo
<1>6. Story(r)'
  <2>1. Place(r)' = Place(r)
    BY <1>1 DEF Place
  <2>2. "none" \notin Final \cup Open
    BY DEF Final, Open
  <2> HIDE DEF s, c, e
  <2>3. s = StatusNow(r) /\ c = ClosedAs(log[r])
    BY DEF s, c
  <2>4. c # "none" => s \in Final /\ c = s
    BY <1>3, <2>3 DEF Story
  <2>5. ClosedBy(s, c, e) # "none" => StatusBy(s, e) \in Final /\ ClosedBy(s, c, e) = StatusBy(s, e)
    BY <1>4, <2>4
  <2>6. pc[r] \notin {"recalling", "ended", "dead"} /\ ~(daemon = "up" /\ pc[r] = "none")
    BY <1>1, <1>3 DEF Story
  <2>7. pc[r] = "titled" => StatusBy(s, e) \in Final
    BY <1>3, <1>4, <2>3 DEF Story
  <2> QED BY <1>1, <1>2, <1>4, <1>5, <2>1, <2>2, <2>5, <2>6, <2>7 DEF Story
<1>7. ASSUME NEW q \in Runs \ {r} PROVE Story(q)'
  <2>1. /\ Story(q) /\ StatusNow(q)' = StatusNow(q) /\ ClosedAs(log'[q]) = ClosedAs(log[q])
        /\ log'[q] = log[q]
        /\ todo'[q] = todo[q] /\ pc'[q] = pc[q] /\ Place(q)' = Place(q)
    BY <1>1 DEF CInv, StatusNow, Place
  <2> QED BY <1>1, <2>1 DEF Story
<1>8. \A q \in scan' : log'[q] # <<>> /\ todo'[q] = <<>>
  BY <1>1, <1>2, <1>3 DEF CInv
<1> QED BY <1>1, <1>6, <1>7, <1>8 DEF CInv

\* The rest of the manager's and the daemon's steps keep to the contract.
LEMMA ContractAround ==
    ASSUME IInv, CInv,
           \/ \E r \in Runs : Cancel(r) \/ Settle(r) \/ Recover(r)
           \/ Crash \/ Boot \/ Listen
    PROVE  CInv'
<1> USE DEF IInv
<1>1. ASSUME NEW r \in Runs, Cancel(r) \/ Settle(r) PROVE CInv'
  <2>1. /\ log' = log /\ daemon' = daemon /\ scan' = scan /\ pc' = pc /\ todo' = todo
    BY <1>1 DEF Cancel, Settle
  <2>2. \A q \in Runs : Story(q)'
    BY <2>1 DEF CInv, Story, StatusNow, Place
  <2> QED BY <2>1, <2>2 DEF CInv
<1>2. ASSUME NEW r \in Runs, Recover(r) PROVE CInv'
  <2> DEFINE s == StatusNow(r)
             c == ClosedAs(log[r])
             t == IF s \in EndedStatuses \cup {"needs-recovery"} THEN <<>>
                  ELSE <<Status("needs-recovery"), FinalEvent("needs-recovery")>>
  <2>1. /\ daemon = "recovering" /\ daemon' = daemon /\ r \in scan /\ scan' = scan \ {r}
        /\ \A q \in Runs : todo[q] = <<>>
        /\ log' = log /\ pc' = pc
    BY <1>2 DEF Recover
  <2>2. \A q \in Runs : todo'[q] = IF q = r THEN t ELSE todo[q]
    BY <1>2 DEF Recover, Types
  <2>3. /\ Story(r) /\ log[r] # <<>> /\ s # "none" /\ s \in Final \cup Open
        /\ s \notin Final => c = "none"
    BY <2>1 DEF CInv, Story
  <2>4. pc[r] = "none"
    BY <2>1 DEF NoLoops
  <2>5. Leads("none", s, c, t)
    <3>1. CASE s \in Final
      <4>1. t = <<>>
        BY <3>1 DEF Final, EndedStatuses
      <4>2. Fits("none", s, c)
        BY <3>1 DEF Fits
      <4> QED BY <4>1, <4>2, LeadsNowhere
    <3>2. CASE s \in Open
      <4>1. t = <<Status("needs-recovery"), FinalEvent("needs-recovery")>>
        BY <3>2 DEF Open, EndedStatuses
      <4>2. s \notin Final /\ c = "none"
        BY <2>3, <3>2 DEF Open, Final
      <4>3. Fits("none", "needs-recovery", "needs-recovery") /\ "needs-recovery" \in Final
        BY DEF Fits, Final
      <4>4. Allowed(s, c, Status("needs-recovery"))
        BY <3>2, Moves, Table DEF Open
      <4> HIDE DEF s, c, t
      <4>5. Leads("none", s, c, <<Status("needs-recovery"), FinalEvent("needs-recovery")>>)
        BY <4>2, <4>3, <4>4, Moves, LeadsByTwo
      <4> QED BY <4>1, <4>5
    <3> QED BY <2>3, <3>1, <3>2
  <2>6. Story(r)'
    <3>1. Place(r)' = "none" /\ pc'[r] = "none" /\ daemon' # "up" /\ todo'[r] = t
      BY <2>1, <2>2, <2>4 DEF Place
    <3>2. StatusNow(r)' = s /\ log'[r] = log[r]
      BY <2>1 DEF StatusNow
    <3> HIDE DEF t
    <3> QED BY <2>3, <2>5, <3>1, <3>2 DEF Story
  <2>7. ASSUME NEW q \in Runs \ {r} PROVE Story(q)'
    <3>1. /\ Place(q)' = Place(q) /\ todo'[q] = todo[q] /\ pc'[q] = pc[q]
          /\ StatusNow(q)' = StatusNow(q) /\ log'[q] = log[q] /\ Story(q)
      BY <2>1, <2>2 DEF Place, StatusNow, CInv
    <3> QED BY <2>1, <3>1 DEF Story
  <2>8. \A q \in scan' : log'[q] # <<>> /\ todo'[q] = <<>>
    BY <2>1, <2>2 DEF CInv
  <2> HIDE DEF t
  <2> QED BY <2>1, <2>6, <2>7, <2>8 DEF CInv
<1>3. CASE Crash
  <2>1. /\ log' = log /\ daemon' = "down" /\ scan' = {}
        /\ \A q \in Runs : pc'[q] = "none" /\ todo'[q] = <<>>
        /\ pc' = [q \in Runs |-> "none"]
    BY <1>3 DEF Crash
  <2>2. ASSUME NEW q \in Runs PROVE Story(q)'
    <3>1. Place(q)' = "lost" /\ StatusNow(q)' = StatusNow(q) /\ log'[q] = log[q] /\ Story(q)
      BY <2>1 DEF Place, StatusNow, CInv
    <3>2. Leads("lost", StatusNow(q), ClosedAs(log[q]), <<>>)
      BY LeadsNowhere DEF Fits
    <3> QED BY <2>1, <3>1, <3>2 DEF Story
  <2>3. pc' \in [Runs -> Places]
    BY <2>1 DEF Places
  <2> QED BY <2>1, <2>2, <2>3 DEF CInv
<1>4. CASE Boot
  <2>1. /\ log' = log /\ daemon = "down" /\ daemon' = "recovering" /\ pc' = pc /\ todo' = todo
        /\ scan' = {r \in Runs : log[r] # <<>>}
        /\ \A q \in Runs : pc[q] = "none" /\ todo[q] = <<>>
    BY <1>4 DEF Boot, NoLoops, CInv
  <2>2. ASSUME NEW q \in Runs PROVE Story(q)'
    <3>1. /\ Place(q)' = IF log[q] # <<>> THEN "lost" ELSE "none"
          /\ StatusNow(q)' = StatusNow(q) /\ Story(q)
      BY <2>1 DEF Place, StatusNow, CInv
    <3>2. Fits(Place(q)', StatusNow(q), ClosedAs(log[q]))
      <4>1. log[q] = <<>> => StatusNow(q) = "none"
        BY <3>1 DEF Story
      <4> QED BY <3>1, <4>1 DEF Fits
    <3>3. Leads(Place(q)', StatusNow(q), ClosedAs(log[q]), <<>>)
      BY <3>2, LeadsNowhere
    <3> QED BY <2>1, <3>1, <3>3 DEF Story
  <2> QED BY <2>1, <2>2 DEF CInv
<1>5. CASE Listen
  <2>1. /\ log' = log /\ daemon = "recovering" /\ daemon' = "up" /\ scan = {} /\ scan' = {}
        /\ pc' = pc /\ todo' = todo /\ \A q \in Runs : todo[q] = <<>>
    BY <1>5 DEF Listen
  <2>2. ASSUME NEW q \in Runs PROVE Story(q)'
    <3>1. Place(q)' = Place(q) /\ StatusNow(q)' = StatusNow(q) /\ Story(q)
      BY <2>1 DEF Place, StatusNow, CInv
    <3> QED BY <2>1, <3>1 DEF Story
  <2> QED BY <2>1, <2>2 DEF CInv
<1> QED BY <1>1, <1>2, <1>3, <1>4, <1>5

\* Before anything has run there is no log.
LEMMA ContractFirst == Init => CInv
<1> SUFFICES ASSUME Init PROVE CInv
  OBVIOUS
<1>1. /\ daemon = "up" /\ scan = {} /\ pc = [r \in Runs |-> "none"]
      /\ \A r \in Runs : pc[r] = "none" /\ todo[r] = <<>> /\ log[r] = <<>>
  BY DEF Init
<1>2. ASSUME NEW r \in Runs PROVE Story(r)
  <2>1. StatusNow(r) = "none"
    BY <1>1 DEF StatusNow, StatusOf
  <2>2. ClosedAs(log[r]) = "none"
    <3>1. Closings(<<>>) = {}
      BY DEF Closings
    <3> QED BY <1>1, <3>1 DEF ClosedAs
  <2>3. Leads("none", "none", "none", <<>>) /\ Place(r) = "none"
    BY <1>1, LeadsNowhere DEF Fits, Place
  <2> QED BY <1>1, <2>1, <2>2, <2>3 DEF Story
<1>3. pc \in [Runs -> Places]
  BY <1>1 DEF Places
<1> QED BY <1>1, <1>2, <1>3 DEF CInv

\* Every step keeps to the contract.
LEMMA ContractStep == IInv /\ CInv /\ [Next]_vars => CInv'
<1> SUFFICES ASSUME IInv, CInv, [Next]_vars PROVE CInv'
  OBVIOUS
<1>1. CASE UNCHANGED vars
  <2>1. log' = log /\ daemon' = daemon /\ scan' = scan /\ pc' = pc /\ todo' = todo
    BY <1>1 DEF vars
  <2>2. \A q \in Runs : Story(q)'
    BY <2>1 DEF CInv, Story, StatusNow, Place
  <2> QED BY <2>1, <2>2 DEF CInv
<1>2. ASSUME NEW r \in Runs,
             Start(r) \/ StartThrows(r) \/ Begin(r) \/ Acquire(r) \/ Acquired(r) \/ Title(r)
      PROVE  CInv'
  BY <1>2, ContractStarting DEF IInv
<1>3. ASSUME NEW r \in Runs,
             BeginTurn(r) \/ ModelAnswers(r) \/ EndTurn(r) \/ ToolFailed(r) \/ Finish(r)
      PROVE  CInv'
  BY <1>3, ContractTurning DEF IInv
<1>4. ASSUME NEW r \in Runs,
             CallTool(r) \/ Execute(r) \/ RequireApproval(r) \/ Decision(r) \/ Approve(r)
      PROVE  CInv'
  BY <1>4, ContractCalling DEF IInv
<1>5. ASSUME NEW r \in Runs, LoopThrows(r) \/ StreamThrows(r) PROVE CInv'
  BY <1>5, ContractThrowing DEF IInv
<1>6. ASSUME NEW r \in Runs, Append1(r) PROVE CInv'
  BY <1>6, ContractAppending DEF IInv
<1>7. ASSUME \/ \E r \in Runs : Cancel(r) \/ Settle(r) \/ Recover(r)
             \/ Crash \/ Boot \/ Listen
      PROVE  CInv'
  BY <1>7, ContractAround
<1> QED BY <1>1, <1>2, <1>3, <1>4, <1>5, <1>6, <1>7 DEF Next, LoopStep

\* What is in the log and on its way to it always follows the contract.
THEOREM ContractInductive == Spec => [](IInv /\ CInv)
<1>1. IInv /\ CInv /\ [Next]_vars => (IInv /\ CInv)'
  BY Step, ContractStep
<1>2. Init => IInv /\ CInv
  BY First, ContractFirst
<1> QED BY <1>1, <1>2, PTL DEF Spec

\* The daemon, its loops and recovery implement the contract of a run's log: along
\* TRANSITIONS only, and closed once, as what it ended in.
THEOREM Contracted == Spec => KeepsContract
<1> DEFINE status == [r \in Runs |-> StatusNow(r)]
           closed == [r \in Runs |-> ClosedAs(log[r])]
<1>1. Init => Contract!Init
  <2> SUFFICES ASSUME Init PROVE Contract!Init
    OBVIOUS
  <2>1. ASSUME NEW r \in Runs PROVE StatusNow(r) = "none" /\ ClosedAs(log[r]) = "none"
    <3>1. log[r] = <<>>
      BY DEF Init
    <3>2. Closings(<<>>) = {}
      BY DEF Closings
    <3> QED BY <3>1, <3>2 DEF StatusNow, StatusOf, ClosedAs
  <2> QED BY <2>1 DEF Contract!Init
<1>2. IInv /\ CInv /\ [Next]_vars => [Contract!Next]_(Contract!vars)
  <2> SUFFICES ASSUME IInv, CInv, [Next]_vars PROVE [Contract!Next]_(Contract!vars)
    OBVIOUS
  <2>1. CASE log' = log
    <3>1. status' = status /\ closed' = closed
      BY <2>1 DEF StatusNow
    <3> QED BY <3>1 DEF Contract!vars
  <2>2. ASSUME NEW r \in Runs, Append1(r) PROVE [Contract!Next]_(Contract!vars)
    <3> DEFINE s == StatusNow(r)
               c == ClosedAs(log[r])
               e == Head(todo[r])
    <3>1. /\ Allowed(s, c, e)
          /\ StatusNow(r)' = StatusBy(s, e) /\ ClosedAs(log'[r]) = ClosedBy(s, c, e)
      BY <2>2, OneEvent DEF IInv
    <3>2. \A q \in Runs \ {r} : log'[q] = log[q]
      BY <2>2 DEF Append1, IInv, Types
    <3>3. /\ status' = [status EXCEPT ![r] = StatusBy(s, e)]
          /\ closed' = [closed EXCEPT ![r] = ClosedBy(s, c, e)]
      BY <3>1, <3>2 DEF StatusNow
    <3>4. status[r] = s /\ closed[r] = c
      OBVIOUS
    <3> HIDE DEF s, c, e
    <3>5. CASE s = "none" /\ e = Event("run.created")
      <4>0. StatusBy(s, e) = "created" /\ ClosedBy(s, c, e) = c
        BY <3>5, Others
      <4>1. status' = [status EXCEPT ![r] = "created"] /\ closed' = closed
        BY <3>3, <3>4, <4>0
      <4> QED BY <3>4, <3>5, <4>1 DEF Contract!Next, Contract!Create
    <3>6. CASE e.type = "run.status" /\ e.arg \in Contract!Transitions(s)
      <4>1. StatusBy(s, e) = e.arg /\ ClosedBy(s, c, e) = c
        BY <3>6 DEF StatusBy, ClosedBy, NamesStatus, StatusIn, Closes
      <4>2. status' = [status EXCEPT ![r] = e.arg] /\ closed' = closed
        BY <3>3, <3>4, <4>1
      <4> QED BY <3>4, <3>6, <4>2 DEF Contract!Next, Contract!Move
    <3>7. CASE s \in Final /\ c = "none" /\ e = FinalEvent(s)
      <4>1. status' = status /\ closed' = [closed EXCEPT ![r] = s]
        BY <3>3, <3>4, <3>7, Moves
      <4>2. s \in Contract!Ended
        BY <3>7 DEF Contract!Ended, Final
      <4> QED BY <3>4, <3>7, <4>1, <4>2 DEF Contract!Next, Contract!Close
    <3>8. CASE s # "none" /\ ~NamesStatus(e) /\ ~Closes(e)
      <4>1. status' = status /\ closed' = closed
        BY <3>3, <3>4, <3>8 DEF StatusBy, ClosedBy
      <4> QED BY <4>1 DEF Contract!vars
    <3> QED BY <3>1, <3>5, <3>6, <3>7, <3>8 DEF Allowed
  <2>3. log' = log \/ \E r \in Runs : Append1(r)
    BY DEF Next, LoopStep, vars, Start, StartThrows, Begin, Acquire, Acquired, BeginTurn,
           ModelAnswers, EndTurn, CallTool, Execute, RequireApproval, Decision, Approve,
           ToolFailed, Finish, LoopThrows, StreamThrows, Title, Cancel, Settle, Recover,
           Crash, Boot, Listen, Unchanged1
  <2> QED BY <2>1, <2>2, <2>3
<1>3. Spec => Contract!Init /\ [][Contract!Next]_(Contract!vars)
  BY <1>1, <1>2, ContractInductive, PTL DEF Spec
<1> QED BY <1>3 DEF KeepsContract, Contract!Spec

-----------------------------------------------------------------------------
(* Leases *)

\* What is proved about the scheduler, for the requests of these runs.
SP == INSTANCE SchedulerProofs WITH Requests <- {Request[r] : r \in Runs}

\* The requests are what the scheduler assumes of them.
LEMMA RequestsFit == SP!SchedulerAssumption
BY RunLifecycleAssumption DEF SP!SchedulerAssumption

\* The scheduler of the proofs is the scheduler of the model.
LEMMA SameScheduler ==
    /\ S!Init <=> SP!Init
    /\ \A q : S!Acquire(q) <=> SP!Acquire(q)
    /\ \A l : S!Release(l) <=> SP!Release(l)
    /\ \A r : S!CancelQueued(r) <=> SP!CancelQueued(r)
    /\ S!TypeOK <=> SP!TypeOK
    /\ S!Outstanding = SP!Outstanding
<1>1. S!Init <=> SP!Init
  BY DEF S!Init, SP!Init
<1>2. ASSUME NEW q, NEW X PROVE S!CanGrant(q, X) <=> SP!CanGrant(q, X)
  <2>1. ASSUME NEW k PROVE S!Slots(X, k) = SP!Slots(X, k)
    BY DEF S!Slots, SP!Slots
  <2>2. ASSUME NEW Y PROVE S!Cardinality(Y) = SP!Cardinality(Y)
    BY DEF S!Cardinality, SP!Cardinality, S!IsFiniteSet, SP!IsFiniteSet
  <2>3. ASSUME NEW k PROVE S!Usage(X, k) = SP!Usage(X, k)
    BY <2>2, <2>1 DEF S!Usage, SP!Usage
  <2>4. \A e : S!WorkspaceConflicts(e.req, q) <=> SP!WorkspaceConflicts(e.req, q)
    BY DEF S!WorkspaceConflicts, SP!WorkspaceConflicts
  <2>5. \A k \in Kinds : S!Usage(X, k) + q.need[k] <= Capacity[k]
                           <=> SP!Usage(X, k) + q.need[k] <= Capacity[k]
    BY <2>3, Zenon
  <2> QED BY <2>2, <2>4, <2>5, Zenon DEF S!CanGrant, SP!CanGrant
<1>3. \A e, f : S!Before(e, f) <=> SP!Before(e, f)
  BY DEF S!Before, SP!Before
<1>4. ASSUME NEW q, NEW a PROVE S!Pump(q, a) <=> SP!Pump(q, a)
  <2>1. \A G : (\A e \in q : e \in G <=> S!CanGrant(e.req, a \cup {g \in G : S!Before(g, e)}))
               <=> (\A e \in q : e \in G <=> SP!CanGrant(e.req, a \cup {g \in G : SP!Before(g, e)}))
    BY <1>2, <1>3
  <2>2. ASSUME S!Pump(q, a) PROVE SP!Pump(q, a)
    <3>1. PICK G \in SUBSET q :
        /\ \A e \in q : e \in G <=> S!CanGrant(e.req, a \cup {g \in G : S!Before(g, e)})
        /\ queue' = q \ G
        /\ active' = a \cup G
        /\ granted' = granted \cup G
      BY <2>2 DEF S!Pump
    <3>2. \A e \in q : e \in G <=> SP!CanGrant(e.req, a \cup {g \in G : SP!Before(g, e)})
      BY <3>1, <2>1
    <3> QED BY <3>1, <3>2 DEF SP!Pump
  <2>3. ASSUME SP!Pump(q, a) PROVE S!Pump(q, a)
    <3>1. PICK G \in SUBSET q :
        /\ \A e \in q : e \in G <=> SP!CanGrant(e.req, a \cup {g \in G : SP!Before(g, e)})
        /\ queue' = q \ G
        /\ active' = a \cup G
        /\ granted' = granted \cup G
      BY <2>3 DEF SP!Pump
    <3>2. \A e \in q : e \in G <=> S!CanGrant(e.req, a \cup {g \in G : S!Before(g, e)})
      BY <3>1, <2>1
    <3> QED BY <3>1, <3>2 DEF S!Pump
  <2> QED BY <2>2, <2>3
<1>5. ASSUME NEW q PROVE S!Acquire(q) <=> SP!Acquire(q)
  BY <1>4 DEF S!Acquire, SP!Acquire, S!Known, SP!Known, S!CanEverGrant, SP!CanEverGrant
<1>6. ASSUME NEW q PROVE S!Release(q) <=> SP!Release(q)
  BY <1>4 DEF S!Release, SP!Release, S!Outstanding, SP!Outstanding
<1>7. ASSUME NEW q PROVE S!CancelQueued(q) <=> SP!CancelQueued(q)
  BY DEF S!CancelQueued, SP!CancelQueued
<1>8. S!TypeOK <=> SP!TypeOK
  BY DEF S!TypeOK, SP!TypeOK, S!Entry, SP!Entry
<1>9. S!Outstanding = SP!Outstanding
  BY DEF S!Outstanding, SP!Outstanding
<1> QED BY <1>1, <1>5, <1>6, <1>7, <1>8, <1>9

\* What the model asks of the scheduler leaves its books in order.
LEMMA Booked ==
    ASSUME SP!IInv,
           \/ \E r \in Runs : S!Acquire(Request[r]) \/ S!CancelQueued(r)
           \/ \E l \in S!Outstanding : S!Release(l)
           \/ UNCHANGED lease
    PROVE  SP!IInv'
<1>1. CASE \E r \in Runs : S!Acquire(Request[r]) \/ S!CancelQueued(r)
  <2>1. PICK r \in Runs : S!Acquire(Request[r]) \/ S!CancelQueued(r)
    BY <1>1
  <2>2. r \in {q.run : q \in {Request[x] : x \in Runs}}
    BY RunLifecycleAssumption
  <2>3. SP!Next
    BY <2>1, <2>2, SameScheduler DEF SP!Next
  <2> QED BY <2>3, SP!StepIInv, RequestsFit
<1>2. CASE \E l \in S!Outstanding : S!Release(l)
  <2>1. PICK l \in SP!Outstanding : SP!Release(l)
    BY <1>2, SameScheduler
  <2>2. SP!Next
    BY <2>1 DEF SP!Next, SP!Outstanding
  <2> QED BY <2>2, SP!StepIInv, RequestsFit
<1>3. CASE UNCHANGED lease
  <2>1. UNCHANGED SP!vars
    BY <1>3 DEF lease, SP!vars
  <2> QED BY <2>1, SP!StepIInv, RequestsFit
<1> QED BY <1>1, <1>2, <1>3

\* An empty scheduler's books are in order.
LEMMA EmptyBooks == SP!Init => SP!IInv
BY SP!InitIInv, RequestsFit

\* And so are those of the scheduler a crash leaves behind.
LEMMA EmptiedBooks == SP!Init' => SP!IInv'
BY EmptyBooks, PTL

\* Every step leaves the scheduler's books in order.
LEMMA BooksStep == ASSUME SP!IInv, [Next]_vars PROVE SP!IInv'
<1>1. CASE Crash
  <2>1. SP!Init'
    BY <1>1 DEF Crash, SP!Init
  <2> QED BY <2>1, EmptiedBooks
<1>2. ASSUME NEW r \in Runs, Acquire(r) \/ Cancel(r) PROVE SP!IInv'
  <2>1. S!Acquire(Request[r]) \/ S!CancelQueued(r) \/ UNCHANGED lease
    BY <1>2 DEF Acquire, Cancel
  <2> QED BY <2>1, Booked
<1>3. ASSUME NEW r \in Runs, Finish(r) \/ LoopThrows(r) PROVE SP!IInv'
  <2>1. ReleaseLease(r)
    BY <1>3 DEF Finish, LoopThrows
  <2>2. (\E l \in S!Outstanding : S!Release(l)) \/ UNCHANGED lease
    BY <2>1 DEF ReleaseLease
  <2> QED BY <2>2, Booked
<1>4. ASSUME NEW r \in Runs,
             \/ Start(r) \/ StartThrows(r) \/ Append1(r) \/ Begin(r) \/ Acquired(r)
             \/ BeginTurn(r) \/ ModelAnswers(r) \/ EndTurn(r)
      PROVE  SP!IInv'
  <2>1. UNCHANGED lease
    BY <1>4 DEF Start, StartThrows, Append1, NoChangeButLog, Begin, Acquired, BeginTurn,
                ModelAnswers, EndTurn
  <2> QED BY <2>1, Booked
<1>5. ASSUME NEW r \in Runs,
             \/ CallTool(r) \/ Execute(r) \/ RequireApproval(r) \/ Decision(r) \/ Approve(r)
             \/ ToolFailed(r) \/ StreamThrows(r) \/ Title(r) \/ Settle(r) \/ Recover(r)
      PROVE  SP!IInv'
  <2>1. UNCHANGED lease
    BY <1>5 DEF CallTool, Execute, RequireApproval, Decision, Approve, ToolFailed,
                StreamThrows, Title, Settle, Recover
  <2> QED BY <2>1, Booked
<1>6. CASE Boot \/ Listen \/ UNCHANGED vars
  <2>1. UNCHANGED lease
    BY <1>6 DEF Boot, Listen, vars
  <2> QED BY <2>1, Booked
<1> QED BY <1>1, <1>2, <1>3, <1>4, <1>5, <1>6 DEF Next, LoopStep

\* A run whose request is queued, and one whose lease is in force.
Waiting(r) == \E e \in queue : e.req.run = r
Holds(r) == \E e \in active : e.req.run = r

\* Where a loop has its lease.
Leased == {"turn", "model", "call", "attempt1", "attempt2", "decision", "approve",
           "toolFailed", "inStream"}

\* A request waits only while its loop does, and is not cancelled; a lease has a loop, a
\* loop past acquire() has a lease, and a loop can be cancelled.
Owns(r) ==
    /\ Waiting(r) => pc[r] = "acquiring" /\ todo[r] = <<>> /\ r \notin aborted
    /\ Holds(r) => pc[r] \in LoopPlaces
    /\ pc[r] \in Leased => Holds(r)
    /\ pc[r] \in LoopPlaces \cup {"recalling"} => r \in controllers

LInv == \A r \in Runs : Owns(r)

\* What the scheduler's books say of the runs.
LEMMA Books ==
    ASSUME SP!IInv
    PROVE  /\ \A e, f \in queue \cup active : e.req.run = f.req.run => e = f
           /\ queue \cap active = {} /\ active = S!Outstanding
           /\ \A e \in queue \cup active : e.req.run \in Runs /\ e.req = Request[e.req.run]
           /\ \A r : HoldsLease(r) <=> Holds(r)
<1>1. /\ \A e, f \in queue \cup active : e.req.run = f.req.run => e = f
      /\ active = SP!Outstanding
  BY DEF SP!IInv, SP!BooksAgree
<1>2. active \subseteq granted /\ queue \cap granted = {}
  BY <1>1 DEF SP!Outstanding, SP!IInv
<1>3. \A e \in queue \cup active : e.req \in {Request[r] : r \in Runs}
  BY DEF SP!IInv, SP!TypeOK, SP!Entry
<1>4. \A e \in queue \cup active : e.req.run \in Runs /\ e.req = Request[e.req.run]
  BY <1>3, RunLifecycleAssumption
<1>5. active = S!Outstanding
  BY <1>1, SameScheduler
<1> QED BY <1>1, <1>2, <1>4, <1>5 DEF HoldsLease, Holds

\* What a step on behalf of r leaves to the other runs: none waits anew, no lease is lost,
\* and a lease is new only for a run that waited.
Kept(r) ==
    \A q \in Runs \ {r} :
        /\ Waiting(q)' => Waiting(q)
        /\ Holds(q) => Holds(q)'
        /\ Holds(q)' => Holds(q) \/ Waiting(q)

\* acquire() keeps the others' requests and leases.
LEMMA AfterAcquire == ASSUME NEW r \in Runs, S!Acquire(Request[r]) PROVE Kept(r)
<1> DEFINE new == [order |-> order, req |-> Request[r]]
<1>1. PICK G \in SUBSET (queue \cup {new}) :
         queue' = (queue \cup {new}) \ G /\ active' = active \cup G
  BY DEF S!Acquire, S!Pump
<1>2. new.req.run = r
  BY RunLifecycleAssumption
<1> HIDE DEF new
<1> QED BY <1>1, <1>2 DEF Kept, Waiting, Holds

\* release() ends the lease of its run and keeps the others'.
LEMMA AfterRelease ==
    ASSUME SP!IInv, NEW r \in Runs, ~Waiting(r), ReleaseLease(r)
    PROVE  Kept(r) /\ ~Waiting(r)' /\ ~Holds(r)'
<1>1. CASE HoldsLease(r)
  <2>1. PICK l : l.req.run = r /\ S!Release(l)
    BY <1>1 DEF ReleaseLease
  <2> DEFINE rest == {e \in active : e.req.run # l.req.run}
  <2>2. PICK G \in SUBSET queue : queue' = queue \ G /\ active' = rest \cup G
    BY <2>1 DEF S!Release, S!Pump
  <2> QED BY <2>1, <2>2 DEF Kept, Waiting, Holds
<1>2. CASE ~HoldsLease(r)
  <2>1. queue' = queue /\ active' = active /\ ~Holds(r)
    BY <1>2, Books DEF ReleaseLease, lease
  <2> QED BY <2>1 DEF Kept, Waiting, Holds
<1> QED BY <1>1, <1>2

\* cancelQueued() takes the run's request off the queue and keeps the others'.
LEMMA AfterCancel ==
    ASSUME NEW r \in Runs, IF Waiting(r) THEN S!CancelQueued(r) ELSE UNCHANGED lease
    PROVE  Kept(r) /\ ~Waiting(r)' /\ (Holds(r)' <=> Holds(r))
<1>1. queue' = {e \in queue : e.req.run # r} /\ active' = active
  BY DEF S!CancelQueued, lease, Waiting
<1> QED BY <1>1 DEF Kept, Waiting, Holds

\* A step that asks nothing of the scheduler.
LEMMA AfterNothing ==
    ASSUME NEW r \in Runs, UNCHANGED lease
    PROVE  Kept(r) /\ (Waiting(r)' <=> Waiting(r)) /\ (Holds(r)' <=> Holds(r))
<1>1. queue' = queue /\ active' = active
  BY DEF lease
<1> QED BY <1>1 DEF Kept, Waiting, Holds

\* A step on behalf of r that leaves r's lease with its owner leaves all of them so.
LEMMA OthersOwn ==
    ASSUME LInv, NEW r \in Runs, Kept(r), Owns(r)',
           \A q \in Runs \ {r} : /\ pc'[q] = pc[q] /\ todo'[q] = todo[q]
                                 /\ q \in controllers' <=> q \in controllers
                                 /\ q \in aborted' <=> q \in aborted
    PROVE  LInv'
<1>1. ASSUME NEW q \in Runs \ {r} PROVE Owns(q)'
  <2>1. Owns(q)
    BY DEF LInv
  <2>2. /\ Waiting(q)' => Waiting(q)
        /\ Holds(q) => Holds(q)'
        /\ Holds(q)' => Holds(q) \/ Waiting(q)
    BY DEF Kept
  <2>3. "acquiring" \in LoopPlaces
    BY DEF LoopPlaces
  <2> QED BY <2>1, <2>2, <2>3 DEF Owns
<1> QED BY <1>1 DEF LInv

\* What Continue() does.
LEMMA Continues ==
    ASSUME Types, NEW r \in Runs, NEW l, NEW t, Continue(r, l, t)
    PROVE  /\ pc'[r] = l /\ todo'[r] = t
           /\ \A q \in Runs \ {r} : pc'[q] = pc[q] /\ todo'[q] = todo[q]
BY DEF Continue, Types

\* A step of a loop that asks nothing of the scheduler: from a place with a lease to
\* another or to the end, or from one without to another.
LEMMA KeepsLease ==
    ASSUME Types, LInv, NEW r \in Runs, NEW l, NEW t, Continue(r, l, t), UNCHANGED lease,
           controllers' = controllers, aborted' = aborted,
           ~Waiting(r),
           \/ pc[r] \in Leased /\ l \in Leased \cup {"finally"}
           \/ pc[r] \in {"queued", "acquiring"} /\ l = "finally"
           \/ pc[r] \in LoopPlaces /\ Holds(r) /\ l \in Leased
           \/ pc[r] = "recalling" /\ l \in {"none", "queued", "finally"}
           \/ pc[r] = "ended" /\ l = "titled"
    PROVE  LInv'
<1>1. /\ pc'[r] = l /\ todo'[r] = t
      /\ \A q \in Runs \ {r} : pc'[q] = pc[q] /\ todo'[q] = todo[q]
  BY Continues
<1>2. Kept(r) /\ ~Waiting(r)' /\ (Holds(r)' <=> Holds(r)) /\ Owns(r)
  BY AfterNothing DEF LInv
<1>3. Owns(r)'
  BY <1>1, <1>2 DEF Owns, Leased, LoopPlaces
<1> QED BY <1>1, <1>2, <1>3, OthersOwn

\* A run waits only at "acquiring", with nothing to append.
LEMMA NotWaiting ==
    ASSUME LInv, NEW r \in Runs, pc[r] # "acquiring" \/ todo[r] # <<>>
    PROVE  ~Waiting(r)
BY DEF LInv, Owns

\* Starting and acquiring.
LEMMA LeaseStarting ==
    ASSUME Types, SP!IInv, LInv, NEW r \in Runs,
           Start(r) \/ StartThrows(r) \/ Begin(r) \/ Acquire(r) \/ Acquired(r) \/ Title(r)
    PROVE  LInv'
<1>1. CASE Start(r)
  <2>1. /\ pc'[r] = "recalling" /\ controllers' = controllers \cup {r} /\ r \notin controllers
        /\ \A q \in Runs \ {r} : pc'[q] = pc[q] /\ todo'[q] = todo[q]
        /\ aborted' = aborted /\ UNCHANGED lease
    BY <1>1, Continues DEF Start
  <2>2. Owns(r) /\ Kept(r) /\ (Waiting(r)' <=> Waiting(r)) /\ (Holds(r)' <=> Holds(r))
    BY <2>1, AfterNothing DEF LInv
  <2>3. Owns(r)'
    BY <2>1, <2>2 DEF Owns, Leased, LoopPlaces
  <2> QED BY <2>1, <2>2, <2>3, OthersOwn
<1>2. CASE StartThrows(r)
  <2>1. /\ pc[r] = "recalling" /\ Continue(r, "none", <<>>) /\ UNCHANGED lease
        /\ controllers' = controllers /\ aborted' = aborted
    BY <1>2 DEF StartThrows, At
  <2> QED BY <2>1, NotWaiting, KeepsLease
<1>3. CASE Begin(r)
  <2>1. /\ pc[r] = "recalling" /\ UNCHANGED lease
        /\ controllers' = controllers /\ aborted' = aborted
        /\ \E l \in {"queued", "finally"} : \E t : Continue(r, l, t)
    BY <1>3 DEF Begin, At, Unchanged1
  <2> QED BY <2>1, NotWaiting, KeepsLease
<1>4. CASE Acquire(r)
  <2>1. /\ pc[r] = "queued" /\ controllers' = controllers /\ aborted' = aborted
    BY <1>4 DEF Acquire, At, Unchanged1
  <2>2. \/ \E t : Continue(r, "finally", t) /\ UNCHANGED lease
        \/ r \notin aborted /\ S!Acquire(Request[r]) /\ Continue(r, "acquiring", <<>>)
    BY <1>4 DEF Acquire, Cancelled, Fail
  <2>3. CASE \E t : Continue(r, "finally", t) /\ UNCHANGED lease
    BY <2>1, <2>3, NotWaiting, KeepsLease
  <2>4. CASE r \notin aborted /\ S!Acquire(Request[r]) /\ Continue(r, "acquiring", <<>>)
    <3>1. /\ pc'[r] = "acquiring" /\ todo'[r] = <<>>
          /\ \A q \in Runs \ {r} : pc'[q] = pc[q] /\ todo'[q] = todo[q]
      BY <2>4, Continues
    <3>2. Kept(r) /\ Owns(r)
      BY <2>4, AfterAcquire DEF LInv
    <3>3. Owns(r)'
      BY <2>1, <2>4, <3>1, <3>2 DEF Owns, Leased, LoopPlaces
    <3> QED BY <2>1, <3>1, <3>2, <3>3, OthersOwn
  <2> QED BY <2>2, <2>3, <2>4
<1>5. CASE Acquired(r)
  <2>1. /\ pc[r] = "acquiring" /\ UNCHANGED lease
        /\ controllers' = controllers /\ aborted' = aborted /\ ~Waiting(r)
    BY <1>5 DEF Acquired, At, Unchanged1, Waiting
  <2>2. (\E t : Continue(r, "finally", t)) \/ (HoldsLease(r) /\ \E t : Continue(r, "turn", t))
    BY <1>5 DEF Acquired, Cancelled
  <2>3. CASE \E t : Continue(r, "finally", t)
    BY <2>1, <2>3, KeepsLease
  <2>4. CASE HoldsLease(r) /\ \E t : Continue(r, "turn", t)
    <3>1. Holds(r) /\ "turn" \in Leased /\ pc[r] \in LoopPlaces
      BY <2>1, <2>4, Books DEF Leased, LoopPlaces
    <3> QED BY <2>1, <2>4, <3>1, KeepsLease
  <2> QED BY <2>2, <2>3, <2>4
<1>6. CASE Title(r)
  <2>1. /\ pc[r] = "ended" /\ UNCHANGED lease
        /\ controllers' = controllers /\ aborted' = aborted
        /\ \E t : Continue(r, "titled", t)
    BY <1>6 DEF Title, At, Unchanged1
  <2> QED BY <2>1, NotWaiting, KeepsLease
<1> QED BY <1>1, <1>2, <1>3, <1>4, <1>5, <1>6

\* The loop keeps its lease through turns and tool calls.
LEMMA LeaseTurning ==
    ASSUME Types, LInv, NEW r \in Runs,
           \/ BeginTurn(r) \/ ModelAnswers(r) \/ EndTurn(r) \/ CallTool(r) \/ Execute(r)
           \/ RequireApproval(r) \/ Decision(r) \/ Approve(r) \/ ToolFailed(r)
           \/ StreamThrows(r)
    PROVE  LInv'
<1>1. pc[r] \in Leased \ {"acquiring"}
  BY DEF BeginTurn, ModelAnswers, EndTurn, CallTool, Execute, RequireApproval, Decision,
         Approve, ToolFailed, StreamThrows, CaughtByStream, At, Leased
<1>2. controllers' = controllers /\ aborted' = aborted /\ UNCHANGED lease
  BY DEF BeginTurn, ModelAnswers, EndTurn, CallTool, Execute, RequireApproval, Decision,
         Approve, ToolFailed, StreamThrows, Unchanged1
<1>3. \E l \in Leased \cup {"finally"} : \E t : Continue(r, l, t)
  <2>1. CASE BeginTurn(r) \/ ModelAnswers(r) \/ EndTurn(r)
    <3>1. \E l \in {"finally", "model", "inStream", "call", "turn"} : \E t : Continue(r, l, t)
      BY <2>1 DEF BeginTurn, ModelAnswers, EndTurn, Cancelled, Fail
    <3> QED BY <3>1 DEF Leased
  <2>2. CASE CallTool(r) \/ Execute(r) \/ RequireApproval(r)
    <3>1. \E l \in {"attempt1", "call", "toolFailed", "decision"} : \E t : Continue(r, l, t)
      BY <2>2 DEF CallTool, Execute, RequireApproval, CallDone
    <3> QED BY <3>1 DEF Leased
  <2>3. CASE Decision(r) \/ Approve(r) \/ ToolFailed(r) \/ StreamThrows(r)
    <3>1. \E l \in {"approve", "toolFailed", "attempt2", "finally"} : \E t : Continue(r, l, t)
      BY <2>3 DEF Decision, Approve, ToolFailed, Cancelled, Fail, StreamThrows
    <3> QED BY <3>1 DEF Leased
  <2> QED BY <2>1, <2>2, <2>3
<1> QED BY <1>1, <1>2, <1>3, NotWaiting, KeepsLease

\* A loop that ends, well or not, gives its lease back.
LEMMA LeaseEnding ==
    ASSUME Types, SP!IInv, LInv, NEW r \in Runs, Finish(r) \/ LoopThrows(r)
    PROVE  LInv'
<1>1. PICK l \in {"ended", "dead"} :
         /\ Continue(r, l, <<>>) /\ ReleaseLease(r)
         /\ controllers' = controllers \ {r} /\ aborted' = aborted
         /\ pc[r] # "acquiring" \/ todo[r] # <<>>
  BY DEF Finish, LoopThrows, AppendRejects, At
<1>2. /\ pc'[r] = l /\ todo'[r] = <<>>
      /\ \A q \in Runs \ {r} : pc'[q] = pc[q] /\ todo'[q] = todo[q]
  BY <1>1, Continues
<1>3. Kept(r) /\ ~Waiting(r)' /\ ~Holds(r)'
  BY <1>1, NotWaiting, AfterRelease
<1>4. Owns(r)'
  BY <1>2, <1>3 DEF Owns, Leased, LoopPlaces
<1> QED BY <1>1, <1>2, <1>3, <1>4, OthersOwn

\* Appends, cancellations, decisions, recovery and crashes.
LEMMA LeaseAround ==
    ASSUME IInv, SP!IInv, LInv,
           \/ \E r \in Runs : Append1(r) \/ Cancel(r) \/ Settle(r) \/ Recover(r)
           \/ Crash \/ Boot \/ Listen \/ UNCHANGED vars
    PROVE  LInv'
<1>1. ASSUME NEW r \in Runs, Append1(r) PROVE LInv'
  <2>1. /\ todo[r] # <<>> /\ pc' = pc /\ \A q \in Runs \ {r} : todo'[q] = todo[q]
        /\ controllers' = controllers /\ aborted' = aborted /\ UNCHANGED lease
    BY <1>1 DEF Append1, NoChangeButLog, IInv, Types
  <2>2. Owns(r) /\ Kept(r) /\ ~Waiting(r)' /\ (Holds(r)' <=> Holds(r))
    BY <2>1, NotWaiting, AfterNothing DEF LInv
  <2>3. Owns(r)'
    BY <2>1, <2>2 DEF Owns
  <2> QED BY <2>1, <2>2, <2>3, OthersOwn
<1>2. ASSUME NEW r \in Runs, Cancel(r) PROVE LInv'
  <2>1. /\ pc' = pc /\ todo' = todo /\ controllers' = controllers
        /\ aborted' = aborted \cup {r}
        /\ IF Waiting(r) THEN S!CancelQueued(r) ELSE UNCHANGED lease
    BY <1>2 DEF Cancel, Waiting
  <2>2. Owns(r) /\ Kept(r) /\ ~Waiting(r)' /\ (Holds(r)' <=> Holds(r))
    BY <2>1, AfterCancel DEF LInv
  <2>3. Owns(r)'
    BY <2>1, <2>2 DEF Owns
  <2> QED BY <2>1, <2>2, <2>3, OthersOwn
<1>3. ASSUME NEW r \in Runs, Recover(r) PROVE LInv'
  <2>1. /\ pc[r] = "none" /\ pc' = pc /\ \A q \in Runs \ {r} : todo'[q] = todo[q]
        /\ controllers' = controllers /\ aborted' = aborted /\ UNCHANGED lease
    BY <1>3 DEF Recover, IInv, Types, NoLoops
  <2>2. Owns(r) /\ Kept(r) /\ ~Waiting(r)' /\ (Holds(r)' <=> Holds(r))
    BY <2>1, NotWaiting, AfterNothing DEF LInv
  <2>3. Owns(r)'
    BY <2>1, <2>2 DEF Owns
  <2> QED BY <2>1, <2>2, <2>3, OthersOwn
<1>4. CASE Crash
  <2>1. queue' = {} /\ active' = {} /\ \A q \in Runs : pc'[q] = "none"
    BY <1>4 DEF Crash
  <2> QED BY <2>1 DEF LInv, Owns, Waiting, Holds, Leased, LoopPlaces
<1>5. CASE (\E r \in Runs : Settle(r)) \/ Boot \/ Listen \/ UNCHANGED vars
  <2>1. /\ pc' = pc /\ todo' = todo /\ controllers' = controllers /\ aborted' = aborted
        /\ queue' = queue /\ active' = active
    BY <1>5 DEF Settle, Boot, Listen, vars, lease
  <2> QED BY <2>1 DEF LInv, Owns, Waiting, Holds
<1> QED BY <1>1, <1>2, <1>3, <1>4, <1>5

\* Every step leaves the leases with their owners.
LEMMA LeaseStep == IInv /\ SP!IInv /\ LInv /\ [Next]_vars => LInv'
<1> SUFFICES ASSUME IInv, SP!IInv, LInv, [Next]_vars PROVE LInv'
  OBVIOUS
<1>1. ASSUME NEW r \in Runs,
             Start(r) \/ StartThrows(r) \/ Begin(r) \/ Acquire(r) \/ Acquired(r) \/ Title(r)
      PROVE  LInv'
  BY <1>1, LeaseStarting DEF IInv
<1>2. ASSUME NEW r \in Runs,
             \/ BeginTurn(r) \/ ModelAnswers(r) \/ EndTurn(r) \/ CallTool(r) \/ Execute(r)
             \/ RequireApproval(r) \/ Decision(r) \/ Approve(r) \/ ToolFailed(r)
             \/ StreamThrows(r)
      PROVE  LInv'
  BY <1>2, LeaseTurning DEF IInv
<1>3. ASSUME NEW r \in Runs, Finish(r) \/ LoopThrows(r) PROVE LInv'
  BY <1>3, LeaseEnding DEF IInv
<1>4. ASSUME \/ \E r \in Runs : Append1(r) \/ Cancel(r) \/ Settle(r) \/ Recover(r)
             \/ Crash \/ Boot \/ Listen \/ UNCHANGED vars
      PROVE  LInv'
  BY <1>4, LeaseAround
<1> QED BY <1>1, <1>2, <1>3, <1>4 DEF Next, LoopStep

-----------------------------------------------------------------------------
(* Limits *)

Promises == {"none", "waiting", "allow", "deny", "expired", "cancelled", "refused"}

\* A run counts turns and calls only once it has begun, within its limits.
Counts(r) ==
    /\ turn[r] \in 0 .. MaxTurns /\ left[r] \in 0 .. MaxCallsPerTurn
    /\ spent[r] \in Nat /\ spent[r] + left[r] <= MaxToolCalls
    /\ pc[r] \in {"recalling", "queued", "acquiring"} \/ log[r] = <<>> =>
          turn[r] = 0 /\ left[r] = 0 /\ spent[r] = 0
    /\ pc[r] = "turn" => turn[r] < MaxTurns
    /\ pc[r] \in {"attempt1", "attempt2", "decision", "approve"} => left[r] > 0
    /\ pc[r] \in LoopPlaces => log[r] # <<>> \/ todo[r] # <<>>

TInv ==
    /\ DOMAIN turn = Runs /\ DOMAIN left = Runs /\ DOMAIN spent = Runs
    /\ approval \in [Runs -> Promises]
    /\ daemon \in {"down", "recovering", "up"}
    /\ controllers \subseteq Runs /\ aborted \subseteq Runs
    /\ \A r \in Runs : Counts(r)

\* A step on behalf of r that keeps r's counts keeps all of them.
LEMMA OthersCount ==
    ASSUME TInv, NEW r \in Runs, Counts(r)',
           \A q \in Runs \ {r} : /\ pc'[q] = pc[q] /\ todo'[q] = todo[q] /\ log'[q] = log[q]
                                 /\ turn'[q] = turn[q] /\ left'[q] = left[q]
                                 /\ spent'[q] = spent[q],
           DOMAIN turn' = Runs, DOMAIN left' = Runs, DOMAIN spent' = Runs,
           approval' \in [Runs -> Promises], daemon' \in {"down", "recovering", "up"},
           controllers' \subseteq Runs, aborted' \subseteq Runs
    PROVE  TInv'
<1>1. ASSUME NEW q \in Runs \ {r} PROVE Counts(q)'
  <2>1. Counts(q)
    BY DEF TInv
  <2> QED BY <2>1 DEF Counts
<1> QED BY <1>1 DEF TInv

\* A step of a loop that counts nothing.
LEMMA KeepsCount ==
    ASSUME Types, TInv, NEW r \in Runs, NEW l, NEW t, Continue(r, l, t), log' = log,
           daemon' = daemon, controllers' \subseteq Runs, aborted' = aborted, UNCHANGED locals,
           approval' \in [Runs -> Promises],
           l \in {"recalling", "queued", "acquiring"} =>
              pc[r] \in {"recalling", "queued", "acquiring"} \/ log[r] = <<>>,
           l = "turn" => turn[r] < MaxTurns,
           l \in {"attempt1", "attempt2", "decision", "approve"} => left[r] > 0,
           l \in LoopPlaces => log[r] # <<>> \/ t # <<>>
    PROVE  TInv'
<1>1. /\ pc'[r] = l /\ todo'[r] = t
      /\ \A q \in Runs \ {r} : pc'[q] = pc[q] /\ todo'[q] = todo[q]
  BY Continues
<1>2. turn' = turn /\ left' = left /\ spent' = spent
  BY DEF locals
<1>3. Counts(r)
  BY DEF TInv
<1>4. Counts(r)'
  BY <1>1, <1>2, <1>3 DEF Counts
<1> QED BY <1>1, <1>2, <1>4, OthersCount DEF TInv

\* At a place of its loop with nothing to append, a run's log has begun.
LEMMA HasBegun ==
    ASSUME TInv, NEW r \in Runs, NEW l \in LoopPlaces, At(r, l)
    PROVE  log[r] # <<>> /\ Counts(r) /\ pc[r] = l /\ todo[r] = <<>>
BY DEF TInv, Counts, At

\* Starting and acquiring count nothing.
LEMMA CountStarting ==
    ASSUME Types, TInv, NEW r \in Runs,
           Start(r) \/ StartThrows(r) \/ Begin(r) \/ Acquire(r) \/ Acquired(r) \/ Title(r)
    PROVE  TInv'
<1> USE DEF TInv
<1>1. CASE Start(r)
  <2>1. /\ Continue(r, "recalling", <<>>) /\ log[r] = <<>> /\ log' = log /\ daemon' = daemon
        /\ controllers' = controllers \cup {r} /\ aborted' = aborted /\ UNCHANGED locals
        /\ approval' = approval
    BY <1>1 DEF Start
  <2> QED BY <2>1, KeepsCount DEF LoopPlaces
<1>2. CASE StartThrows(r)
  <2>1. /\ Continue(r, "none", <<>>) /\ log' = log /\ daemon' = daemon
        /\ controllers' = controllers /\ aborted' = aborted /\ UNCHANGED locals
        /\ approval' = approval
    BY <1>2 DEF StartThrows
  <2> QED BY <2>1, KeepsCount DEF LoopPlaces
<1>3. CASE Begin(r)
  <2>1. /\ log' = log /\ daemon' = daemon /\ pc[r] = "recalling"
        /\ controllers' = controllers /\ aborted' = aborted /\ UNCHANGED locals
        /\ approval' = approval
    BY <1>3 DEF Begin, Unchanged1, At
  <2>2. PICK l \in {"queued", "finally"} : \E t : Continue(r, l, t) /\ t # <<>>
    <3>1. <<Event("run.created")>> \o Ending("failed") # <<>>
      <4>1. Ending("failed") = <<Status("failed"), FinalEvent("failed")>>
        BY DEF Ending
      <4> QED BY <4>1
    <3>2. <<Event("run.created"), Status("queued")>> # <<>>
      OBVIOUS
    <3>3. \/ Continue(r, "queued", <<Event("run.created"), Status("queued")>>)
          \/ Continue(r, "finally", <<Event("run.created")>> \o Ending("failed"))
      BY <1>3 DEF Begin
    <3> QED BY <3>1, <3>2, <3>3
  <2> QED BY <2>1, <2>2, KeepsCount
<1>4. CASE Acquire(r)
  <2>1. /\ log' = log /\ daemon' = daemon /\ At(r, "queued")
        /\ controllers' = controllers /\ aborted' = aborted /\ UNCHANGED locals
        /\ approval' = approval
    BY <1>4 DEF Acquire, Unchanged1
  <2>2. log[r] # <<>> /\ pc[r] = "queued"
    BY <2>1, HasBegun DEF LoopPlaces
  <2>3. PICK l \in {"acquiring", "finally"} : \E t : Continue(r, l, t)
    BY <1>4 DEF Acquire, Cancelled, Fail
  <2> QED BY <2>1, <2>2, <2>3, KeepsCount
<1>5. CASE Acquired(r)
  <2>1. /\ log' = log /\ daemon' = daemon /\ At(r, "acquiring")
        /\ controllers' = controllers /\ aborted' = aborted /\ UNCHANGED locals
        /\ approval' = approval
    BY <1>5 DEF Acquired, Unchanged1
  <2>2. log[r] # <<>> /\ pc[r] = "acquiring" /\ turn[r] < MaxTurns
    <3>1. log[r] # <<>> /\ Counts(r) /\ pc[r] = "acquiring"
      BY <2>1, HasBegun DEF LoopPlaces
    <3>2. turn[r] = 0
      BY <3>1 DEF Counts
    <3> QED BY <3>1, <3>2, RunLifecycleAssumption
  <2>3. PICK l \in {"turn", "finally"} : \E t : Continue(r, l, t)
    BY <1>5 DEF Acquired, Cancelled
  <2> QED BY <2>1, <2>2, <2>3, KeepsCount
<1>6. CASE Title(r)
  <2>1. /\ log' = log /\ daemon' = daemon
        /\ controllers' = controllers /\ aborted' = aborted /\ UNCHANGED locals
        /\ approval' = approval /\ \E t : Continue(r, "titled", t)
    BY <1>6 DEF Title, Unchanged1
  <2> QED BY <2>1, KeepsCount DEF LoopPlaces
<1> QED BY <1>1, <1>2, <1>3, <1>4, <1>5, <1>6

\* Turns and tool calls stay within the limits.
LEMMA CountTurning ==
    ASSUME Types, TInv, NEW r \in Runs,
           BeginTurn(r) \/ ModelAnswers(r) \/ EndTurn(r) \/ CallTool(r) \/ Execute(r)
    PROVE  TInv'
<1>1. CASE BeginTurn(r)
  <2>1. log[r] # <<>> /\ Counts(r) /\ pc[r] = "turn" /\ todo[r] = <<>>
    BY <1>1, HasBegun DEF BeginTurn, LoopPlaces
  <2>2. /\ log' = log /\ daemon' = daemon /\ controllers' = controllers /\ aborted' = aborted
        /\ approval' = approval /\ left' = left /\ spent' = spent
    BY <1>1 DEF BeginTurn
  <2>3. CASE (\E t : Continue(r, "finally", t)) /\ UNCHANGED turn
    BY <2>1, <2>2, <2>3, KeepsCount DEF locals, TInv
  <2>4. CASE (\E t : Continue(r, "model", t)) /\ turn' = [turn EXCEPT ![r] = @ + 1]
    <3>1. /\ pc'[r] = "model"
          /\ \A q \in Runs \ {r} : pc'[q] = pc[q] /\ todo'[q] = todo[q]
      BY <2>4, Continues
    <3>2. turn'[r] = turn[r] + 1 /\ \A q \in Runs \ {r} : turn'[q] = turn[q]
      BY <2>4 DEF TInv
    <3>3. turn[r] + 1 \in 0 .. MaxTurns
      BY <2>1, RunLifecycleAssumption DEF Counts
    <3>4. Counts(r)'
      BY <2>1, <2>2, <3>1, <3>2, <3>3 DEF Counts
    <3>5. DOMAIN turn' = Runs
      BY <2>4 DEF TInv
    <3> QED BY <2>2, <3>1, <3>2, <3>4, <3>5, OthersCount DEF TInv
  <2> QED BY <1>1, <2>3, <2>4 DEF BeginTurn, Cancelled
<1>2. CASE ModelAnswers(r)
  <2>1. log[r] # <<>> /\ Counts(r) /\ pc[r] = "model" /\ todo[r] = <<>>
    BY <1>2, HasBegun DEF ModelAnswers, LoopPlaces
  <2>2. /\ log' = log /\ daemon' = daemon /\ controllers' = controllers /\ aborted' = aborted
        /\ approval' = approval /\ turn' = turn /\ spent' = spent
    BY <1>2 DEF ModelAnswers
  <2>3. CASE (\E l \in {"inStream", "finally"} : \E t : Continue(r, l, t)) /\ UNCHANGED left
    BY <2>1, <2>2, <2>3, KeepsCount DEF locals, TInv
  <2>4. ASSUME NEW n \in 1 .. MaxCallsPerTurn, MayCall(r, n), Continue(r, "call", <<>>),
               left' = [left EXCEPT ![r] = n]
        PROVE  TInv'
    <3>1. /\ pc'[r] = "call"
          /\ \A q \in Runs \ {r} : pc'[q] = pc[q] /\ todo'[q] = todo[q]
      BY <2>4, Continues
    <3>2. left'[r] = n /\ \A q \in Runs \ {r} : left'[q] = left[q]
      BY <2>4 DEF TInv
    <3>3. n \in 0 .. MaxCallsPerTurn /\ spent[r] + n <= MaxToolCalls
      BY <2>4 DEF MayCall
    <3>4. Counts(r)'
      BY <2>1, <2>2, <3>1, <3>2, <3>3 DEF Counts
    <3>5. DOMAIN left' = Runs
      BY <2>4 DEF TInv
    <3> QED BY <2>2, <3>1, <3>2, <3>4, <3>5, OthersCount DEF TInv
  <2> QED BY <1>2, <2>3, <2>4 DEF ModelAnswers, Fail
<1>3. CASE EndTurn(r)
  <2>1. log[r] # <<>> /\ Counts(r)
    BY <1>3, HasBegun DEF EndTurn, LoopPlaces
  <2>2. /\ log' = log /\ daemon' = daemon /\ controllers' = controllers /\ aborted' = aborted
        /\ approval' = approval /\ UNCHANGED locals
    BY <1>3 DEF EndTurn, Unchanged1
  <2>3. \/ \E t : Continue(r, "finally", t)
        \/ turn[r] < MaxTurns /\ \E t : Continue(r, "turn", t)
    BY <1>3, <2>1, RunLifecycleAssumption DEF EndTurn, Fail, Counts
  <2> QED BY <2>1, <2>2, <2>3, KeepsCount DEF TInv
<1>4. ASSUME CallDone(r), left[r] > 0, log[r] # <<>>, Counts(r), log' = log,
             daemon' = daemon, controllers' = controllers, aborted' = aborted,
             approval' = approval, turn' = turn
      PROVE  TInv'
  <2>1. /\ pc'[r] = "call"
        /\ \A q \in Runs \ {r} : pc'[q] = pc[q] /\ todo'[q] = todo[q]
    BY <1>4, Continues DEF CallDone
  <2>2. /\ left'[r] = left[r] - 1 /\ spent'[r] = spent[r] + 1
        /\ \A q \in Runs \ {r} : left'[q] = left[q] /\ spent'[q] = spent[q]
        /\ DOMAIN left' = Runs /\ DOMAIN spent' = Runs
    BY <1>4 DEF CallDone, TInv
  <2>3. /\ left[r] - 1 \in 0 .. MaxCallsPerTurn /\ spent[r] + 1 \in Nat
        /\ (spent[r] + 1) + (left[r] - 1) <= MaxToolCalls
    BY <1>4, RunLifecycleAssumption DEF Counts
  <2>4. Counts(r)'
    BY <1>4, <2>1, <2>2, <2>3 DEF Counts
  <2> QED BY <1>4, <2>1, <2>2, <2>4, OthersCount DEF TInv
<1>5. CASE CallTool(r)
  <2>1. log[r] # <<>> /\ Counts(r) /\ left[r] > 0
    BY <1>5, HasBegun DEF CallTool, LoopPlaces
  <2>2. /\ log' = log /\ daemon' = daemon /\ controllers' = controllers /\ aborted' = aborted
        /\ approval' = approval /\ turn' = turn
    BY <1>5 DEF CallTool
  <2>3. CASE (\E t : Continue(r, "attempt1", t)) /\ UNCHANGED <<left, spent>>
    BY <2>1, <2>2, <2>3, KeepsCount DEF locals, TInv
  <2> QED BY <1>4, <1>5, <2>1, <2>2, <2>3 DEF CallTool
<1>6. CASE Execute(r)
  <2>1. log[r] # <<>> /\ Counts(r) /\ left[r] > 0
    BY <1>6, HasBegun DEF Execute, LoopPlaces, Counts
  <2>2. /\ log' = log /\ daemon' = daemon /\ controllers' = controllers /\ aborted' = aborted
        /\ approval' = approval /\ turn' = turn
    BY <1>6 DEF Execute
  <2>3. CASE (\E t : Continue(r, "toolFailed", t)) /\ UNCHANGED <<left, spent>>
    BY <2>1, <2>2, <2>3, KeepsCount DEF locals, TInv
  <2> QED BY <1>4, <1>6, <2>1, <2>2, <2>3 DEF Execute
<1> QED BY <1>1, <1>2, <1>3, <1>5, <1>6

\* Consent and endings count nothing.
LEMMA CountEnding ==
    ASSUME Types, TInv, NEW r \in Runs,
           \/ RequireApproval(r) \/ Decision(r) \/ Approve(r) \/ ToolFailed(r)
           \/ Finish(r) \/ LoopThrows(r) \/ StreamThrows(r)
    PROVE  TInv'
<1>1. CASE RequireApproval(r)
  <2>1. log[r] # <<>> /\ Counts(r) /\ left[r] > 0
    BY <1>1, HasBegun DEF RequireApproval, LoopPlaces, Counts
  <2>2. /\ log' = log /\ daemon' = daemon /\ controllers' = controllers /\ aborted' = aborted
        /\ UNCHANGED locals /\ approval' \in [Runs -> Promises]
    BY <1>1 DEF RequireApproval, Unchanged1, TInv, Promises
  <2>3. \E l \in {"decision", "toolFailed"} : \E t : Continue(r, l, t)
    BY <1>1 DEF RequireApproval
  <2> QED BY <2>1, <2>2, <2>3, KeepsCount DEF TInv
<1>2. CASE Decision(r)
  <2>1. log[r] # <<>> /\ Counts(r) /\ left[r] > 0
    BY <1>2, HasBegun DEF Decision, LoopPlaces, Counts
  <2>2. /\ log' = log /\ daemon' = daemon /\ controllers' = controllers /\ aborted' = aborted
        /\ UNCHANGED locals /\ approval' = approval
    BY <1>2 DEF Decision, Unchanged1
  <2>3. \E l \in {"approve", "toolFailed"} : \E t : Continue(r, l, t)
    BY <1>2 DEF Decision
  <2> QED BY <2>1, <2>2, <2>3, KeepsCount DEF TInv
<1>3. CASE Approve(r)
  <2>1. log[r] # <<>> /\ Counts(r) /\ left[r] > 0
    BY <1>3, HasBegun DEF Approve, LoopPlaces, Counts
  <2>2. /\ log' = log /\ daemon' = daemon /\ controllers' = controllers /\ aborted' = aborted
        /\ UNCHANGED locals /\ approval' = approval
    BY <1>3 DEF Approve, Unchanged1
  <2>3. \E l \in {"attempt2", "toolFailed"} : \E t : Continue(r, l, t)
    BY <1>3 DEF Approve
  <2> QED BY <2>1, <2>2, <2>3, KeepsCount DEF TInv
<1>4. CASE ToolFailed(r) \/ StreamThrows(r)
  <2>1. /\ log' = log /\ daemon' = daemon /\ controllers' = controllers /\ aborted' = aborted
        /\ UNCHANGED locals /\ approval' = approval
    BY <1>4 DEF ToolFailed, StreamThrows, Unchanged1
  <2>2. PICK t : Continue(r, "finally", t) /\ (log[r] # <<>> \/ t # <<>>)
    <3>1. Ending("cancelled") # <<>>
      BY EndingIs
    <3>2. CASE ToolFailed(r)
      <4>1. log[r] # <<>>
        BY <3>2, HasBegun DEF ToolFailed, LoopPlaces
      <4>2. Continue(r, "finally", Ending("cancelled")) \/ Continue(r, "finally", Ending("failed"))
        BY <3>2 DEF ToolFailed, Cancelled, Fail
      <4> QED BY <4>1, <4>2
    <3>3. CASE StreamThrows(r)
      <4>1. /\ todo[r] # <<>>
            /\ \/ Continue(r, "finally", todo[r])
               \/ Continue(r, "finally", Ending("cancelled"))
        BY <3>3 DEF StreamThrows, AppendRejects
      <4> QED BY <3>1, <4>1
    <3> QED BY <1>4, <3>2, <3>3
  <2> QED BY <2>1, <2>2, KeepsCount DEF TInv
<1>5. CASE Finish(r) \/ LoopThrows(r)
  <2>1. /\ log' = log /\ daemon' = daemon /\ controllers' \subseteq controllers
        /\ aborted' = aborted /\ UNCHANGED locals /\ approval' = approval
        /\ \E l \in {"ended", "dead"} : Continue(r, l, <<>>)
    BY <1>5 DEF Finish, LoopThrows
  <2> QED BY <2>1, KeepsCount DEF TInv, LoopPlaces
<1> QED BY <1>1, <1>2, <1>3, <1>4, <1>5

\* Neither do appends, cancellations, decisions, recovery and crashes.
LEMMA CountAround ==
    ASSUME IInv, TInv,
           \/ \E r \in Runs : Append1(r) \/ Cancel(r) \/ Settle(r) \/ Recover(r)
           \/ Crash \/ Boot \/ Listen \/ UNCHANGED vars
    PROVE  TInv'
<1>1. ASSUME NEW r \in Runs, Append1(r) PROVE TInv'
  <2>1. /\ pc' = pc /\ UNCHANGED locals /\ approval' = approval /\ daemon' = daemon
        /\ controllers' = controllers /\ aborted' = aborted
        /\ \A q \in Runs \ {r} : todo'[q] = todo[q] /\ log'[q] = log[q]
    BY <1>1 DEF Append1, NoChangeButLog, IInv, Types
  <2>2. log'[r] # <<>> /\ todo[r] # <<>>
    <3>1. log[r] \in Seq(Events) /\ todo[r] \in Seq(Events) /\ todo[r] # <<>>
          /\ log'[r] = Append(log[r], Head(todo[r]))
      BY <1>1 DEF Append1, IInv, Types
    <3> QED BY <3>1
  <2>3. Counts(r)
    BY DEF TInv
  <2>4. Counts(r)'
    BY <2>1, <2>2, <2>3 DEF Counts, locals
  <2> QED BY <2>1, <2>4, OthersCount DEF TInv, locals
<1>2. ASSUME NEW r \in Runs, Recover(r) PROVE TInv'
  <2>1. /\ pc' = pc /\ UNCHANGED locals /\ approval' = approval /\ daemon' = daemon
        /\ controllers' = controllers /\ aborted' = aborted /\ log' = log
        /\ \A q \in Runs \ {r} : todo'[q] = todo[q]
        /\ pc[r] = "none"
    BY <1>2 DEF Recover, IInv, Types, NoLoops
  <2>2. Counts(r)
    BY DEF TInv
  <2>3. Counts(r)'
    BY <2>1, <2>2 DEF Counts, locals, LoopPlaces
  <2> QED BY <2>1, <2>3, OthersCount DEF TInv, locals
<1>3. CASE Crash
  <2>1. /\ \A q \in Runs : pc'[q] = "none" /\ turn'[q] = 0 /\ left'[q] = 0 /\ spent'[q] = 0
        /\ DOMAIN turn' = Runs /\ DOMAIN left' = Runs /\ DOMAIN spent' = Runs
        /\ approval' \in [Runs -> Promises] /\ daemon' = "down"
        /\ controllers' = {} /\ aborted' = {}
    BY <1>3 DEF Crash, Promises
  <2>2. ASSUME NEW q \in Runs PROVE Counts(q)'
    <3>1. 0 \in 0 .. MaxTurns /\ 0 \in 0 .. MaxCallsPerTurn /\ 0 + 0 <= MaxToolCalls
      BY RunLifecycleAssumption
    <3>2. pc'[q] = "none" /\ turn'[q] = 0 /\ left'[q] = 0 /\ spent'[q] = 0
      BY <2>1
    <3>3. "none" \notin LoopPlaces
      BY DEF LoopPlaces
    <3> QED BY <3>1, <3>2, <3>3 DEF Counts
  <2> QED BY <2>1, <2>2 DEF TInv
<1>4. CASE (\E r \in Runs : Cancel(r) \/ Settle(r)) \/ Boot \/ Listen \/ UNCHANGED vars
  <2>1. /\ pc' = pc /\ todo' = todo /\ log' = log /\ controllers' = controllers
        /\ turn' = turn /\ left' = left /\ spent' = spent
        /\ aborted' \subseteq Runs /\ daemon' \in {"down", "recovering", "up"}
    BY <1>4 DEF Cancel, Settle, Boot, Listen, vars, locals, TInv
  <2>2. approval' \in [Runs -> Promises]
    BY <1>4 DEF Cancel, Settle, Boot, Listen, vars, TInv, Promises
  <2>3. \A q \in Runs : Counts(q)'
    BY <2>1 DEF TInv, Counts
  <2> QED BY <2>1, <2>2, <2>3 DEF TInv
<1> QED BY <1>1, <1>2, <1>3, <1>4

\* Every step stays within the limits.
LEMMA CountStep == IInv /\ TInv /\ [Next]_vars => TInv'
<1> SUFFICES ASSUME IInv, TInv, [Next]_vars PROVE TInv'
  OBVIOUS
<1>1. ASSUME NEW r \in Runs,
             Start(r) \/ StartThrows(r) \/ Begin(r) \/ Acquire(r) \/ Acquired(r) \/ Title(r)
      PROVE  TInv'
  BY <1>1, CountStarting DEF IInv
<1>2. ASSUME NEW r \in Runs,
             BeginTurn(r) \/ ModelAnswers(r) \/ EndTurn(r) \/ CallTool(r) \/ Execute(r)
      PROVE  TInv'
  BY <1>2, CountTurning DEF IInv
<1>3. ASSUME NEW r \in Runs,
             \/ RequireApproval(r) \/ Decision(r) \/ Approve(r) \/ ToolFailed(r)
             \/ Finish(r) \/ LoopThrows(r) \/ StreamThrows(r)
      PROVE  TInv'
  BY <1>3, CountEnding DEF IInv
<1>4. ASSUME \/ \E r \in Runs : Append1(r) \/ Cancel(r) \/ Settle(r) \/ Recover(r)
             \/ Crash \/ Boot \/ Listen \/ UNCHANGED vars
      PROVE  TInv'
  BY <1>4, CountAround
<1> QED BY <1>1, <1>2, <1>3, <1>4 DEF Next, LoopStep

\* Before anything has run there are no leases and nothing is counted.
LEMMA OwnersFirst == Init => SP!IInv /\ LInv /\ TInv
<1> SUFFICES ASSUME Init PROVE SP!IInv /\ LInv /\ TInv
  OBVIOUS
<1>1. SP!IInv
  BY SameScheduler, EmptyBooks DEF Init
<1>2. queue = {} /\ active = {} /\ \A r \in Runs : pc[r] = "none" /\ log[r] = <<>>
  BY DEF Init, S!Init
<1>3. LInv
  BY <1>2 DEF LInv, Owns, Waiting, Holds, Leased, LoopPlaces
<1>4. \A r \in Runs : Counts(r)
  BY <1>2, RunLifecycleAssumption DEF Init, Counts, LoopPlaces
<1>5. TInv
  BY <1>4 DEF Init, TInv, Promises
<1> QED BY <1>1, <1>3, <1>5

All == IInv /\ CInv /\ SP!IInv /\ LInv /\ TInv

\* The log, the scheduler's books, the leases and the counts agree in every state.
THEOREM AllInductive == Spec => []All
<1>1. All /\ [Next]_vars => All'
  BY Step, ContractStep, BooksStep, LeaseStep, CountStep DEF All
<1>2. Init => All
  BY First, ContractFirst, OwnersFirst DEF All
<1> QED BY <1>1, <1>2, PTL DEF Spec

\* Within the daemon the scheduler does only what its own specification allows, but for
\* a crash, after which it begins anew.
THEOREM SchedulerUsedAsSpecified == Spec => [][S!Next \/ S!Init']_(S!vars)
<1>1. [Next]_vars => [S!Next \/ S!Init']_(S!vars)
  <2> SUFFICES ASSUME [Next]_vars PROVE [S!Next \/ S!Init']_(S!vars)
    OBVIOUS
  <2>1. Crash => S!Init'
    BY DEF Crash, S!Init
  <2>2. ASSUME NEW r \in Runs, S!Acquire(Request[r]) \/ S!CancelQueued(r) PROVE S!Next
    <3>1. r \in {q.run : q \in {Request[x] : x \in Runs}}
      BY RunLifecycleAssumption
    <3> QED BY <2>2, <3>1 DEF S!Next
  <2>3. (\E l \in S!Outstanding : S!Release(l)) => S!Next
    BY DEF S!Next, S!Outstanding
  <2>4. UNCHANGED lease => UNCHANGED S!vars
    BY DEF lease, S!vars
  <2>5. ASSUME NEW r \in Runs, Acquire(r) \/ Cancel(r) PROVE S!Next \/ UNCHANGED lease
    BY <2>2, <2>5 DEF Acquire, Cancel
  <2>6. ASSUME NEW r \in Runs, Finish(r) \/ LoopThrows(r) PROVE S!Next \/ UNCHANGED lease
    <3>1. ReleaseLease(r)
      BY <2>6 DEF Finish, LoopThrows
    <3> QED BY <2>3, <3>1 DEF ReleaseLease
  <2>7. ASSUME NEW r \in Runs,
               \/ Start(r) \/ StartThrows(r) \/ Append1(r) \/ Begin(r) \/ Acquired(r)
               \/ BeginTurn(r) \/ ModelAnswers(r) \/ EndTurn(r)
        PROVE  UNCHANGED lease
    BY <2>7 DEF Start, StartThrows, Append1, NoChangeButLog, Begin, Acquired, BeginTurn,
                ModelAnswers, EndTurn
  <2>8. ASSUME NEW r \in Runs,
               \/ CallTool(r) \/ Execute(r) \/ RequireApproval(r) \/ Decision(r) \/ Approve(r)
               \/ ToolFailed(r) \/ StreamThrows(r) \/ Title(r) \/ Settle(r) \/ Recover(r)
        PROVE  UNCHANGED lease
    BY <2>8 DEF CallTool, Execute, RequireApproval, Decision, Approve, ToolFailed,
                StreamThrows, Title, Settle, Recover
  <2>9. Boot \/ Listen \/ UNCHANGED vars => UNCHANGED lease
    BY DEF Boot, Listen, vars
  <2> QED BY <2>1, <2>4, <2>5, <2>6, <2>7, <2>8, <2>9 DEF Next, LoopStep
<1> QED BY <1>1, PTL DEF Spec

\* No lease outlives its loop; a run whose tool may be executing holds its lease, and no
\* other that conflicts with it on the workspace executes a tool.
THEOREM LeasesOwned == Spec => []LeasesHaveOwners
<1>1. All => LeasesHaveOwners
  <2> SUFFICES ASSUME All PROVE LeasesHaveOwners
    OBVIOUS
  <2>1. CInv /\ SP!IInv /\ LInv /\ TInv
    BY DEF All
  <2>2. TypeOK
    <3>1. ASSUME NEW r \in Runs
          PROVE  /\ approval[r] \in Promises /\ turn[r] \in 0 .. MaxTurns
                 /\ left[r] \in 0 .. MaxCallsPerTurn
                 /\ spent[r] + left[r] \in 0 .. MaxToolCalls
      <4>1. Counts(r) /\ approval[r] \in Promises
        BY <2>1 DEF TInv
      <4> QED BY <4>1, RunLifecycleAssumption DEF Counts
    <3>2. S!TypeOK
      BY <2>1, SameScheduler DEF SP!IInv
    <3> QED BY <2>1, <3>1, <3>2 DEF TypeOK, CInv, TInv, Promises
  <2>3. ASSUME NEW r \in Runs, HoldsLease(r) PROVE Live(r)
    <3>1. pc[r] \in LoopPlaces
      BY <2>1, <2>3, Books DEF LInv, Owns
    <3> QED BY <3>1 DEF Live, LoopPlaces
  <2>4. ASSUME NEW r \in Runs, pc[r] \in {"attempt1", "attempt2"} PROVE HoldsLease(r)
    BY <2>1, <2>4, Books DEF LInv, Owns, Leased
  <2>5. ASSUME NEW r \in Runs, NEW q \in Runs \ {r}, HoldsLease(q), HoldsLease(r)
        PROVE  ~S!WorkspaceConflicts(Request[q], Request[r])
    <3>1. PICK e \in active, f \in active : e.req.run = q /\ f.req.run = r
      BY <2>1, <2>5, Books DEF Holds
    <3>2. e # f /\ e.req = Request[q] /\ f.req = Request[r]
      BY <2>1, <3>1, Books
    <3>3. ~SP!WorkspaceConflicts(e.req, f.req)
      BY <2>1, <3>1, <3>2 DEF SP!IInv, SP!Fit
    <3> QED BY <3>2, <3>3 DEF S!WorkspaceConflicts, SP!WorkspaceConflicts
  <2> QED BY <2>2, <2>3, <2>4, <2>5 DEF LeasesHaveOwners
<1> QED BY <1>1, AllInductive, PTL

\* Recovery and the loops leave no open run behind, a cancellation reaches every live
\* loop, and no cancelled run waits for a lease.
THEOREM NoneOrphaned == Spec => []NoOrphanedRun
<1>1. All => NoOrphanedRun
  <2> SUFFICES ASSUME All PROVE NoOrphanedRun
    OBVIOUS
  <2>1. CInv /\ LInv
    BY DEF All
  <2>2. ASSUME NEW r \in Runs PROVE pc[r] \in Places
    BY <2>1 DEF CInv
  <2>3. ASSUME daemon = "up", NEW r \in Runs, ~Live(r), pc[r] # "dead"
        PROVE  StatusNow(r) \in EndedStatuses \cup {"needs-recovery", "none"}
    <3>1. pc[r] \in {"none", "recalling", "ended", "titled"}
      BY <2>2, <2>3 DEF Live, Places, LoopPlaces
    <3>2. StatusNow(r) \in Final \cup {"none"}
      <4>1. CASE pc[r] = "titled"
        BY <2>1, <4>1 DEF CInv, Story
      <4>2. CASE pc[r] # "titled"
        <5>1. todo[r] = <<>> /\ Place(r) = pc[r]
          BY <2>1, <2>3, <3>1, <4>2 DEF CInv, Story, Place
        <5> QED BY <2>1, <3>1, <4>2, <5>1, Here DEF Fits
      <4> QED BY <4>1, <4>2
    <3> QED BY <3>2 DEF Final, EndedStatuses
  <2>4. ASSUME NEW r \in Runs, Live(r)
        PROVE  r \in controllers /\ (r \in aborted => \A e \in queue : e.req.run # r)
    <3>1. pc[r] \in LoopPlaces
      BY <2>2, <2>4 DEF Live, Places
    <3> QED BY <2>1, <3>1 DEF LInv, Owns, Waiting
  <2> QED BY <2>3, <2>4 DEF NoOrphanedRun
<1> QED BY <1>1, AllInductive, PTL
-----------------------------------------------------------------------------
(***************************************************************************)
(* Watching a run.  The stream of SseStream is a system of its own: it has *)
(* its own bounds and its own state, but its log is one of those above (see *)
(* StreamServesTheLog).  NoGapNoRepeat says nothing of what waits in the   *)
(* connections.  StreamInv adds that a subscribed connection holds just    *)
(* what was published since (WaitsIn), that its replay reaches up to there *)
(* (Replays), that a live one has sent all that was published (WithinLog), *)
(* and that the wire holds what comes next for the client (OnTheWire).     *)
(***************************************************************************)
StreamKinds == {"plain", "final"}
ConnPhases == {"arriving", "subscribed", "replaying", "live", "closed", "refused"}
Conns == [phase : ConnPhases, sent : Nat, replay : Seq(Nat), pending : Seq(Nat),
          wire : Seq(Nat), abandoned : BOOLEAN]

\* The n events after the b-th.
After(b, n) == [i \in 1 .. n |-> b + i]

StreamTypes ==
    /\ events \in Seq(StreamKinds) /\ Len(events) <= MaxEvents
    /\ published \in 0 .. Len(events)
    /\ conns \in Seq(Conns)
    /\ client \in {"connecting", "reading", "done", "failed", "exhausted", "left"}
    /\ start \in Nat /\ lastSeq \in start .. Len(events)

\* What was published since a connection subscribed waits in it, unless the client has it.
WaitsIn(k, p) ==
    /\ Len(k.pending) <= p
    /\ k.pending = After(p - Len(k.pending), Len(k.pending))
    /\ k.pending # <<>> => k.phase \in {"subscribed", "replaying"} /\ k.sent <= p

\* The replay goes on from the cursor, up to what waits.
Replays(k, p, n) ==
    k.phase = "replaying" =>
        /\ k.replay = After(k.sent, Len(k.replay))
        /\ k.sent + Len(k.replay) <= n
        /\ p - Len(k.pending) <= k.sent + Len(k.replay)

\* What is sent is in the log; a live connection has sent all that was published.
WithinLog(k, p, n) ==
    /\ k.sent <= n
    /\ \A i \in 1 .. Len(k.wire) : k.wire[i] \in 1 .. n
    /\ k.phase = "live" => p <= k.sent

\* Connection k is as it should be when p of n events are published.
ConnSound(k, p, n) == k \in Conns /\ WaitsIn(k, p) /\ Replays(k, p, n) /\ WithinLog(k, p, n)

Serving == \A c \in 1 .. Len(conns) : ConnSound(conns[c], published, Len(events))

\* The wire carries the events from cursor l to what was sent last.
InFlight(k, l) == k.sent = l + Len(k.wire) /\ k.wire = After(l, Len(k.wire))

OnTheWire ==
    client = "reading" =>
        conns # <<>> /\ ~conns[Current].abandoned /\ InFlight(conns[Current], lastSeq)

YieldedAll ==
    /\ seen = After(start, lastSeq - start)
    /\ client = "done" => lastSeq >= 1 /\ events[lastSeq] = "final"

Attempts ==
    /\ Len(conns) <= MaxReconnects + 1
    /\ client = "connecting" => Len(conns) <= MaxReconnects

StreamInv == StreamTypes /\ Serving /\ OnTheWire /\ YieldedAll /\ Attempts

-----------------------------------------------------------------------------
(* Runs of events *)

\* What follows an event: its length and its elements.
LEMMA AfterIs ==
    ASSUME NEW b \in Nat, NEW n \in Nat
    PROVE  /\ After(b, n) \in Seq(Nat) /\ Len(After(b, n)) = n
           /\ \A i \in 1 .. n : After(b, n)[i] = b + i
BY DEF After

\* A sequence with these elements is that run.
LEMMA IsAfter ==
    ASSUME NEW s \in Seq(Nat), NEW b \in Nat, \A i \in 1 .. Len(s) : s[i] = b + i
    PROVE  s = After(b, Len(s))
<1>1. s = [i \in 1 .. Len(s) |-> s[i]]
  OBVIOUS
<1> QED BY <1>1 DEF After

\* One more event.
LEMMA AfterGrows ==
    ASSUME NEW b \in Nat, NEW n \in Nat
    PROVE  Append(After(b, n), b + n + 1) = After(b, n + 1)
<1> DEFINE s == Append(After(b, n), b + n + 1)
<1>0. After(b, n) \in Seq(Nat) /\ Len(After(b, n)) = n
  BY AfterIs
<1>1. /\ s \in Seq(Nat) /\ Len(s) = n + 1
      /\ \A i \in 1 .. n + 1 : s[i] = IF i = n + 1 THEN b + n + 1 ELSE After(b, n)[i]
  BY <1>0
<1> HIDE DEF s
<1>2. \A i \in 1 .. n + 1 : s[i] = b + i
  <2> SUFFICES ASSUME NEW i \in 1 .. n + 1 PROVE s[i] = b + i
    OBVIOUS
  <2>1. s[i] = IF i = n + 1 THEN b + n + 1 ELSE After(b, n)[i]
    BY <1>1
  <2>2. CASE i = n + 1
    BY <2>1, <2>2
  <2>3. CASE i # n + 1
    <3>1. i \in 1 .. n
      BY <2>3
    <3> QED BY <2>1, <2>3, <3>1, AfterIs
  <2> QED BY <2>2, <2>3
<1>3. s = After(b, Len(s))
  BY <1>1, <1>2, IsAfter
<1> QED BY <1>1, <1>3 DEF s

\* One event less.
LEMMA AfterShrinks ==
    ASSUME NEW b \in Nat, NEW n \in Nat, n # 0
    PROVE  /\ Head(After(b, n)) = b + 1
           /\ Tail(After(b, n)) = After(b + 1, n - 1)
           /\ Len(Tail(After(b, n))) = n - 1
<1> DEFINE s == After(b, n)
           t == Tail(s)
<1>1. s \in Seq(Nat) /\ Len(s) = n /\ \A i \in 1 .. n : s[i] = b + i
  BY AfterIs
<1> HIDE DEF s
<1>2. t \in Seq(Nat) /\ Len(t) = n - 1 /\ \A i \in 1 .. n - 1 : t[i] = s[i + 1]
  BY <1>1
<1>3. \A i \in 1 .. n - 1 : t[i] = b + 1 + i
  BY <1>1, <1>2
<1> HIDE DEF t
<1>4. t = After(b + 1, Len(t))
  BY <1>2, <1>3, IsAfter
<1>5. Head(s) = b + 1
  BY <1>1
<1> QED BY <1>2, <1>4, <1>5 DEF s, t

\* pending.sort() leaves what is in order as it is.
LEMMA InOrderAlready ==
    ASSUME NEW b \in Nat, NEW n \in Nat
    PROVE  InOrder(After(b, n)) = After(b, n)
<1> DEFINE a == After(b, n)
           Ordered(s) == Range(s) = Range(a) /\ \A i, j \in 1 .. Len(a) : i < j => s[i] < s[j]
<1>1. a \in Seq(Nat) /\ Len(a) = n /\ \A i \in 1 .. n : a[i] = b + i
  BY AfterIs
<1>a. Range(a) = {b + i : i \in 1 .. n}
  BY DEF Range, After
<1>2. a \in [1 .. Len(a) -> Range(a)] /\ Ordered(a)
  <2>1. a \in [1 .. Len(a) -> Range(a)]
    BY <1>1 DEF Range, After
  <2>2. \A i, j \in 1 .. Len(a) : i < j => a[i] < a[j]
    BY <1>1
  <2> QED BY <2>1, <2>2
<1>3. ASSUME NEW s \in [1 .. Len(a) -> Range(a)], Ordered(s) PROVE s = a
  <2>1. \A i \in 1 .. n : s[i] \in Nat /\ s[i] \in b + 1 .. b + n
    BY <1>1, <1>a, <1>3
  <2>2. \A i, j \in 1 .. n : i < j => s[i] < s[j]
    BY <1>1, <1>3
  <2>3. \A i \in 1 .. n : s[i] >= b + i
    <3> DEFINE D == {i \in 1 .. n : s[i] < b + i}
    <3> SUFFICES ASSUME D # {} PROVE FALSE
      BY <2>1
    <3>0. D \subseteq Nat
      OBVIOUS
    <3>1. PICK m \in D : \A i \in D : m <= i
      BY <3>0, Least
    <3>2. m \in 1 .. n /\ m - 1 \notin D
      BY <3>1
    <3>3. m # 1
      BY <3>1, <2>1
    <3>4. m - 1 \in 1 .. n /\ s[m - 1] >= b + (m - 1)
      <4>1. m - 1 \in 1 .. n
        BY <3>2, <3>3
      <4>2. ~(s[m - 1] < b + (m - 1)) /\ s[m - 1] \in Nat
        BY <2>1, <3>2, <4>1
      <4> HIDE DEF D
      <4> QED BY <4>1, <4>2
    <3>5. s[m - 1] < s[m]
      BY <2>2, <3>2, <3>4
    <3>6. s[m - 1] \in Nat /\ s[m] \in Nat /\ m \in Nat
      BY <2>1, <3>2, <3>4
    <3>7. s[m] < b + m
      BY <3>1
    <3> HIDE DEF D
    <3> QED BY <3>4, <3>5, <3>6, <3>7
  <2>4. \A i \in 1 .. n : s[i] <= b + i
    <3> DEFINE D == {i \in Nat : i < n /\ s[n - i] > b + (n - i)}
    <3>1. ASSUME D # {} PROVE FALSE
      <4>1. D \subseteq Nat
        OBVIOUS
      <4>2. PICK m \in D : \A i \in D : m <= i
        BY <3>1, <4>1, Least
      <4>3. m # 0
        <5> SUFFICES ASSUME m = 0 PROVE FALSE
          OBVIOUS
        <5>1. s[n] > b + n /\ n \in 1 .. n
          BY <4>2
        <5> QED BY <2>1, <5>1
      <4>a. m \in Nat /\ m < n
        OBVIOUS
      <4>4. m - 1 \in Nat /\ m - 1 < n /\ m - 1 \notin D /\ n - (m - 1) = (n - m) + 1
        <5>1. m - 1 \in Nat /\ m - 1 < n /\ n - (m - 1) = (n - m) + 1
          BY <4>3, <4>a
        <5>2. ~(m <= m - 1)
          BY <4>a
        <5> HIDE DEF D
        <5>3. m - 1 \notin D
          BY <4>2, <5>2
        <5> QED BY <5>1, <5>3
      <4> DEFINE x == n - m
      <4>5. x \in 1 .. n /\ x + 1 \in 1 .. n /\ s[x] > b + x
        BY <4>2, <4>3
      <4>6. s[x + 1] <= b + (x + 1)
        <5>1. ~(s[n - (m - 1)] > b + (n - (m - 1)))
          BY <4>4
        <5>2. ~(s[x + 1] > b + (x + 1))
          BY <5>1, <4>4
        <5> QED BY <5>2, <4>5, <2>1
      <4> HIDE DEF x
      <4>7. s[x] < s[x + 1] /\ s[x] \in Nat /\ s[x + 1] \in Nat
        BY <2>1, <2>2, <4>5
      <4> QED BY <4>5, <4>6, <4>7
    <3>2. ASSUME NEW i \in 1 .. n PROVE ~(s[i] > b + i)
      <4>1. n - i \in Nat /\ n - i < n /\ n - (n - i) = i
        OBVIOUS
      <4>2. n - i \notin D
        BY <3>1
      <4>3. ~(s[n - (n - i)] > b + (n - (n - i)))
        BY <4>1, <4>2
      <4> QED BY <4>1, <4>3
    <3> QED BY <2>1, <3>2
  <2>5. \A i \in 1 .. n : s[i] = a[i]
    BY <1>1, <2>1, <2>3, <2>4
  <2>6. DOMAIN s = 1 .. n /\ DOMAIN a = 1 .. n
    BY <1>1 DEF After
  <2> QED BY <1>1, <2>5, <2>6
<1>4. InOrder(a) = CHOOSE s \in [1 .. Len(a) -> Range(a)] : Ordered(s)
  BY DEF InOrder
<1> HIDE DEF a, Ordered
<1>5. (CHOOSE s \in [1 .. Len(a) -> Range(a)] : Ordered(s)) = a
  BY <1>2, <1>3
<1> QED BY <1>4, <1>5 DEF a

-----------------------------------------------------------------------------
(* Sending *)

\* r is connection k after the events up to the t-th were sent on it.
SentUpTo(k, r, t) ==
    /\ r \in Conns
    /\ r.replay = k.replay /\ r.pending = k.pending /\ r.abandoned = k.abandoned
    /\ r.phase \in {k.phase, "closed"}
    /\ k.sent <= r.sent /\ r.sent <= Len(events)
    /\ r.phase # "closed" => t <= r.sent
    /\ \A i \in 1 .. Len(r.wire) : r.wire[i] \in 1 .. Len(events)
    /\ ~k.abandoned => \A l \in Nat : InFlight(k, l) => InFlight(r, l)

\* One event, if those before it were sent.
LEMMA SendsOne ==
    ASSUME NEW k \in Conns, StreamTypes, k.sent <= Len(events),
           \A i \in 1 .. Len(k.wire) : k.wire[i] \in 1 .. Len(events),
           NEW n \in 1 .. Len(events), k.phase # "closed" => n <= k.sent + 1
    PROVE  SentUpTo(k, SendOne(k, n), n)
<1>1. CASE k.phase = "closed" \/ n <= k.sent
  <2>1. SendOne(k, n) = k
    BY <1>1 DEF SendOne
  <2> QED BY <1>1, <2>1 DEF SentUpTo, Conns, StreamTypes
<1>2. CASE k.phase # "closed" /\ n = k.sent + 1
  <2> DEFINE w == IF k.abandoned THEN k.wire ELSE Append(k.wire, n)
             f == IF events[n] = "final" THEN "closed" ELSE k.phase
             r == [k EXCEPT !.sent = n, !.wire = w, !.phase = f]
  <2>1. SendOne(k, n) = r
    BY <1>2 DEF SendOne, Conns
  <2>2. k.wire \in Seq(Nat) /\ n \in Nat /\ k.phase \in ConnPhases /\ k.sent \in Nat
    BY DEF Conns, StreamTypes
  <2>3. /\ w \in Seq(Nat)
        /\ \A i \in 1 .. Len(w) : w[i] \in 1 .. Len(events)
    <3>1. CASE k.abandoned
      BY <2>2, <3>1
    <3>2. CASE ~k.abandoned
      <4>1. w = Append(k.wire, n)
        BY <3>2
      <4>2. /\ Append(k.wire, n) \in Seq(Nat) /\ Len(Append(k.wire, n)) = Len(k.wire) + 1
            /\ \A i \in 1 .. Len(k.wire) + 1 :
                  Append(k.wire, n)[i] = IF i = Len(k.wire) + 1 THEN n ELSE k.wire[i]
        BY <2>2
      <4>3. Len(k.wire) \in Nat
        BY <2>2
      <4> HIDE DEF w
      <4> QED BY <4>1, <4>2, <4>3
    <3> QED BY <3>1, <3>2
  <2>4. f \in ConnPhases /\ f \in {k.phase, "closed"}
    BY <2>2 DEF ConnPhases
  <2>5. ASSUME ~k.abandoned, NEW l \in Nat, InFlight(k, l) PROVE n = l + Len(w) /\ w = After(l, Len(w))
    <3> DEFINE m == Len(k.wire)
    <3>1. m \in Nat /\ n = l + m + 1 /\ k.wire = After(l, m)
      BY <1>2, <2>2, <2>5 DEF InFlight
    <3>2. w = Append(After(l, m), l + m + 1)
      BY <2>5, <3>1
    <3> HIDE DEF m, w
    <3>3. w = After(l, m + 1) /\ Len(w) = m + 1
      <4>1. Append(After(l, m), l + m + 1) = After(l, m + 1)
        BY <2>5, <3>1, AfterGrows
      <4>2. m + 1 \in Nat /\ Len(After(l, m + 1)) = m + 1
        <5>1. m + 1 \in Nat
          BY <3>1
        <5> QED BY <2>5, <5>1, AfterIs
      <4> QED BY <3>2, <4>1, <4>2
    <3> QED BY <3>1, <3>3
  <2> HIDE DEF w, f
  <2>6. /\ r \in Conns /\ r.sent = n /\ r.wire = w /\ r.phase = f
        /\ r.replay = k.replay /\ r.pending = k.pending /\ r.abandoned = k.abandoned
    BY <2>2, <2>3, <2>4 DEF Conns
  <2> HIDE DEF r
  <2>7. ~k.abandoned => \A l \in Nat : InFlight(k, l) => InFlight(r, l)
    BY <2>5, <2>6 DEF InFlight
  <2> QED BY <1>2, <2>1, <2>2, <2>3, <2>4, <2>6, <2>7 DEF SentUpTo, StreamTypes
<1> QED BY <1>1, <1>2 DEF Conns, StreamTypes

\* Sending goes on where it stopped.
LEMMA SentOn ==
    ASSUME NEW k \in Conns, NEW r \in Conns, NEW q, NEW t \in Nat, NEW u \in Nat,
           SentUpTo(k, r, t), SentUpTo(r, q, u), k.sent <= Len(events), StreamTypes
    PROVE  SentUpTo(k, q, u) /\ (q.phase # "closed" => r.phase # "closed" /\ t <= q.sent)
<1>1. k.sent \in Nat /\ r.sent \in Nat /\ q \in Conns /\ q.sent \in Nat
  BY DEF SentUpTo, Conns
<1> QED BY <1>1 DEF SentUpTo

\* send() of several events is a loop; its state after n of them.
SentSoFar(k, ns, h, n) == IF n = 0 THEN k ELSE SendOne(h[n - 1], ns[n])
Sends(k, ns, h, n) == h = [i \in 0 .. n |-> SentSoFar(k, ns, h, i)]

\* The loop has a state after every number of events.
LEMMA SendingOn == ASSUME NEW k, NEW ns, NEW n \in Nat PROVE \E h : Sends(k, ns, h, n)
<1> DEFINE Unsent == {i \in Nat : \A h : ~Sends(k, ns, h, i)}
<1> SUFFICES ASSUME Unsent # {} PROVE FALSE
  OBVIOUS
<1>1. PICK m \in Unsent : \A i \in Unsent : m <= i
  BY Least
<1>2. m # 0
  <2> DEFINE h == [i \in 0 .. 0 |-> k]
  <2>1. Sends(k, ns, h, 0)
    BY DEF Sends, SentSoFar
  <2> QED BY <1>1, <2>1
<1>3. m - 1 \in Nat /\ m - 1 \notin Unsent
  BY <1>1, <1>2
<1>4. PICK g : Sends(k, ns, g, m - 1)
  BY <1>3
<1> DEFINE h == [i \in 0 .. m |-> SentSoFar(k, ns, g, i)]
<1>5. \A i \in 0 .. m - 1 : h[i] = g[i]
  BY <1>1, <1>4 DEF Sends
<1>6. \A i \in 0 .. m : SentSoFar(k, ns, h, i) = SentSoFar(k, ns, g, i)
  <2> SUFFICES ASSUME NEW i \in 0 .. m PROVE SentSoFar(k, ns, h, i) = SentSoFar(k, ns, g, i)
    OBVIOUS
  <2>1. i # 0 => i - 1 \in 0 .. m - 1
    BY <1>1
  <2> HIDE DEF h
  <2> QED BY <1>5, <2>1 DEF SentSoFar
<1>7. Sends(k, ns, h, m)
  BY <1>6 DEF Sends
<1> QED BY <1>1, <1>7

\* send() of a list is this loop.
LEMMA SendLoop ==
    ASSUME NEW k, NEW ns, Len(ns) \in Nat
    PROVE  \E h : Sends(k, ns, h, Len(ns)) /\ Send(k, ns) = h[Len(ns)]
<1>1. PICK h : Sends(k, ns, h, Len(ns))
  BY SendingOn
<1> DEFINE f == CHOOSE g : Sends(k, ns, g, Len(ns))
<1>2. Send(k, ns) = f[Len(ns)]
  BY DEF Send, Sends, SentSoFar
<1>3. Sends(k, ns, f, Len(ns))
  BY <1>1
<1> QED BY <1>2, <1>3

\* A run of events, if those before it were sent.
LEMMA SendsRun ==
    ASSUME NEW k \in Conns, StreamTypes, k.sent <= Len(events),
           \A i \in 1 .. Len(k.wire) : k.wire[i] \in 1 .. Len(events),
           NEW b \in Nat, NEW m \in Nat, b + m <= Len(events), k.phase # "closed" => b <= k.sent
    PROVE  SentUpTo(k, Send(k, After(b, m)), b + m)
<1> DEFINE ns == After(b, m)
<1>0. Len(ns) = m /\ \A i \in 1 .. m : ns[i] = b + i
  BY AfterIs
<1>1. PICK h : Sends(k, ns, h, m) /\ Send(k, ns) = h[m]
  BY <1>0, SendLoop
<1> HIDE DEF ns
<1>2. \A i \in 0 .. m : h[i] = SentSoFar(k, ns, h, i)
  BY <1>1 DEF Sends
<1>3. Len(events) \in Nat /\ k.sent \in Nat
  BY DEF StreamTypes, Conns
<1> DEFINE D == {i \in 0 .. m : ~SentUpTo(k, h[i], b + i)}
<1>4. ASSUME D # {} PROVE FALSE
  <2>0. D \subseteq Nat
    OBVIOUS
  <2>1. PICK i \in D : \A j \in D : i <= j
    BY <1>4, <2>0, Least
  <2>2. i \in 0 .. m /\ i \in Nat /\ ~SentUpTo(k, h[i], b + i)
    OBVIOUS
  <2>3. i # 0
    <3>1. 0 \in 0 .. m /\ h[0] = k
      BY <1>2 DEF SentSoFar
    <3>2. SentUpTo(k, h[0], b + 0)
      BY <3>1 DEF SentUpTo, Conns
    <3> QED BY <2>2, <3>2
  <2>4. i - 1 \in 0 .. m /\ i \in 1 .. m
    BY <2>2, <2>3
  <2>5. ~(i <= i - 1)
    BY <2>2
  <2>6. i - 1 \notin D
    <3> HIDE DEF D
    <3> QED BY <2>1, <2>5
  <2>7. SentUpTo(k, h[i - 1], b + (i - 1))
    BY <2>4, <2>6
  <2> DEFINE r == h[i - 1]
  <2>8. h[i] = SendOne(r, b + i)
    BY <1>0, <1>2, <2>2, <2>3, <2>4 DEF SentSoFar
  <2> HIDE DEF D, r
  <2>9. /\ r \in Conns /\ r.sent <= Len(events)
        /\ \A j \in 1 .. Len(r.wire) : r.wire[j] \in 1 .. Len(events)
        /\ r.phase # "closed" => b + i <= r.sent + 1
    <3>1. r \in Conns /\ (r.phase # "closed" => b + (i - 1) <= r.sent)
      BY <2>7 DEF SentUpTo, r
    <3>2. r.sent \in Nat
      BY <3>1 DEF Conns
    <3> QED BY <2>2, <2>7, <3>1, <3>2 DEF SentUpTo, r
  <2>10. b + i \in 1 .. Len(events)
    BY <1>3, <2>4
  <2>11. SentUpTo(r, SendOne(r, b + i), b + i)
    BY <2>9, <2>10, SendsOne
  <2>12. SentUpTo(k, h[i], b + i)
    <3>1. b + (i - 1) \in Nat /\ b + i \in Nat
      BY <2>4
    <3>2. SentUpTo(k, r, b + (i - 1))
      BY <2>7 DEF r
    <3>3. SentUpTo(r, h[i], b + i)
      BY <2>8, <2>11
    <3> DEFINE t == b + (i - 1)
               u == b + i
               q == h[i]
    <3>4. t \in Nat /\ u \in Nat /\ SentUpTo(k, r, t) /\ SentUpTo(r, q, u) /\ r \in Conns
      BY <3>1, <3>2, <3>3, <2>9
    <3> HIDE DEF t, u, q
    <3>5. SentUpTo(k, q, u)
      BY <3>4, SentOn
    <3> QED BY <3>5 DEF q, u
  <2> QED BY <2>2, <2>12
<1>5. m \in 0 .. m /\ m \notin D
  BY <1>4
<1> QED BY <1>1, <1>5 DEF ns

-----------------------------------------------------------------------------
(* The steps of a connection *)

\* What a handler's step, or an event, may make of connection k.
Serves(k, r) ==
    /\ r \in Conns /\ r.abandoned = k.abandoned
    /\ ~k.abandoned => \A l \in Nat : InFlight(k, l) => InFlight(r, l)

\* Each connection is as it should be.
LEMMA ConnHas ==
    ASSUME StreamInv, NEW c \in 1 .. Len(conns) PROVE ConnSound(conns[c], published, Len(events))
BY DEF StreamInv, Serving

\* A step of the daemon: the log may grow, and each connection is served.
LEMMA DaemonStep ==
    ASSUME StreamInv, events' \in Seq(StreamKinds), Len(events') <= MaxEvents, Len(events) <= Len(events'),
           \A n \in 1 .. Len(events) : events'[n] = events[n],
           published' \in 0 .. Len(events'),
           conns' \in Seq(Conns), Len(conns') = Len(conns),
           \A c \in 1 .. Len(conns) : /\ ConnSound(conns'[c], published', Len(events'))
                                      /\ Serves(conns[c], conns'[c]),
           UNCHANGED <<client, start, lastSeq, seen>>
    PROVE  StreamInv'
<1>1. StreamTypes'
  BY DEF StreamInv, StreamTypes
<1>2. Serving'
  BY DEF Serving
<1>3. OnTheWire'
  <2> SUFFICES ASSUME client = "reading" PROVE OnTheWire'
    BY DEF OnTheWire
  <2>1. conns # <<>> /\ ~conns[Current].abandoned /\ InFlight(conns[Current], lastSeq)
    BY DEF StreamInv, OnTheWire
  <2>2. Current \in 1 .. Len(conns) /\ Current' = Current /\ lastSeq \in Nat /\ conns' # <<>>
    BY <2>1 DEF Current, StreamInv, StreamTypes
  <2>3. ~conns'[Current].abandoned /\ InFlight(conns'[Current], lastSeq)
    BY <2>1, <2>2 DEF Serves
  <2> QED BY <2>2, <2>3 DEF OnTheWire, InFlight
<1>4. YieldedAll'
  BY DEF YieldedAll, StreamInv, StreamTypes
<1> QED BY <1>1, <1>2, <1>3, <1>4 DEF StreamInv, Attempts

\* A connection nothing happens to is served.
LEMMA Idles == ASSUME NEW k \in Conns PROVE Serves(k, k)
BY DEF Serves

\* A handler's step changes its own connection.
LEMMA OnlyOne ==
    ASSUME StreamInv, NEW c \in 1 .. Len(conns), NEW r, OnlyConn(c, r),
           ConnSound(r, published, Len(events)), Serves(conns[c], r)
    PROVE  StreamInv'
<1>1. /\ conns' = [conns EXCEPT ![c] = r] /\ conns \in Seq(Conns) /\ r \in Conns
      /\ UNCHANGED <<events, published, client, start, lastSeq, seen>>
  BY DEF OnlyConn, StreamInv, StreamTypes, ConnSound
<1>2. /\ conns' \in Seq(Conns) /\ Len(conns') = Len(conns)
      /\ \A d \in 1 .. Len(conns) : conns'[d] = IF d = c THEN r ELSE conns[d]
  BY <1>1
<1>3. \A d \in 1 .. Len(conns) : /\ ConnSound(conns'[d], published, Len(events))
                                 /\ Serves(conns[d], conns'[d])
  <2> SUFFICES ASSUME NEW d \in 1 .. Len(conns)
               PROVE  ConnSound(conns'[d], published, Len(events)) /\ Serves(conns[d], conns'[d])
    OBVIOUS
  <2>1. ConnSound(conns[d], published, Len(events)) /\ Serves(conns[d], conns[d])
    BY ConnHas, Idles DEF ConnSound
  <2> QED BY <1>2, <2>1
<1>4. /\ events \in Seq(StreamKinds) /\ Len(events) <= MaxEvents /\ Len(events) <= Len(events)
      /\ published \in 0 .. Len(events)
  BY DEF StreamInv, StreamTypes
<1> QED BY <1>1, <1>2, <1>3, <1>4, DaemonStep

\* Flush: the replay, then what waited, and the connection is live.
LEMMA Flushing ==
    ASSUME StreamInv, NEW k, ConnSound(k, published, Len(events)), k.phase = "replaying",
           NEW r, r = [k EXCEPT !.phase = "live", !.replay = <<>>, !.pending = <<>>]
    PROVE  LET q == Send(Send(r, k.replay), InOrder(k.pending)) IN ConnSound(q, published, Len(events)) /\ Serves(k, q)
<1> DEFINE m == Len(k.pending)
           e == k.sent + Len(k.replay)
           s == Send(r, k.replay)
           q == Send(s, InOrder(k.pending))
<1>1. /\ k \in Conns /\ k.sent \in Nat /\ m \in Nat /\ Len(k.replay) \in Nat
      /\ Len(events) \in Nat /\ published \in 0 .. Len(events) /\ StreamTypes
  BY DEF ConnSound, Conns, StreamInv, StreamTypes
<1>2. /\ k.replay = After(k.sent, Len(k.replay)) /\ e <= Len(events)
      /\ published - m <= e /\ m <= published /\ k.pending = After(published - m, m)
  BY DEF ConnSound, WaitsIn, Replays
<1>3. /\ r \in Conns /\ r.sent = k.sent /\ r.wire = k.wire /\ r.abandoned = k.abandoned
      /\ r.phase = "live" /\ r.pending = <<>> /\ r.replay = <<>>
  <2>1. <<>> \in Seq(Nat) /\ "live" \in ConnPhases
    BY DEF ConnPhases
  <2>2. k \in Conns
    BY <1>1
  <2> QED BY <2>1, <2>2 DEF Conns
<1>4. k.sent <= Len(events) /\ \A i \in 1 .. Len(k.wire) : k.wire[i] \in 1 .. Len(events)
  BY DEF ConnSound, WithinLog
<1>5. SentUpTo(r, s, e)
  <2> HIDE DEF e, s
  <2>1. SentUpTo(r, Send(r, After(k.sent, Len(k.replay))), k.sent + Len(k.replay))
    <3>1. k.sent + Len(k.replay) <= Len(events)
      BY <1>2 DEF e
    <3>2. /\ r \in Conns /\ r.sent <= Len(events) /\ k.sent <= r.sent
          /\ \A i \in 1 .. Len(r.wire) : r.wire[i] \in 1 .. Len(events)
      BY <1>1, <1>3, <1>4
    <3>3. Len(k.replay) \in Nat /\ k.sent \in Nat /\ StreamTypes
      BY <1>1
    <3> QED BY <3>1, <3>2, <3>3, SendsRun
  <2> QED BY <1>2, <2>1 DEF e, s
<1>6. s \in Conns /\ e \in Nat
  BY <1>1, <1>5 DEF SentUpTo
<1>7. InOrder(k.pending) = After(published - m, m)
  <2>1. published - m \in Nat
    BY <1>1, <1>2
  <2> QED BY <1>1, <1>2, <2>1, InOrderAlready
<1> HIDE DEF m, e, s, q
<1>8. SentUpTo(s, q, published)
  <2> DEFINE b == published - m
  <2>1. b \in Nat /\ b + m = published /\ b + m <= Len(events)
    BY <1>1, <1>2
  <2>2. s.phase # "closed" => b <= s.sent
    <3>1. s.sent \in Nat
      BY <1>6 DEF Conns
    <3> QED BY <1>1, <1>2, <1>5, <1>6, <2>1, <3>1 DEF SentUpTo
  <2>3. s.sent <= Len(events) /\ \A i \in 1 .. Len(s.wire) : s.wire[i] \in 1 .. Len(events)
    BY <1>5 DEF SentUpTo
  <2> HIDE DEF b
  <2>4. SentUpTo(s, Send(s, After(b, m)), b + m)
    BY <1>1, <1>6, <2>1, <2>2, <2>3, SendsRun
  <2> QED BY <1>7, <2>1, <2>4 DEF q, b
<1>9. SentUpTo(r, q, published)
  <2>1. published \in Nat /\ r.sent <= Len(events)
    BY <1>1, <1>3, <1>4
  <2> QED BY <1>1, <1>3, <1>5, <1>6, <1>8, <2>1, SentOn
<1>10. ConnSound(q, published, Len(events))
  <2>1. /\ q \in Conns /\ q.pending = <<>> /\ q.phase \in {"live", "closed"} /\ q.sent <= Len(events)
        /\ \A i \in 1 .. Len(q.wire) : q.wire[i] \in 1 .. Len(events)
        /\ q.phase # "closed" => published <= q.sent
    BY <1>3, <1>9 DEF SentUpTo
  <2>2. WaitsIn(q, published)
    <3>1. Len(q.pending) = 0 /\ published - 0 \in Nat
      BY <1>1, <2>1
    <3>2. <<>> = After(published - 0, 0)
      BY DEF After
    <3> QED BY <1>1, <2>1, <3>1, <3>2 DEF WaitsIn
  <2> QED BY <2>1, <2>2 DEF ConnSound, Replays, WithinLog
<1>11. Serves(k, q)
  <2>1. \A l \in Nat : InFlight(k, l) => InFlight(r, l)
    BY <1>3 DEF InFlight
  <2> QED BY <1>3, <1>9, <2>1 DEF Serves, SentUpTo
<1> QED BY <1>10, <1>11 DEF q, s

\* handleSse(): the subscription, the read, the hand-over to live events, the close.
LEMMA HandleStep ==
    ASSUME StreamInv, NEW c \in 1 .. Len(conns), Handle(c) PROVE StreamInv'
<1> DEFINE k == conns[c]
<1>0. ConnSound(k, published, Len(events)) /\ StreamTypes
  BY ConnHas DEF StreamInv
<1>1. CASE Subscribe(c)
  <2> DEFINE r == [k EXCEPT !.phase = IF events = <<>> THEN "refused" ELSE "subscribed"]
  <2>1. k.phase = "arriving" /\ OnlyConn(c, r)
    BY <1>1 DEF Subscribe
  <2> HIDE DEF k
  <2>2. /\ r \in Conns /\ r.sent = k.sent /\ r.wire = k.wire /\ r.pending = k.pending
        /\ r.abandoned = k.abandoned /\ r.phase \in {"refused", "subscribed"}
    BY <1>0 DEF ConnSound, Conns, ConnPhases
  <2> HIDE DEF r
  <2>3. k.pending = <<>>
    BY <1>0, <2>1 DEF ConnSound, WaitsIn
  <2>4. ConnSound(r, published, Len(events)) /\ Serves(k, r)
    BY <1>0, <2>2, <2>3 DEF ConnSound, Serves, WaitsIn, Replays, WithinLog, InFlight
  <2> QED BY <2>1, <2>4, OnlyOne DEF k
<1>2. CASE ReadLog(c)
  <2> DEFINE p == [n \in 1 .. Len(events) - k.sent |-> k.sent + n]
             r == [k EXCEPT !.phase = "replaying", !.replay = p]
  <2>1. k.phase = "subscribed" /\ OnlyConn(c, r)
    BY <1>2 DEF ReadLog
  <2> HIDE DEF k
  <2>2. k \in Conns /\ k.sent \in Nat /\ k.sent <= Len(events) /\ Len(events) \in Nat
    BY <1>0 DEF ConnSound, WithinLog, Conns, StreamTypes
  <2>3. /\ p = After(k.sent, Len(events) - k.sent) /\ p \in Seq(Nat) /\ Len(p) = Len(events) - k.sent
    <3>1. Len(events) - k.sent \in Nat
      BY <2>2
    <3>2. p = After(k.sent, Len(events) - k.sent)
      BY DEF After
    <3> HIDE DEF p
    <3> QED BY <2>2, <3>1, <3>2, AfterIs
  <2> HIDE DEF p
  <2>4. /\ r \in Conns /\ r.sent = k.sent /\ r.wire = k.wire /\ r.pending = k.pending
        /\ r.abandoned = k.abandoned /\ r.phase = "replaying" /\ r.replay = p
    BY <2>2, <2>3 DEF Conns, ConnPhases
  <2> HIDE DEF r
  <2>5. WaitsIn(r, published)
    BY <1>0, <2>1, <2>4 DEF ConnSound, WaitsIn
  <2>6. Replays(r, published, Len(events))
    <3>1. Len(k.pending) \in Nat /\ published \in 0 .. Len(events)
      BY <1>0, <2>2 DEF Conns, StreamTypes
    <3> QED BY <2>2, <2>3, <2>4, <3>1 DEF Replays
  <2>7. ConnSound(r, published, Len(events)) /\ Serves(k, r)
    BY <1>0, <2>4, <2>5, <2>6 DEF ConnSound, Serves, WithinLog, InFlight
  <2> QED BY <2>1, <2>7, OnlyOne DEF k
<1>3. CASE Flush(c)
  <2> DEFINE r == [k EXCEPT !.phase = "live", !.replay = <<>>, !.pending = <<>>]
             q == Send(Send(r, k.replay), InOrder(k.pending))
  <2>1. k.phase = "replaying" /\ OnlyConn(c, q)
    BY <1>3 DEF Flush
  <2>2. ConnSound(q, published, Len(events)) /\ Serves(k, q)
    <3> HIDE DEF k
    <3> QED BY <1>0, <2>1, Flushing
  <2> HIDE DEF q
  <2> QED BY <2>1, <2>2, OnlyOne
<1>4. CASE NoticeClose(c)
  <2> DEFINE r == [k EXCEPT !.phase = "closed"]
  <2>1. k.phase = "live" /\ OnlyConn(c, r)
    BY <1>4 DEF NoticeClose
  <2> HIDE DEF k
  <2>2. /\ r \in Conns /\ r.sent = k.sent /\ r.wire = k.wire /\ r.pending = k.pending
        /\ r.abandoned = k.abandoned /\ r.phase = "closed"
    BY <1>0 DEF ConnSound, Conns, ConnPhases
  <2> HIDE DEF r
  <2>3. k.pending = <<>>
    BY <1>0, <2>1 DEF ConnSound, WaitsIn
  <2>4. ConnSound(r, published, Len(events)) /\ Serves(k, r)
    BY <1>0, <2>2, <2>3 DEF ConnSound, Serves, WaitsIn, Replays, WithinLog, InFlight
  <2> QED BY <2>1, <2>4, OnlyOne DEF k
<1> QED BY <1>1, <1>2, <1>3, <1>4 DEF Handle

\* append(): the log grows.
LEMMA StoreStep ==
    ASSUME StreamInv, Store PROVE StreamInv'
<1>1. PICK kind \in StreamKinds : events' = Append(events, kind)
  BY DEF Store, Following, StreamKinds
<1>2. /\ Len(events) < MaxEvents
      /\ UNCHANGED <<published, conns, client, start, lastSeq, seen>>
  BY DEF Store
<1>3. events \in Seq(StreamKinds) /\ Len(events) \in Nat /\ published \in 0 .. Len(events) /\ conns \in Seq(Conns)
  BY DEF StreamInv, StreamTypes
<1>4. /\ events' \in Seq(StreamKinds) /\ Len(events') = Len(events) + 1 /\ Len(events') <= MaxEvents
      /\ \A n \in 1 .. Len(events) : events'[n] = events[n]
  BY <1>1, <1>2, <1>3, SseAssumption DEF SseAssumption
<1>5. ASSUME NEW c \in 1 .. Len(conns)
      PROVE  ConnSound(conns[c], published, Len(events) + 1) /\ Serves(conns[c], conns[c])
  <2> DEFINE k == conns[c]
  <2>1. ConnSound(k, published, Len(events)) /\ k \in Conns
    BY ConnHas DEF ConnSound
  <2> HIDE DEF k
  <2>2. k.sent \in Nat /\ Len(k.replay) \in Nat
    BY <2>1 DEF Conns
  <2>3. ConnSound(k, published, Len(events) + 1)
    BY <1>3, <2>1, <2>2 DEF ConnSound, Replays, WithinLog
  <2> QED BY <2>1, <2>3, Idles DEF k
<1> QED BY <1>2, <1>3, <1>4, <1>5, DaemonStep

\* publish() to one listener.
LEMMA Publishing ==
    ASSUME NEW k, NEW p \in Nat, p < Len(events), StreamTypes, ConnSound(k, p, Len(events))
    PROVE  LET r == OnEvent(k, p + 1) IN ConnSound(r, p + 1, Len(events)) /\ Serves(k, r)
<1> DEFINE r == OnEvent(k, p + 1)
<1>1. /\ k \in Conns /\ k.sent \in Nat /\ k.sent <= Len(events) /\ Len(events) \in Nat
      /\ k.pending \in Seq(Nat) /\ Len(k.pending) \in Nat
      /\ \A i \in 1 .. Len(k.wire) : k.wire[i] \in 1 .. Len(events)
  BY DEF ConnSound, WithinLog, Conns, StreamTypes
<1>2. /\ Len(k.pending) <= p /\ k.pending = After(p - Len(k.pending), Len(k.pending))
      /\ k.pending # <<>> => k.phase \in {"subscribed", "replaying"} /\ k.sent <= p
  BY DEF ConnSound, WaitsIn
<1>a. After(p + 1, 0) = <<>> /\ p + 1 \in Nat
  BY DEF After
<1>3. CASE k.phase = "live"
  <2>1. p <= k.sent /\ k.pending = <<>>
    BY <1>2, <1>3 DEF ConnSound, WithinLog
  <2>2. <<p + 1>> = After(p, 1)
    BY DEF After
  <2>3. r = Send(k, After(p, 1))
    BY <1>3, <2>2 DEF OnEvent
  <2> HIDE DEF r
  <2>4. SentUpTo(k, r, p + 1)
    BY <1>1, <2>1, <2>3, SendsRun
  <2>5. r.pending = <<>> /\ r.phase \in {"live", "closed"}
    BY <1>3, <2>1, <2>4 DEF SentUpTo
  <2>6. WaitsIn(r, p + 1)
    <3>1. Len(r.pending) = 0 /\ (p + 1) - 0 = p + 1
      BY <2>5
    <3> QED BY <1>a, <2>5, <3>1 DEF WaitsIn
  <2>7. ConnSound(r, p + 1, Len(events)) /\ Serves(k, r)
    BY <2>4, <2>5, <2>6 DEF ConnSound, Serves, SentUpTo, Replays, WithinLog
  <2> QED BY <2>7 DEF r
<1>4. CASE Listening(k) /\ p + 1 > k.sent /\ k.phase # "live"
  <2> DEFINE m == Len(k.pending)
             w == Append(k.pending, p + 1)
  <2>1. r = [k EXCEPT !.pending = w]
    BY <1>4 DEF OnEvent
  <2> HIDE DEF r
  <2>2. m \in Nat /\ m <= p /\ p - m \in Nat /\ (p - m) + m + 1 = p + 1
        /\ (p + 1) - (m + 1) = p - m
    <3>1. m \in Nat /\ m <= p
      BY <1>1, <1>2
    <3> HIDE DEF m
    <3> QED BY <3>1
  <2>3. w = After(p - m, m + 1) /\ w \in Seq(Nat) /\ Len(w) = m + 1
    <3>1. w = Append(After(p - m, m), (p - m) + m + 1)
      BY <1>2, <2>2
    <3> HIDE DEF m
    <3>2. Append(After(p - m, m), (p - m) + m + 1) = After(p - m, m + 1)
      BY <2>2, AfterGrows
    <3>3. m + 1 \in Nat
      BY <2>2
    <3> HIDE DEF w
    <3>4. w = After(p - m, m + 1)
      BY <3>1, <3>2
    <3>5. After(p - m, m + 1) \in Seq(Nat) /\ Len(After(p - m, m + 1)) = m + 1
      BY <2>2, <3>3, AfterIs
    <3> QED BY <3>4, <3>5
  <2> HIDE DEF m, w
  <2>4. /\ r \in Conns /\ r.sent = k.sent /\ r.wire = k.wire /\ r.pending = w
        /\ r.abandoned = k.abandoned /\ r.phase = k.phase /\ r.replay = k.replay
    BY <1>1, <2>1, <2>3 DEF Conns
  <2>5. k.phase \in {"subscribed", "replaying"}
    BY <1>4 DEF Listening
  <2>6. WaitsIn(r, p + 1)
    <3>1. r.pending = After((p + 1) - Len(r.pending), Len(r.pending)) /\ Len(r.pending) <= p + 1
      BY <2>2, <2>3, <2>4
    <3>2. r.sent <= p + 1
      BY <1>1, <1>4, <2>4
    <3> QED BY <2>4, <2>5, <3>1, <3>2 DEF WaitsIn
  <2>7. Replays(r, p + 1, Len(events))
    <3> SUFFICES ASSUME k.phase = "replaying" PROVE Replays(r, p + 1, Len(events))
      BY <2>4 DEF Replays
    <3>1. /\ k.replay = After(k.sent, Len(k.replay)) /\ k.sent + Len(k.replay) <= Len(events)
          /\ p - m <= k.sent + Len(k.replay)
      BY DEF ConnSound, Replays, m
    <3> QED BY <2>2, <2>3, <2>4, <3>1 DEF Replays
  <2>8. ConnSound(r, p + 1, Len(events)) /\ Serves(k, r)
    BY <1>1, <1>4, <2>4, <2>6, <2>7 DEF ConnSound, Serves, WithinLog, InFlight
  <2> QED BY <2>8 DEF r
<1>5. CASE k.phase # "live" /\ ~(Listening(k) /\ p + 1 > k.sent)
  <2>1. r = k
    BY <1>5 DEF OnEvent
  <2>2. k.pending = <<>>
    <3> SUFFICES ASSUME k.pending # <<>> PROVE FALSE
      OBVIOUS
    <3>1. Listening(k) /\ k.sent <= p
      BY <1>2 DEF Listening
    <3> QED BY <1>1, <1>5, <3>1
  <2>3. WaitsIn(k, p + 1)
    <3>1. Len(k.pending) = 0 /\ (p + 1) - 0 = p + 1
      BY <2>2
    <3> QED BY <1>a, <2>2, <3>1 DEF WaitsIn
  <2>4. Replays(k, p + 1, Len(events))
    <3> SUFFICES ASSUME k.phase = "replaying" PROVE Replays(k, p + 1, Len(events))
      BY DEF Replays
    <3>1. /\ k.replay = After(k.sent, Len(k.replay)) /\ k.sent + Len(k.replay) <= Len(events)
          /\ Len(k.replay) \in Nat
      BY <1>1 DEF ConnSound, Replays, Conns
    <3>2. p + 1 <= k.sent /\ Len(k.pending) = 0
      BY <1>1, <1>5, <2>2 DEF Listening
    <3> QED BY <1>1, <3>1, <3>2 DEF Replays
  <2>5. ConnSound(k, p + 1, Len(events)) /\ Serves(k, k)
    BY <1>1, <1>5, <2>3, <2>4, Idles DEF ConnSound, WithinLog
  <2> QED BY <2>1, <2>5
<1> QED BY <1>3, <1>4, <1>5

\* publish(): every listener is told.
LEMMA PublishStep == ASSUME StreamInv, Publish PROVE StreamInv'
<1>1. /\ published < Len(events) /\ published' = published + 1
      /\ conns' = [c \in 1 .. Len(conns) |-> OnEvent(conns[c], published + 1)]
      /\ UNCHANGED <<events, client, start, lastSeq, seen>>
  BY DEF Publish
<1>2. /\ events \in Seq(StreamKinds) /\ Len(events) <= MaxEvents /\ published \in 0 .. Len(events)
      /\ conns \in Seq(Conns) /\ Len(events) \in Nat /\ published \in Nat /\ StreamTypes
  BY DEF StreamInv, StreamTypes
<1>3. ASSUME NEW c \in 1 .. Len(conns)
      PROVE  /\ ConnSound(OnEvent(conns[c], published + 1), published + 1, Len(events))
             /\ Serves(conns[c], OnEvent(conns[c], published + 1))
  BY <1>1, <1>2, ConnHas, Publishing
<1>4. conns' \in Seq(Conns) /\ Len(conns') = Len(conns)
      /\ \A c \in 1 .. Len(conns) : conns'[c] = OnEvent(conns[c], published + 1)
  <2>1. \A c \in 1 .. Len(conns) : OnEvent(conns[c], published + 1) \in Conns
    BY <1>3 DEF ConnSound
  <2> QED BY <1>1, <1>2, <2>1
<1>5. published' \in 0 .. Len(events')
  BY <1>1, <1>2
<1> QED BY <1>1, <1>2, <1>3, <1>4, <1>5, DaemonStep

\* A restart of the daemon ends its connections.
LEMMA RestartStep == ASSUME StreamInv, Restart PROVE StreamInv'
<1> DEFINE Cut(k) == [k EXCEPT !.phase = IF @ = "refused" THEN @ ELSE "closed",
                               !.pending = <<>>, !.replay = <<>>]
<1>1. /\ published' = Len(events) /\ conns' = [c \in 1 .. Len(conns) |-> Cut(conns[c])]
      /\ UNCHANGED <<events, client, start, lastSeq, seen>>
  BY DEF Restart
<1>2. /\ events \in Seq(StreamKinds) /\ Len(events) <= MaxEvents /\ conns \in Seq(Conns) /\ Len(events) \in Nat
  BY DEF StreamInv, StreamTypes
<1>3. ASSUME NEW c \in 1 .. Len(conns)
      PROVE  ConnSound(Cut(conns[c]), Len(events), Len(events)) /\ Serves(conns[c], Cut(conns[c]))
  <2> DEFINE k == conns[c]
             r == Cut(k)
  <2>1. ConnSound(k, published, Len(events)) /\ k \in Conns
    BY ConnHas DEF ConnSound
  <2> HIDE DEF k
  <2>2. /\ r \in Conns /\ r.sent = k.sent /\ r.wire = k.wire /\ r.pending = <<>>
        /\ r.abandoned = k.abandoned /\ r.phase \in {"refused", "closed"}
    <3>1. <<>> \in Seq(Nat) /\ {"refused", "closed"} \subseteq ConnPhases
      BY DEF ConnPhases
    <3> QED BY <2>1, <3>1 DEF Conns
  <2> HIDE DEF r
  <2>3. WaitsIn(r, Len(events))
    <3>1. Len(r.pending) = 0 /\ Len(events) - 0 = Len(events) /\ After(Len(events), 0) = <<>>
      BY <1>2, <2>2 DEF After
    <3> QED BY <1>2, <2>2, <3>1 DEF WaitsIn
  <2>4. ConnSound(r, Len(events), Len(events)) /\ Serves(k, r)
    BY <2>1, <2>2, <2>3 DEF ConnSound, Serves, Replays, WithinLog, InFlight
  <2> QED BY <2>4 DEF k, r
<1> HIDE DEF Cut
<1>4. conns' \in Seq(Conns) /\ Len(conns') = Len(conns)
      /\ \A c \in 1 .. Len(conns) : conns'[c] = Cut(conns[c])
  <2>1. \A c \in 1 .. Len(conns) : Cut(conns[c]) \in Conns
    BY <1>3 DEF ConnSound
  <2> QED BY <1>1, <1>2, <2>1
<1>5. published' \in 0 .. Len(events')
  BY <1>1, <1>2
<1> QED BY <1>1, <1>2, <1>3, <1>4, <1>5, DaemonStep

-----------------------------------------------------------------------------
(* The steps of the client *)

\* A request begins at the cursor.
LEMMA ConnectStep ==
    ASSUME StreamInv, Connect PROVE StreamInv'
<1> DEFINE k == [phase |-> "arriving", sent |-> lastSeq, replay |-> <<>>,
                 pending |-> <<>>, wire |-> <<>>, abandoned |-> FALSE]
<1>1. /\ client = "connecting" /\ client' = "reading" /\ conns' = Append(conns, k)
      /\ UNCHANGED <<events, published, start, lastSeq, seen>>
  BY DEF Connect
<1>2. /\ conns \in Seq(Conns) /\ lastSeq \in Nat /\ lastSeq <= Len(events) /\ Len(events) \in Nat
      /\ published \in Nat /\ published <= Len(events)
  BY DEF StreamInv, StreamTypes
<1>3. /\ k \in Conns /\ k.sent = lastSeq /\ k.wire = <<>> /\ k.pending = <<>>
      /\ k.phase = "arriving" /\ ~k.abandoned
  <2>1. <<>> \in Seq(Nat) /\ "arriving" \in ConnPhases
    BY DEF ConnPhases
  <2> QED BY <1>2, <2>1 DEF Conns
<1> HIDE DEF k
<1>4. ConnSound(k, published, Len(events)) /\ InFlight(k, lastSeq)
  <2>1. Len(k.pending) = 0 /\ published - 0 = published /\ After(published, 0) = <<>>
    BY <1>2, <1>3 DEF After
  <2>2. Len(k.wire) = 0 /\ lastSeq + 0 = lastSeq /\ After(lastSeq, 0) = <<>>
    BY <1>2, <1>3 DEF After
  <2> QED BY <1>2, <1>3, <2>1, <2>2 DEF ConnSound, WaitsIn, Replays, WithinLog, InFlight
<1>5. /\ conns' \in Seq(Conns) /\ Len(conns') = Len(conns) + 1 /\ conns' # <<>>
      /\ conns'[Len(conns) + 1] = k
      /\ \A c \in 1 .. Len(conns) : conns'[c] = conns[c]
  BY <1>1, <1>2, <1>3
<1>6. StreamTypes'
  BY <1>1, <1>5 DEF StreamInv, StreamTypes
<1>7. Serving'
  <2> SUFFICES ASSUME NEW c \in 1 .. Len(conns) + 1 PROVE ConnSound(conns'[c], published, Len(events))
    BY <1>1, <1>5 DEF Serving
  <2>1. CASE c = Len(conns) + 1
    BY <1>4, <1>5, <2>1
  <2>2. CASE c # Len(conns) + 1
    <3>1. c \in 1 .. Len(conns)
      BY <2>2, <1>2
    <3> QED BY <1>5, <3>1, ConnHas
  <2> QED BY <2>1, <2>2
<1>8. OnTheWire'
  <2>1. Current' = Len(conns) + 1
    BY <1>5 DEF Current
  <2>2. ~conns'[Current'].abandoned /\ InFlight(conns'[Current'], lastSeq)
    BY <1>3, <1>4, <1>5, <2>1
  <2> QED BY <1>1, <1>5, <2>2 DEF OnTheWire, InFlight
<1>9. YieldedAll'
  BY <1>1 DEF StreamInv, YieldedAll
<1>10. Attempts'
  <2>1. Len(conns) <= MaxReconnects /\ Len(conns) \in Nat
    BY <1>1, <1>2 DEF StreamInv, Attempts
  <2> QED BY <1>1, <1>5, <2>1, SseAssumption DEF Attempts, SseAssumption
<1> QED BY <1>6, <1>7, <1>8, <1>9, <1>10 DEF StreamInv

\* While it reads, the client has a connection, and what it carries comes next.
LEMMA ReadingNext ==
    ASSUME StreamInv, client = "reading"
    PROVE  /\ Current \in 1 .. Len(conns) /\ conns[Current] \in Conns
           /\ ~conns[Current].abandoned /\ InFlight(conns[Current], lastSeq)
           /\ ConnSound(conns[Current], published, Len(events))
<1>1. conns # <<>> /\ conns \in Seq(Conns) /\ ~conns[Current].abandoned /\ InFlight(conns[Current], lastSeq)
  BY DEF StreamInv, OnTheWire, StreamTypes
<1>2. Current \in 1 .. Len(conns)
  BY <1>1 DEF Current
<1> QED BY <1>1, <1>2, ConnHas DEF ConnSound

\* The client reads a frame: it is the one that comes next.
LEMMA ReceiveStep == ASSUME StreamInv, Receive PROVE StreamInv'
<1> DEFINE k == conns[Current]
           m == Len(k.wire)
           n == Head(k.wire)
           r == [k EXCEPT !.wire = Tail(@)]
<1>1. client = "reading" /\ k.wire # <<>>
  BY DEF Receive
<1>2. /\ conns' = [conns EXCEPT ![Current] = r]
      /\ UNCHANGED <<events, published, start>>
  BY DEF Receive
<1>3. /\ Current \in 1 .. Len(conns) /\ k \in Conns /\ ~k.abandoned /\ InFlight(k, lastSeq)
      /\ ConnSound(k, published, Len(events)) /\ k.wire \in Seq(Nat)
  BY <1>1, ReadingNext DEF Conns
<1>4. /\ conns \in Seq(Conns) /\ lastSeq \in Nat /\ start \in Nat /\ start <= lastSeq
      /\ Len(events) \in Nat /\ lastSeq <= Len(events) /\ published \in Nat
  BY DEF StreamInv, StreamTypes
<1>5. m \in Nat /\ m # 0 /\ k.wire = After(lastSeq, m) /\ k.sent = lastSeq + m
      /\ k.sent \in Nat /\ k.sent <= Len(events)
  <2> HIDE DEF k
  <2>1. m \in Nat /\ m # 0
    BY <1>1, <1>3
  <2> QED BY <1>3, <2>1 DEF InFlight, ConnSound, WithinLog, Conns
<1>6. n = lastSeq + 1 /\ Tail(k.wire) = After(lastSeq + 1, m - 1) /\ Len(Tail(k.wire)) = m - 1
  <2> HIDE DEF k, m
  <2>1. /\ Head(After(lastSeq, m)) = lastSeq + 1
        /\ Tail(After(lastSeq, m)) = After(lastSeq + 1, m - 1)
        /\ Len(Tail(After(lastSeq, m))) = m - 1
    BY <1>4, <1>5, AfterShrinks
  <2> QED BY <1>5, <2>1
<1>a. n > lastSeq /\ n \in Nat /\ n <= Len(events)
  BY <1>4, <1>5, <1>6
<1>7. /\ lastSeq' = n /\ seen' = Append(seen, n)
      /\ client' = IF events[n] = "final" THEN "done" ELSE client
  BY <1>a DEF Receive
<1> HIDE DEF k, m, n
<1>8. /\ r \in Conns /\ r.sent = k.sent /\ r.wire = Tail(k.wire) /\ r.pending = k.pending
      /\ r.abandoned = k.abandoned /\ r.phase = k.phase /\ r.replay = k.replay
  <2>1. Tail(k.wire) \in Seq(Nat)
    BY <1>1, <1>3
  <2>2. k \in Conns
    BY <1>3
  <2> QED BY <2>1, <2>2 DEF Conns
<1> HIDE DEF r
<1>9. InFlight(r, n)
  <2>1. k.sent = (lastSeq + 1) + (m - 1)
    BY <1>4, <1>5
  <2> QED BY <1>6, <1>8, <2>1 DEF InFlight
<1>10. ConnSound(r, published, Len(events))
  <2>1. \A i \in 1 .. Len(r.wire) : r.wire[i] \in 1 .. Len(events)
    <3> SUFFICES ASSUME NEW i \in 1 .. Len(r.wire) PROVE r.wire[i] \in 1 .. Len(events)
      OBVIOUS
    <3>1. i \in 1 .. m - 1 /\ m - 1 \in Nat /\ lastSeq + 1 \in Nat
      BY <1>4, <1>5, <1>6, <1>8
    <3>2. After(lastSeq + 1, m - 1)[i] = lastSeq + 1 + i
      BY <3>1, AfterIs
    <3>3. r.wire[i] = lastSeq + 1 + i
      BY <1>6, <1>8, <3>2
    <3> QED BY <1>4, <1>5, <3>1, <3>3
  <2> QED BY <1>3, <1>8, <2>1 DEF ConnSound, WaitsIn, Replays, WithinLog
<1>11. /\ conns' \in Seq(Conns) /\ Len(conns') = Len(conns) /\ conns' # <<>>
       /\ \A c \in 1 .. Len(conns) : conns'[c] = IF c = Current THEN r ELSE conns[c]
       /\ Current' = Current
  BY <1>2, <1>3, <1>4, <1>8 DEF Current
<1>12. StreamTypes'
  BY <1>1, <1>2, <1>4, <1>6, <1>7, <1>a, <1>11 DEF StreamInv, StreamTypes
<1>13. Serving'
  <2> SUFFICES ASSUME NEW c \in 1 .. Len(conns) PROVE ConnSound(conns'[c], published, Len(events))
    BY <1>2, <1>11 DEF Serving
  <2> QED BY <1>10, <1>11, ConnHas
<1>14. OnTheWire'
  <2>1. conns'[Current'] = r
    BY <1>3, <1>11
  <2> QED BY <1>3, <1>7, <1>8, <1>9, <1>11, <2>1 DEF OnTheWire, InFlight
<1>15. YieldedAll'
  <2>1. seen = After(start, lastSeq - start) /\ lastSeq - start \in Nat
        /\ start + (lastSeq - start) + 1 = n /\ n - start = (lastSeq - start) + 1
    BY <1>4, <1>6 DEF StreamInv, YieldedAll
  <2>2. seen' = After(start, n - start)
    <3> DEFINE d == lastSeq - start
    <3>1. Append(After(start, d), start + d + 1) = After(start, d + 1)
      BY <1>4, <2>1, AfterGrows
    <3> QED BY <1>7, <2>1, <3>1
  <2>3. client' = "done" => n >= 1 /\ events[n] = "final"
    BY <1>1, <1>4, <1>6, <1>7
  <2> QED BY <1>2, <1>7, <2>2, <2>3 DEF YieldedAll
<1>16. Attempts'
  BY <1>1, <1>7, <1>11 DEF StreamInv, Attempts
<1> QED BY <1>12, <1>13, <1>14, <1>15, <1>16 DEF StreamInv

\* The client leaves its last connection, and connects again, gives up, or was told to.
LEMMA LeavingConn ==
    ASSUME StreamInv, client \in {"connecting", "reading"},
           client' \in {"connecting", "exhausted", "failed", "left"},
           client' = "connecting" => Len(conns) <= MaxReconnects,
           UNCHANGED conns \/ (client = "reading" /\ Abandon),
           UNCHANGED <<events, published, start, lastSeq, seen>>
    PROVE  StreamInv'
<1>1. conns \in Seq(Conns)
  BY DEF StreamInv, StreamTypes
<1>2. /\ conns' \in Seq(Conns) /\ Len(conns') = Len(conns)
      /\ \A c \in 1 .. Len(conns) : ConnSound(conns'[c], published, Len(events))
  <2>1. CASE UNCHANGED conns
    BY <1>1, <2>1, ConnHas
  <2>2. CASE client = "reading" /\ Abandon
    <3> DEFINE k == conns[Current]
               r == [k EXCEPT !.abandoned = TRUE, !.wire = <<>>]
    <3>1. Current \in 1 .. Len(conns) /\ k \in Conns /\ ConnSound(k, published, Len(events))
      BY <2>2, ReadingNext
    <3>2. conns' = [conns EXCEPT ![Current] = r]
      BY <1>1, <2>2, <3>1 DEF Abandon
    <3> HIDE DEF k
    <3>3. /\ r \in Conns /\ r.sent = k.sent /\ r.wire = <<>> /\ r.pending = k.pending
          /\ r.phase = k.phase /\ r.replay = k.replay
      <4>1. <<>> \in Seq(Nat) /\ k \in Conns
        BY <3>1
      <4> QED BY <4>1 DEF Conns
    <3> HIDE DEF r
    <3>4. ConnSound(r, published, Len(events))
      BY <3>1, <3>3 DEF ConnSound, WaitsIn, Replays, WithinLog
    <3>5. /\ conns' \in Seq(Conns) /\ Len(conns') = Len(conns)
          /\ \A c \in 1 .. Len(conns) : conns'[c] = IF c = Current THEN r ELSE conns[c]
      BY <1>1, <3>1, <3>2, <3>3
    <3> QED BY <3>4, <3>5, ConnHas
  <2> QED BY <2>1, <2>2
<1>3. StreamTypes'
  BY <1>2 DEF StreamInv, StreamTypes
<1>4. Serving' /\ OnTheWire'
  BY <1>2 DEF Serving, OnTheWire
<1>5. YieldedAll'
  BY DEF StreamInv, YieldedAll
<1>6. Attempts'
  BY <1>2 DEF StreamInv, Attempts
<1> QED BY <1>3, <1>4, <1>5, <1>6 DEF StreamInv

\* The end of a connection, whoever ended it.
LEMMA ClientStep ==
    ASSUME StreamInv,
           Eof \/ Refused \/ Break \/ Leave PROVE StreamInv'
<1>0. Len(conns) \in Nat /\ MaxReconnects \in Nat
  BY SseAssumption DEF SseAssumption, StreamInv, StreamTypes
<1>1. CASE Eof \/ Break
  <2>1. /\ client = "reading" /\ client' \in {"connecting", "exhausted"}
        /\ client' = "connecting" => Len(conns) <= MaxReconnects
    BY <1>0, <1>1 DEF Eof, Break, TryAgain, Current
  <2>2. UNCHANGED conns \/ Abandon
    BY <1>1 DEF Eof, Break
  <2>3. UNCHANGED <<events, published, start, lastSeq, seen>>
    BY <1>1 DEF Eof, Break, TryAgain
  <2> QED BY <2>1, <2>2, <2>3, LeavingConn
<1>2. CASE Refused
  BY <1>2, LeavingConn DEF Refused
<1>3. CASE Leave
  <2>1. /\ client \in {"connecting", "reading"} /\ client' = "left"
        /\ UNCHANGED conns \/ (client = "reading" /\ Abandon)
        /\ UNCHANGED <<events, published, start, lastSeq, seen>>
    BY <1>3 DEF Leave
  <2> QED BY <2>1, LeavingConn
<1> QED BY <1>1, <1>2, <1>3

-----------------------------------------------------------------------------
(* The stream *)

\* A stream begins with nothing sent.
LEMMA StreamFirst == SseInit => StreamInv
<1> SUFFICES ASSUME SseInit PROVE StreamInv
  OBVIOUS
<1>1. /\ events \in Seq(StreamKinds) /\ Len(events) \in {0, 1} /\ published = Len(events)
      /\ conns = <<>> /\ client = "connecting" /\ start \in 0 .. Len(events) /\ lastSeq = start /\ seen = <<>>
  <2>1. events \in Seq(StreamKinds) /\ Len(events) \in {0, 1}
    <3>1. CASE events = <<>>
      BY <3>1
    <3>2. CASE events = <<"plain">>
      BY <3>2 DEF StreamKinds
    <3> QED BY <3>1, <3>2 DEF SseInit
  <2> QED BY <2>1 DEF SseInit
<1>2. After(start, lastSeq - start) = <<>>
  BY <1>1 DEF After
<1>3. StreamTypes
  <2>1. <<>> \in Seq(Conns) /\ Len(events) <= MaxEvents
    BY <1>1, SseAssumption DEF SseAssumption
  <2> QED BY <1>1, <2>1 DEF StreamTypes
<1>4. Serving /\ OnTheWire /\ YieldedAll
  BY <1>1, <1>2 DEF Serving, OnTheWire, YieldedAll
<1>5. Attempts
  BY <1>1, SseAssumption DEF Attempts, SseAssumption
<1> QED BY <1>3, <1>4, <1>5 DEF StreamInv

\* Every step preserves the invariant.
LEMMA StreamStep == StreamInv /\ [SseNext]_sseVars => StreamInv'
<1> SUFFICES ASSUME StreamInv, [SseNext]_sseVars PROVE StreamInv'
  OBVIOUS
<1>1. CASE SseNext
  BY <1>1, StoreStep, PublishStep, RestartStep, HandleStep, ConnectStep, ReceiveStep, ClientStep DEF SseNext
<1>2. CASE UNCHANGED sseVars
  BY <1>2 DEF sseVars, StreamInv, StreamTypes, Serving, OnTheWire, YieldedAll, Attempts, Current
<1> QED BY <1>1, <1>2

\* The invariant of the stream, in every state.
THEOREM StreamInductive == SseSpec => []StreamInv
BY StreamFirst, StreamStep, PTL DEF SseSpec

\* The invariant says what the client has yielded.
LEMMA StreamShown == ASSUME StreamInv PROVE NoGapNoRepeat
<1>1. /\ events \in Seq(StreamKinds) /\ Len(events) <= MaxEvents /\ published \in 0 .. Len(events)
      /\ conns \in Seq(Conns) /\ lastSeq \in start .. Len(events) /\ start \in Nat /\ Len(events) \in Nat
  BY DEF StreamInv, StreamTypes
<1>2. ASSUME NEW c \in 1 .. Len(conns)
      PROVE  /\ conns[c].phase \in {"arriving", "subscribed", "replaying", "live", "closed", "refused"}
             /\ Range(conns[c].pending) \subseteq 1 .. published
             /\ Range(conns[c].wire) \subseteq 1 .. Len(events)
  <2> DEFINE k == conns[c]
             m == Len(k.pending)
  <2>1. ConnSound(k, published, Len(events)) /\ k \in Conns
    BY ConnHas DEF ConnSound
  <2> HIDE DEF k
  <2>2. k.phase \in ConnPhases /\ k.pending \in Seq(Nat) /\ k.wire \in Seq(Nat) /\ m \in Nat
    BY <2>1 DEF Conns
  <2>3. \A i \in 1 .. m : k.pending[i] \in 1 .. published
    <3> SUFFICES ASSUME NEW i \in 1 .. m PROVE k.pending[i] \in 1 .. published
      OBVIOUS
    <3>1. m <= published /\ k.pending = After(published - m, m) /\ published - m \in Nat
      BY <1>1, <2>1, <2>2 DEF ConnSound, WaitsIn
    <3>2. After(published - m, m)[i] = (published - m) + i
      BY <2>2, <3>1, AfterIs
    <3>3. k.pending[i] = (published - m) + i
      BY <3>1, <3>2
    <3> QED BY <1>1, <2>2, <3>1, <3>3
  <2>4. \A i \in 1 .. Len(k.wire) : k.wire[i] \in 1 .. Len(events)
    BY <2>1 DEF ConnSound, WithinLog
  <2>5. Range(k.pending) \subseteq 1 .. published
    BY <2>2, <2>3 DEF Range
  <2>6. Range(k.wire) \subseteq 1 .. Len(events)
    BY <2>2, <2>4 DEF Range
  <2> QED BY <2>2, <2>5, <2>6 DEF ConnPhases, k
<1>3. SseTypeOK
  BY <1>1, <1>2 DEF StreamInv, StreamTypes, Attempts, SseTypeOK, StreamKinds
<1>4. seen = [n \in 1 .. lastSeq - start |-> start + n]
  BY DEF StreamInv, YieldedAll, After
<1>5. client = "done" => Closed /\ events[lastSeq] = "final"
  BY <1>1 DEF StreamInv, YieldedAll, Closed
<1> QED BY <1>1, <1>3, <1>4, <1>5 DEF NoGapNoRepeat

\* Over broken connections and restarts of the daemon, the client yields the events after its
\* first cursor, each once, in order and without a gap, and is told the run is over only by the
\* event that says so: handleSse(), ObservableEventStore and streamRunEvents().
THEOREM StreamHasNoGap == SseSpec => []NoGapNoRepeat
<1>1. StreamInv => NoGapNoRepeat
  BY StreamShown
<1> QED BY <1>1, StreamInductive, PTL

-----------------------------------------------------------------------------
(***************************************************************************)
(* What the stream is given: a stream's log is any that Store may append   *)
(* to, with Following the events that may come next: at most one of them   *)
(* closes.  The logs that RunLifecycle writes are of that kind, because    *)
(* the closing event is the last a step has to append (ClosesLast), and    *)
(* all RunLifecycle appends after it is the title (TitleOnly).  The audit  *)
(* events of a run's reviews, which RunLifecycle leaves out, are appended  *)
(* to the same log, after the closing event too; none of them closes.      *)
(***************************************************************************)

\* An event, and a log, as SseStream sees them.
KindOf(e) == IF Closes(e) THEN "final" ELSE "plain"
KindsOf(s) == [n \in 1 .. Len(s) |-> KindOf(s[n])]

ClosesLast(t) == \A n \in 1 .. Len(t) - 1 : ~Closes(t[n])

\* Where a loop that goes on at l has t to append to the closed log s.
ClosedFits(s, l, t) ==
    /\ t # <<>> => l = "titled" /\ t = <<Event("run.titled")>>
    /\ t # <<>> \/ l \in {"finally", "inStream", "ended"} => Closes(s[Len(s)])

TitleOnly(r) == ClosedAs(log[r]) # "none" => ClosedFits(log[r], pc[r], todo[r])

ClosingInv == \A r \in Runs : ClosesLast(todo[r]) /\ TitleOnly(r)

\* A log grows by the events Store appends.
GrowsAsStored(r) ==
    \/ log'[r] = log[r]
    \/ \E kind \in Following(KindsOf(log[r])) : KindsOf(log'[r]) = Append(KindsOf(log[r]), kind)

\* A log is closed by a closing event in it.
LEMMA ClosedBySome ==
    ASSUME NEW s \in Seq(Events)
    PROVE  ClosedAs(s) = "none" <=> \A n \in 1 .. Len(s) : ~Closes(s[n])
<1>1. \A e : ClosesAs(e) # "none"
  BY DEF ClosesAs
<1>2. ClosedAs(s) = "none" <=> Closings(s) = {}
  BY <1>1 DEF ClosedAs
<1> QED BY <1>2 DEF Closings

\* One event, and two or three that end with the one that closes.
LEMMA ClosingLists ==
    /\ ClosesLast(<<>>)
    /\ \A a : ClosesLast(<<a>>)
    /\ \A a, b : ~Closes(a) => ClosesLast(<<a, b>>)
    /\ \A a, b, d : ~Closes(a) /\ ~Closes(b) => ClosesLast(<<a, b, d>>)
<1>1. ClosesLast(<<>>)
  BY DEF ClosesLast
<1>2. ASSUME NEW a PROVE ClosesLast(<<a>>)
  BY DEF ClosesLast
<1>3. ASSUME NEW a, NEW b, ~Closes(a) PROVE ClosesLast(<<a, b>>)
  <2>1. Len(<<a, b>>) = 2 /\ <<a, b>>[1] = a
    OBVIOUS
  <2>2. \A n \in 1 .. 2 - 1 : n = 1
    OBVIOUS
  <2> QED BY <1>3, <2>1, <2>2 DEF ClosesLast
<1>4. ASSUME NEW a, NEW b, NEW d, ~Closes(a), ~Closes(b) PROVE ClosesLast(<<a, b, d>>)
  <2>1. Len(<<a, b, d>>) = 3 /\ <<a, b, d>>[1] = a /\ <<a, b, d>>[2] = b
    OBVIOUS
  <2>2. \A n \in 1 .. 3 - 1 : n = 1 \/ n = 2
    OBVIOUS
  <2> QED BY <1>4, <2>1, <2>2 DEF ClosesLast
<1> QED BY <1>1, <1>2, <1>3, <1>4

\* Status changes and the steps of a tool call close nothing.
LEMMA NotClosing ==
    /\ \A x : ~Closes(Status(x))
    /\ ~Closes(Event("run.created")) /\ ~Closes(Event("run.titled"))
    /\ ~Closes(Event("approval.required")) /\ ~Closes(Decided("allow"))
BY DEF Closes, Status, Event, Decided

\* An ending closes with its last event.
LEMMA EndingsClose ==
    /\ \A x \in {"failed", "cancelled", "completed"} : ClosesLast(Ending(x))
    /\ ClosesLast(<<Event("run.created")>> \o Ending("failed"))
<1>1. ASSUME NEW x \in {"failed", "completed"} PROVE ClosesLast(Ending(x))
  <2>1. x # "cancelled"
    BY <1>1
  <2>2. <<>> \o <<Status(x), FinalEvent(x)>> = <<Status(x), FinalEvent(x)>>
    OBVIOUS
  <2>3. Ending(x) = <<Status(x), FinalEvent(x)>>
    BY <2>1, <2>2, Zenon DEF Ending
  <2> QED BY <2>3, ClosingLists, NotClosing
<1>2. ClosesLast(Ending("cancelled"))
  <2> DEFINE a == Status("cancelling")
             b == Status("cancelled")
             d == FinalEvent("cancelled")
  <2>1. Ending("cancelled") = <<a>> \o <<b, d>>
    BY DEF Ending
  <2>2. ~Closes(a) /\ ~Closes(b)
    BY NotClosing
  <2> HIDE DEF a, b, d
  <2>3. <<a>> \o <<b, d>> = <<a, b, d>>
    BY Joined, a \in {a, b, d}, b \in {a, b, d}, d \in {a, b, d}
  <2> QED BY <2>1, <2>2, <2>3, ClosingLists
<1>3. ClosesLast(<<Event("run.created")>> \o Ending("failed"))
  <2> DEFINE a == Event("run.created")
             b == Status("failed")
             d == FinalEvent("failed")
  <2>1. Ending("failed") = <<b, d>>
    BY DEF Ending
  <2>2. ~Closes(a) /\ ~Closes(b)
    BY NotClosing
  <2> HIDE DEF a, b, d
  <2>3. <<a>> \o <<b, d>> = <<a, b, d>>
    BY Joined, a \in {a, b, d}, b \in {a, b, d}, d \in {a, b, d}
  <2>4. ClosesLast(<<a, b, d>>)
    BY <2>2, ClosingLists
  <2> QED BY <2>1, <2>3, <2>4 DEF a
<1> QED BY <1>1, <1>2, <1>3

\* A step that takes the loop of r on, with t to append that fits its log.
LEMMA GoesOn ==
    ASSUME Types, CInv, ClosingInv, NEW r \in Runs, NEW l, NEW t, Continue(r, l, t), log' = log,
           ClosesLast(t), ClosedAs(log[r]) # "none" => ClosedFits(log[r], l, t)
    PROVE  ClosingInv'
<1>1. /\ pc' = [pc EXCEPT ![r] = l] /\ todo' = [todo EXCEPT ![r] = t]
      /\ DOMAIN pc = Runs /\ DOMAIN todo = Runs
  BY DEF Continue, CInv, Types
<1>2. ASSUME NEW q \in Runs PROVE ClosesLast(todo'[q]) /\ TitleOnly(q)'
  <2>1. CASE q = r
    BY <1>1, <2>1 DEF TitleOnly
  <2>2. CASE q # r
    BY <1>1, <2>2 DEF TitleOnly, ClosingInv
  <2> QED BY <2>1, <2>2
<1> QED BY <1>2 DEF ClosingInv

\* A loop that decides something finds its log open.
LEMMA FoundOpen ==
    ASSUME CInv, NEW r \in Runs,
           NEW l \in {"recalling", "queued", "acquiring", "turn", "model", "call", "attempt1",
                      "attempt2", "decision", "approve", "toolFailed"}, At(r, l)
    PROVE  ClosedAs(log[r]) = "none"
BY Found DEF Fits, Final

\* The steps of a loop up to its ending leave a log that only its ending closes.
LEMMA ClosingLoop ==
    ASSUME Types, CInv, ClosingInv, NEW r \in Runs,
           \/ Begin(r) \/ Acquire(r) \/ Acquired(r) \/ BeginTurn(r) \/ ModelAnswers(r)
           \/ EndTurn(r) \/ CallTool(r) \/ RequireApproval(r) \/ Decision(r) \/ Approve(r)
           \/ ToolFailed(r) \/ Execute(r)
    PROVE  ClosingInv'
<1> DEFINE c == ClosedAs(log[r])
<1>0. ASSUME NEW l, NEW t, Continue(r, l, t), log' = log, ClosesLast(t), c = "none"
      PROVE  ClosingInv'
  BY <1>0, GoesOn
<1>1. CASE Begin(r)
  <2>1. c = "none" /\ log' = log
    BY <1>1, FoundOpen DEF Begin, Unchanged1
  <2>2. \/ Continue(r, "queued", <<Event("run.created"), Status("queued")>>)
        \/ Continue(r, "finally", <<Event("run.created")>> \o Ending("failed"))
    BY <1>1 DEF Begin
  <2>3. ClosesLast(<<Event("run.created"), Status("queued")>>)
    BY ClosingLists, NotClosing
  <2> QED BY <1>0, <2>1, <2>2, <2>3, EndingsClose
<1>2. CASE Acquire(r)
  <2>1. c = "none" /\ log' = log
    BY <1>2, FoundOpen DEF Acquire, Unchanged1
  <2>2. \/ Continue(r, "finally", Ending("cancelled")) \/ Continue(r, "finally", Ending("failed"))
        \/ Continue(r, "acquiring", <<>>)
    BY <1>2 DEF Acquire, Cancelled, Fail
  <2> QED BY <1>0, <2>1, <2>2, EndingsClose, ClosingLists
<1>3. CASE Acquired(r)
  <2>1. c = "none" /\ log' = log
    BY <1>3, FoundOpen DEF Acquired, Unchanged1
  <2>2. \/ Continue(r, "finally", Ending("cancelled")) \/ Continue(r, "turn", <<Status("planning")>>)
    BY <1>3 DEF Acquired, Cancelled
  <2> QED BY <1>0, <2>1, <2>2, EndingsClose, ClosingLists
<1>4. CASE BeginTurn(r)
  <2>1. c = "none" /\ log' = log
    BY <1>4, FoundOpen DEF BeginTurn
  <2>2. \/ Continue(r, "finally", Ending("cancelled")) \/ Continue(r, "model", <<Status("executing")>>)
    BY <1>4 DEF BeginTurn, Cancelled
  <2> QED BY <1>0, <2>1, <2>2, EndingsClose, ClosingLists
<1>5. CASE ModelAnswers(r)
  <2>1. c = "none" /\ log' = log
    BY <1>5, FoundOpen DEF ModelAnswers
  <2>2. \/ \E l \in {"inStream", "finally"}, x \in {"failed", "cancelled"} : Continue(r, l, Ending(x))
        \/ Continue(r, "finally", Ending("completed"))
        \/ Continue(r, "call", <<>>)
    BY <1>5 DEF ModelAnswers, Fail
  <2> QED BY <1>0, <2>1, <2>2, EndingsClose, ClosingLists
<1>6. CASE EndTurn(r) \/ ToolFailed(r)
  <2>1. c = "none" /\ log' = log
    BY <1>6, FoundOpen DEF EndTurn, ToolFailed, Unchanged1
  <2>2. \/ Continue(r, "finally", Ending("failed")) \/ Continue(r, "finally", Ending("cancelled"))
        \/ Continue(r, "turn", <<Status("planning")>>)
    BY <1>6 DEF EndTurn, ToolFailed, Fail, Cancelled
  <2> QED BY <1>0, <2>1, <2>2, EndingsClose, ClosingLists
<1>7. CASE CallTool(r) \/ Execute(r)
  <2>1. c = "none" /\ log' = log
    BY <1>7, FoundOpen DEF CallTool, Execute
  <2>2. \/ Continue(r, "attempt1", <<ToolStarted("first")>>) \/ Continue(r, "call", <<>>)
        \/ Continue(r, "toolFailed", <<>>)
    BY <1>7 DEF CallTool, Execute, CallDone
  <2> QED BY <1>0, <2>1, <2>2, ClosingLists
<1>8. CASE RequireApproval(r)
  <2>1. c = "none" /\ log' = log
    BY <1>8, FoundOpen DEF RequireApproval, Unchanged1
  <2>2. \/ Continue(r, "decision", <<Event("approval.required"), Status("waiting-approval")>>)
        \/ Continue(r, "toolFailed", <<Event("approval.required")>>)
    BY <1>8 DEF RequireApproval
  <2>3. ClosesLast(<<Event("approval.required"), Status("waiting-approval")>>)
    BY ClosingLists, NotClosing
  <2> QED BY <1>0, <2>1, <2>2, <2>3, ClosingLists
<1>9. CASE Decision(r)
  <2>1. c = "none" /\ log' = log
    BY <1>9, FoundOpen DEF Decision, Unchanged1
  <2>2. \/ Continue(r, "approve", <<Decided("allow"), Status("executing")>>)
        \/ Continue(r, "toolFailed", <<Decided("deny")>>)
        \/ Continue(r, "toolFailed", <<Event("approval.expired")>>)
        \/ Continue(r, "toolFailed", <<>>)
    BY <1>9 DEF Decision
  <2>3. ClosesLast(<<Decided("allow"), Status("executing")>>)
    BY ClosingLists, NotClosing
  <2> QED BY <1>0, <2>1, <2>2, <2>3, ClosingLists
<1>10. CASE Approve(r)
  <2>1. c = "none" /\ log' = log
    BY <1>10, FoundOpen DEF Approve, Unchanged1
  <2>2. \/ Continue(r, "attempt2", <<ToolStarted("second")>>) \/ Continue(r, "toolFailed", <<>>)
    BY <1>10 DEF Approve
  <2> QED BY <1>0, <2>1, <2>2, ClosingLists
<1> QED BY <1>1, <1>2, <1>3, <1>4, <1>5, <1>6, <1>7, <1>8, <1>9, <1>10

\* So do the begin and the end of a loop, its title and the appends that reject.
LEMMA ClosingEnds ==
    ASSUME Types, CInv, ClosingInv, NEW r \in Runs,
           \/ Start(r) \/ StartThrows(r) \/ Finish(r) \/ Title(r)
           \/ LoopThrows(r) \/ StreamThrows(r)
    PROVE  ClosingInv'
<1> DEFINE c == ClosedAs(log[r])
<1>1. CASE Start(r) \/ StartThrows(r) \/ LoopThrows(r)
  <2>1. /\ log' = log
        /\ \E l \in {"recalling", "none", "dead"} : Continue(r, l, <<>>)
    BY <1>1 DEF Start, StartThrows, LoopThrows
  <2>2. PICK l \in {"recalling", "none", "dead"} : Continue(r, l, <<>>)
    BY <2>1
  <2>3. ClosedFits(log[r], l, <<>>)
    BY DEF ClosedFits
  <2> QED BY <2>1, <2>2, <2>3, GoesOn, ClosingLists
<1>2. CASE Finish(r)
  <2>1. /\ log' = log /\ Continue(r, "ended", <<>>)
        /\ pc[r] \in {"finally", "inStream"} /\ todo[r] = <<>>
    BY <1>2 DEF Finish, At
  <2>2. c # "none" => ClosedFits(log[r], "ended", <<>>)
    BY <2>1 DEF ClosingInv, TitleOnly, ClosedFits
  <2> QED BY <2>1, <2>2, GoesOn, ClosingLists
<1>3. CASE Title(r)
  <2>1. /\ log' = log /\ Continue(r, "titled", <<Event("run.titled")>>) /\ pc[r] = "ended"
    BY <1>3 DEF Title, At, Unchanged1
  <2>2. c # "none" => ClosedFits(log[r], "titled", <<Event("run.titled")>>)
    BY <2>1 DEF ClosingInv, TitleOnly, ClosedFits
  <2> QED BY <2>1, <2>2, GoesOn, ClosingLists
<1>4. CASE StreamThrows(r)
  <2>1. /\ log' = log /\ todo[r] # <<>> /\ pc[r] = "inStream"
        /\ \/ Continue(r, "finally", todo[r]) \/ Continue(r, "finally", Ending("cancelled"))
    BY <1>4 DEF StreamThrows, AppendRejects, CaughtByStream
  <2>2. c = "none" /\ ClosesLast(todo[r])
    BY <2>1 DEF ClosingInv, TitleOnly, ClosedFits
  <2> QED BY <2>1, <2>2, GoesOn, EndingsClose
<1> QED BY <1>1, <1>2, <1>3, <1>4

\* So do cancellations, decisions, crashes and recovery.
LEMMA ClosingAround ==
    ASSUME IInv, CInv, ClosingInv,
           \/ \E r \in Runs : Cancel(r) \/ Settle(r) \/ Recover(r)
           \/ Crash \/ Boot \/ Listen
    PROVE  ClosingInv'
<1>1. CASE log' = log /\ pc' = pc /\ todo' = todo
  BY <1>1 DEF ClosingInv, TitleOnly
<1>2. CASE Crash
  <2>1. log' = log /\ \A q \in Runs : pc'[q] = "none" /\ todo'[q] = <<>>
    BY <1>2 DEF Crash
  <2> QED BY <2>1, ClosingLists DEF ClosingInv, TitleOnly, ClosedFits
<1>3. ASSUME NEW r \in Runs, Recover(r) PROVE ClosingInv'
  <2> DEFINE s == StatusNow(r)
             t == IF s \in EndedStatuses \cup {"needs-recovery"} THEN <<>>
                  ELSE <<Status("needs-recovery"), FinalEvent("needs-recovery")>>
  <2>1. /\ daemon = "recovering" /\ log' = log /\ pc' = pc /\ \A q \in Runs : todo[q] = <<>>
        /\ todo' = [todo EXCEPT ![r] = t] /\ DOMAIN todo = Runs
    BY <1>3 DEF Recover, IInv, Types
  <2>2. \A q \in Runs : todo'[q] = IF q = r THEN t ELSE <<>>
    BY <2>1
  <2>3. \A q \in Runs : pc[q] = "none"
    BY <2>1 DEF IInv, NoLoops
  <2>4. ClosesLast(t) /\ (ClosedAs(log[r]) # "none" => t = <<>>)
    <3>1. ClosesLast(t)
      BY ClosingLists, NotClosing
    <3>2. ClosedAs(log[r]) # "none" => s \in Final
      BY DEF CInv, Story
    <3> QED BY <3>1, <3>2 DEF Final, EndedStatuses
  <2> HIDE DEF t
  <2> QED BY <2>1, <2>2, <2>3, <2>4, ClosingLists DEF ClosingInv, TitleOnly, ClosedFits
<1> QED BY <1>1, <1>2, <1>3 DEF Cancel, Settle, Boot, Listen

\* A durable event is one that may follow in a stream's log, and keeps ClosingInv.
LEMMA ClosingAppend ==
    ASSUME Types, CInv, ClosingInv, NEW r \in Runs, Append1(r)
    PROVE  /\ ClosingInv'
           /\ \A q \in Runs : GrowsAsStored(q)
<1> DEFINE s == log[r]
           t == todo[r]
           e == Head(t)
           w == Append(s, e)
<1>1. /\ t # <<>> /\ pc' = pc /\ log' = [log EXCEPT ![r] = w] /\ todo' = [todo EXCEPT ![r] = Tail(t)]
      /\ DOMAIN log = Runs /\ DOMAIN todo = Runs /\ s \in Seq(Events) /\ t \in Seq(Events)
  BY DEF Append1, NoChangeButLog, Types
<1>2. /\ log'[r] = w /\ todo'[r] = Tail(t)
      /\ \A q \in Runs \ {r} : log'[q] = log[q] /\ todo'[q] = todo[q]
  BY <1>1
<1>3. /\ Len(s) \in Nat /\ w \in Seq(Events) /\ Len(w) = Len(s) + 1 /\ w[Len(s) + 1] = e
      /\ \A n \in 1 .. Len(s) : w[n] = s[n]
  BY <1>1
<1>4. ClosesLast(t) /\ TitleOnly(r)
  BY DEF ClosingInv
<1>5. ClosesLast(Tail(t)) /\ (Closes(e) => Tail(t) = <<>>)
  <2>1. /\ Len(t) \in Nat \ {0} /\ Tail(t) \in Seq(Events) /\ Len(Tail(t)) = Len(t) - 1 /\ e = t[1]
        /\ \A n \in 1 .. Len(t) - 1 : Tail(t)[n] = t[n + 1]
    BY <1>1
  <2> HIDE DEF e
  <2>2. ASSUME NEW n \in 1 .. Len(Tail(t)) - 1 PROVE ~Closes(Tail(t)[n])
    <3>1. n \in 1 .. Len(t) - 1 /\ n + 1 \in 1 .. Len(t) - 1
      BY <2>1
    <3> QED BY <1>4, <2>1, <3>1 DEF ClosesLast
  <2>3. ASSUME Closes(e) PROVE Tail(t) = <<>>
    <3>1. ~(1 \in 1 .. Len(t) - 1)
      BY <1>4, <2>1, <2>3 DEF ClosesLast
    <3>2. Len(t) = 1
      <4> DEFINE n == Len(t)
      <4>1. n \in Nat \ {0} /\ ~(1 \in 1 .. n - 1)
        BY <2>1, <3>1
      <4> HIDE DEF n
      <4>2. n = 1
        BY <4>1
      <4> QED BY <4>2 DEF n
    <3> DEFINE u == Tail(t)
    <3>3. u \in Seq(Events) /\ Len(u) = 0
      BY <2>1, <3>2
    <3> HIDE DEF u
    <3>4. u = <<>>
      BY <3>3
    <3> QED BY <3>4 DEF u
  <2> QED BY <2>2, <2>3 DEF ClosesLast
<1>6. ASSUME ClosedAs(s) # "none"
      PROVE  TitleOnly(r)' /\ KindOf(e) \in Following(KindsOf(s))
  <2>1. pc[r] = "titled" /\ t = <<Event("run.titled")>> /\ Closes(s[Len(s)])
    BY <1>1, <1>4, <1>6 DEF TitleOnly, ClosedFits
  <2>2. e = Event("run.titled") /\ Tail(t) = <<>>
    BY <2>1
  <2>3. ~Closes(e)
    BY <2>2, NotClosing
  <2>4. TitleOnly(r)'
    BY <1>1, <1>2, <2>1, <2>2 DEF TitleOnly, ClosedFits
  <2>5. "plain" \in Following(KindsOf(s))
    BY DEF Following
  <2>6. KindOf(e) = "plain"
    BY <2>3 DEF KindOf
  <2> QED BY <2>4, <2>5, <2>6
<1>7. ASSUME ClosedAs(s) = "none"
      PROVE  TitleOnly(r)' /\ KindOf(e) \in Following(KindsOf(s))
  <2>1. \A n \in 1 .. Len(s) : ~Closes(s[n])
    BY <1>1, <1>7, ClosedBySome
  <2>2. KindOf(e) \in Following(KindsOf(s))
    <3>1. \A n \in 1 .. Len(KindsOf(s)) : KindsOf(s)[n] # "final"
      BY <1>3, <2>1 DEF KindsOf, KindOf
    <3> QED BY <3>1 DEF Following, KindOf
  <2>3. TitleOnly(r)'
    <3>1. ClosedAs(w) # "none" => Closes(e)
      <4>1. \A n \in 1 .. Len(w) : n \in 1 .. Len(s) \/ n = Len(s) + 1
        BY <1>3
      <4> HIDE DEF w, e
      <4> QED BY <1>3, <2>1, <4>1, ClosedBySome
    <3>2. Closes(e) => Closes(w[Len(w)]) /\ Tail(t) = <<>>
      BY <1>3, <1>5
    <3> QED BY <1>2, <3>1, <3>2 DEF TitleOnly, ClosedFits
  <2> QED BY <2>2, <2>3
<1>8. TitleOnly(r)' /\ KindOf(e) \in Following(KindsOf(s))
  BY <1>6, <1>7
<1>9. KindsOf(w) = Append(KindsOf(s), KindOf(e))
  <2> DEFINE u == KindsOf(w)
             v == Append(KindsOf(s), KindOf(e))
             K == {"plain", "final"}
  <2>1. KindsOf(s) \in Seq(K) /\ Len(KindsOf(s)) = Len(s) /\ KindOf(e) \in K
    BY <1>3 DEF KindsOf, KindOf
  <2>2. u \in Seq(K) /\ Len(u) = Len(s) + 1 /\ \A n \in 1 .. Len(s) + 1 : u[n] = KindOf(w[n])
    BY <1>3 DEF KindsOf, KindOf
  <2>3. \A n \in 1 .. Len(s) : KindsOf(s)[n] = KindOf(s[n])
    BY <1>3 DEF KindsOf
  <2>4. /\ v \in Seq(K) /\ Len(v) = Len(s) + 1 /\ v[Len(s) + 1] = KindOf(e)
        /\ \A n \in 1 .. Len(s) : v[n] = KindsOf(s)[n]
    BY <2>1
  <2> HIDE DEF u, v, w, e
  <2>5. ASSUME NEW n \in 1 .. Len(s) + 1 PROVE u[n] = v[n]
    <3>1. n \in 1 .. Len(s) \/ n = Len(s) + 1
      BY <1>3
    <3> QED BY <1>3, <2>2, <2>3, <2>4, <3>1
  <2>6. u = v
    BY <2>2, <2>4, <2>5, SeqEqual
  <2> QED BY <2>6 DEF u, v
<1>10. ClosingInv'
  <2>1. \A q \in Runs \ {r} : TitleOnly(q)' /\ ClosesLast(todo'[q])
    BY <1>1, <1>2 DEF ClosingInv, TitleOnly
  <2> QED BY <1>2, <1>5, <1>8, <2>1 DEF ClosingInv
<1>11. GrowsAsStored(r)
  BY <1>2, <1>8, <1>9 DEF GrowsAsStored
<1> QED BY <1>2, <1>10, <1>11 DEF GrowsAsStored

\* Every step keeps to that, and appends to a log at most what may follow in it.
LEMMA ClosingStep ==
    ASSUME IInv, CInv, ClosingInv, [Next]_vars
    PROVE  ClosingInv' /\ \A q \in Runs : GrowsAsStored(q)
<1>1. CASE UNCHANGED vars
  BY <1>1 DEF vars, ClosingInv, TitleOnly, GrowsAsStored
<1>2. ASSUME NEW r \in Runs, Append1(r) PROVE ClosingInv' /\ \A q \in Runs : GrowsAsStored(q)
  BY <1>2, ClosingAppend DEF IInv
<1>3. CASE Next /\ ~\E r \in Runs : Append1(r)
  <2>1. log' = log
    BY <1>3
    DEF Next, LoopStep, Start, StartThrows, Begin, Acquire, Acquired, BeginTurn,
        ModelAnswers, EndTurn, CallTool, Execute, RequireApproval, Decision, Approve,
        ToolFailed, Finish, LoopThrows, StreamThrows, Title, Cancel, Settle, Recover,
        Crash, Boot, Listen, Unchanged1
  <2>2. ClosingInv'
    BY <1>3, ClosingLoop, ClosingEnds, ClosingAround DEF Next, LoopStep, IInv
  <2> QED BY <2>1, <2>2 DEF GrowsAsStored
<1> QED BY <1>1, <1>2, <1>3

\* A run's log is one SseStream may serve: every step of RunLifecycle leaves it alone or adds
\* one event that Following allows, so that no second closing event ever follows the first.
THEOREM StreamServesTheLog == Spec => [][\A r \in Runs : GrowsAsStored(r)]_vars
<1>1. Init => ClosingInv
  <2> SUFFICES ASSUME Init PROVE ClosingInv
    OBVIOUS
  <2>1. \A r \in Runs : log[r] = <<>> /\ todo[r] = <<>> /\ pc[r] = "none"
    BY DEF Init
  <2> QED BY <2>1, ClosingLists DEF ClosingInv, TitleOnly, ClosedFits
<1>2. IInv /\ CInv /\ ClosingInv /\ [Next]_vars => ClosingInv' /\ [\A r \in Runs : GrowsAsStored(r)]_vars
  BY ClosingStep
<1> QED BY <1>1, <1>2, ContractInductive, PTL DEF Spec
=============================================================================
