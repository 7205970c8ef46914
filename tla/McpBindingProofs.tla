-------------------------- MODULE McpBindingProofs --------------------------
(***************************************************************************)
(* The safety of the MCP path, for every number of activations, runs,      *)
(* calls, revisions and changes of the settings; and, in its second part,  *)
(* of the consent and the processes of all tool calls.                     *)
(*                                                                         *)
(* InUseIsOpen is not inductive: a candidate that is opening must not be   *)
(* referred to yet (Fresh), and after the shutdown nothing is bound again  *)
(* (InUse).  CallsAreOwn holds because whatever the channel still carries  *)
(* belongs to a call that waits (Flow): a session is closed with the first *)
(* call that stops waiting for its answer.                                 *)
(***************************************************************************)
EXTENDS McpBinding, ToolCalls, TLAPS, FiniteSetTheorems

\* A session that is not open yet is bound to nothing.
Fresh ==
    \A a \in Acts : session[a] \in {"new", "initializing"} =>
        a # current /\ a \notin retired /\ Holders(a) = {}

Counted == \A a \in Acts : refs[a] = Cardinality(Holders(a))

InUse ==
    IF shut THEN current = None
    ELSE /\ \A a \in Acts : session[a] = "closed" => Holders(a) = {}
         /\ \A a \in retired : Holders(a) = {} => session[a] = "closed"
         /\ current \notin retired
         /\ current # None => session[current] # "closed"

\* What the server works on and what it sent are the requests of calls that wait.
Flow ==
    /\ \A c \in held \cup wire : call[c] = "pending"
    /\ held \cap wire = {}
    /\ \A c \in McpCalls :
          /\ call[c] = "pending" => run[McpRunOf[c]] = "running" /\ SessionOf(c) \in Acts
          /\ call[c] # "mismatch"
          /\ sent[c] <= 1
          /\ asked[c] = 0 => sent[c] = 0 /\ call[c] = "idle"

IInv == McpTypeOK /\ Fresh /\ Counted /\ InUse /\ ReadyIsBound /\ Flow

-----------------------------------------------------------------------------

\* A count of references is zero exactly when nobody holds the binding.
LEMMA NoReferences ==
    ASSUME Counted
    PROVE  \A a \in Acts : refs[a] = 0 <=> Holders(a) = {}
<1>1. \A a \in Acts : IsFiniteSet(Holders(a))
  BY McpAssumption, FS_Subset DEF Holders
<1> QED BY <1>1, FS_EmptySet DEF Counted

\* The initial states satisfy the invariant.
LEMMA InitInv == McpInit => IInv
<1> SUFFICES ASSUME McpInit PROVE IInv
  OBVIOUS
<1> USE McpAssumption DEF McpInit
<1>1. \A a \in Acts : Holders(a) = {}
  BY DEF Holders
<1>2. Counted
  BY <1>1, FS_EmptySet DEF Counted
<1>3. status \in {"disabled", "degraded"}
  OBVIOUS
<1>4. McpTypeOK
  <2>1. settings \in [enabled : BOOLEAN, revision : Revisions]
    OBVIOUS
  <2>2. shut \in BOOLEAN
    OBVIOUS
  <2>3. patches \in 0 .. MaxPatches
    OBVIOUS
  <2>4. refs \in [Acts -> Nat] /\ sent \in [McpCalls -> Nat] /\ asked \in [McpCalls -> 0 .. 2]
    OBVIOUS
  <2> HIDE DEF McpInit
  <2>5. snap \in [Acts -> [enabled : BOOLEAN, revision : Revisions] \cup {None}]
    BY Zenon DEF McpInit
  <2>6. /\ session \in [Acts -> {"new", "initializing", "ready", "failed", "closed"}]
        /\ run \in [McpRuns -> {"idle", "starting", "running", "stuck", "ended"}]
        /\ call \in [McpCalls -> {"idle", "pending", "answered", "failed", "mismatch"}]
        /\ captured \in [McpRuns -> Acts \cup {None}]
    BY DEF McpInit
  <2>7. current \in Acts \cup {None} /\ retired \subseteq Acts /\ dead \subseteq Acts
        /\ held \subseteq McpCalls /\ wire \subseteq McpCalls
    BY DEF McpInit
  <2> QED BY <1>3, <2>1, <2>2, <2>3, <2>4, <2>5, <2>6, <2>7, Zenon DEF McpTypeOK
<1>5. ReadyIsBound
  BY <1>3 DEF ReadyIsBound
<1>6. Fresh /\ InUse /\ Flow
  BY <1>1 DEF Fresh, InUse, Flow, SessionOf
<1> QED BY <1>2, <1>4, <1>5, <1>6 DEF IInv

-----------------------------------------------------------------------------
\* Every step preserves the invariant.
LEMMA StepInv == IInv /\ [McpNext]_mcpVars => IInv'
<1> SUFFICES ASSUME IInv, [McpNext]_mcpVars PROVE IInv'
  OBVIOUS
<1> USE McpAssumption DEF IInv
<1>0. \A a \in Acts : refs[a] = 0 <=> Holders(a) = {}
  BY NoReferences
<1>1. ASSUME NEW enabled \in BOOLEAN, NEW v \in Revisions, Patch(enabled, v) PROVE IInv'
  <2> USE <1>1 DEF Patch, config, binding, runs, traffic
  <2>1. McpTypeOK'
    BY DEF McpTypeOK, SessionOf
  <2>0. \A b \in Acts : Holders(b)' = Holders(b)
    BY DEF Holders
  <2>2. Fresh'
    BY <2>0 DEF Fresh, McpTypeOK
  <2>3. Counted'
    BY <2>0 DEF Counted
  <2>4. InUse'
    BY <2>0 DEF InUse, Fresh, McpTypeOK
  <2>5. ReadyIsBound'
    BY DEF ReadyIsBound, McpTypeOK, Fresh
  <2>6. Flow'
    BY DEF Flow, McpTypeOK, SessionOf
  <2> QED BY <2>1, <2>2, <2>3, <2>4, <2>5, <2>6
<1>2. ASSUME Probe PROVE IInv'
  <2> USE <1>2 DEF Probe, config, binding, runs, traffic
  <2>1. McpTypeOK'
    BY DEF McpTypeOK, SessionOf
  <2>0. \A b \in Acts : Holders(b)' = Holders(b)
    BY DEF Holders
  <2>2. Fresh'
    BY <2>0 DEF Fresh, McpTypeOK
  <2>3. Counted'
    BY <2>0 DEF Counted
  <2>4. InUse'
    BY <2>0 DEF InUse, Fresh, McpTypeOK
  <2>5. ReadyIsBound'
    BY DEF ReadyIsBound, McpTypeOK, Fresh
  <2>6. Flow'
    BY DEF Flow, McpTypeOK, SessionOf
  <2> QED BY <2>1, <2>2, <2>3, <2>4, <2>5, <2>6
<1>3. ASSUME Deactivate PROVE IInv'
  <2> USE <1>3 DEF Deactivate, Rebind, Hangup, config, binding, runs, traffic
  <2>1. McpTypeOK'
    BY DEF McpTypeOK, SessionOf
  <2>0. \A b \in Acts : Holders(b)' = Holders(b)
    BY DEF Holders
  <2>2. Fresh'
    BY <2>0 DEF Fresh, McpTypeOK
  <2>3. Counted'
    BY <2>0 DEF Counted
  <2>4. InUse'
    BY <1>0, <2>0 DEF InUse, Fresh, McpTypeOK
  <2>5. ReadyIsBound'
    BY DEF ReadyIsBound, McpTypeOK, Fresh
  <2>6. Flow'
    BY DEF Flow, McpTypeOK, SessionOf
  <2> QED BY <2>1, <2>2, <2>3, <2>4, <2>5, <2>6
<1>4. ASSUME Shutdown PROVE IInv'
  <2> USE <1>4 DEF Shutdown, Hangup, config, binding, runs, traffic
  <2>1. McpTypeOK'
    BY DEF McpTypeOK, SessionOf
  <2>0. \A b \in Acts : Holders(b)' = Holders(b)
    BY DEF Holders
  <2>2. Fresh'
    BY <2>0 DEF Fresh, McpTypeOK
  <2>3. Counted'
    BY <2>0 DEF Counted
  <2>4. InUse'
    BY <2>0 DEF InUse, Fresh, McpTypeOK
  <2>5. ReadyIsBound'
    BY DEF ReadyIsBound, McpTypeOK, Fresh
  <2>6. Flow'
    BY DEF Flow, McpTypeOK, SessionOf
  <2> QED BY <2>1, <2>2, <2>3, <2>4, <2>5, <2>6
<1>5. ASSUME NEW a \in Acts, Activate(a) PROVE IInv'
  <2> USE <1>5 DEF Activate, config, binding, runs, traffic
  <2>1. McpTypeOK'
    BY DEF McpTypeOK, SessionOf
  <2>0. \A b \in Acts : Holders(b)' = Holders(b)
    BY DEF Holders
  <2>2. Fresh'
    BY <2>0 DEF Fresh, McpTypeOK
  <2>3. Counted'
    BY <2>0 DEF Counted
  <2>4. InUse'
    BY <2>0 DEF InUse, Fresh, McpTypeOK
  <2>5. ReadyIsBound'
    BY DEF ReadyIsBound, McpTypeOK, Fresh
  <2>6. Flow'
    BY DEF Flow, McpTypeOK, SessionOf
  <2> QED BY <2>1, <2>2, <2>3, <2>4, <2>5, <2>6
<1>6. ASSUME NEW a \in Acts, Bound(a) PROVE IInv'
  <2> USE <1>6 DEF Bound, Rebind, Hangup, Recorded, config, binding, runs, traffic
  <2>1. McpTypeOK'
    BY DEF McpTypeOK, SessionOf
  <2>0. \A b \in Acts : Holders(b)' = Holders(b)
    BY DEF Holders
  <2>2. Fresh'
    BY <2>0 DEF Fresh, McpTypeOK
  <2>3. Counted'
    BY <2>0 DEF Counted
  <2>4. InUse'
    BY <1>0, <2>0 DEF InUse, Fresh, McpTypeOK
  <2>5. ReadyIsBound'
    BY DEF ReadyIsBound, McpTypeOK, Fresh
  <2>6. Flow'
    BY DEF Flow, McpTypeOK, SessionOf
  <2> QED BY <2>1, <2>2, <2>3, <2>4, <2>5, <2>6
<1>7. ASSUME NEW a \in Acts, Refused(a) PROVE IInv'
  <2> USE <1>7 DEF Refused, Rebind, Hangup, config, binding, runs, traffic
  <2>1. McpTypeOK'
    BY DEF McpTypeOK, SessionOf
  <2>0. \A b \in Acts : Holders(b)' = Holders(b)
    BY DEF Holders
  <2>2. Fresh'
    BY <2>0 DEF Fresh, McpTypeOK
  <2>3. Counted'
    BY <2>0 DEF Counted
  <2>4. InUse'
    BY <1>0, <2>0 DEF InUse, Fresh, McpTypeOK
  <2>5. ReadyIsBound'
    BY DEF ReadyIsBound, McpTypeOK, Fresh
  <2>6. Flow'
    BY DEF Flow, McpTypeOK, SessionOf
  <2> QED BY <2>1, <2>2, <2>3, <2>4, <2>5, <2>6
<1>8. ASSUME NEW a \in Acts, OpenFails(a) PROVE IInv'
  <2> USE <1>8 DEF OpenFails, Rebind, Hangup, config, binding, runs, traffic
  <2>1. McpTypeOK'
    BY DEF McpTypeOK, SessionOf
  <2>0. \A b \in Acts : Holders(b)' = Holders(b)
    BY DEF Holders
  <2>2. Fresh'
    BY <2>0 DEF Fresh, McpTypeOK
  <2>3. Counted'
    BY <2>0 DEF Counted
  <2>4. InUse'
    BY <1>0, <2>0 DEF InUse, Fresh, McpTypeOK
  <2>5. ReadyIsBound'
    BY DEF ReadyIsBound, McpTypeOK, Fresh
  <2>6. Flow'
    BY DEF Flow, McpTypeOK, SessionOf
  <2> QED BY <2>1, <2>2, <2>3, <2>4, <2>5, <2>6
<1>9. ASSUME NEW a \in Acts, Disconnect(a) PROVE IInv'
  <2> USE <1>9 DEF Disconnect, Broken, Hangup, PendingOn, config, binding, runs, traffic
  <2>1. McpTypeOK'
    BY DEF McpTypeOK, SessionOf
  <2>0. \A b \in Acts : Holders(b)' = Holders(b)
    BY DEF Holders
  <2>2. Fresh'
    BY <2>0 DEF Fresh, McpTypeOK
  <2>3. Counted'
    BY <2>0 DEF Counted
  <2>4. InUse'
    BY <2>0 DEF InUse, Fresh, McpTypeOK
  <2>5. ReadyIsBound'
    BY DEF ReadyIsBound, McpTypeOK, Fresh
  <2>6. Flow'
    BY DEF Flow, McpTypeOK, SessionOf
  <2> QED BY <2>1, <2>2, <2>3, <2>4, <2>5, <2>6
<1>10. ASSUME NEW r \in McpRuns, Start(r) PROVE IInv'
  <2> USE <1>10 DEF Start, config, binding, runs, traffic
  <2>1. McpTypeOK'
    BY DEF McpTypeOK, SessionOf
  <2>2. Fresh'
    BY DEF Fresh, McpTypeOK, Holders
  <2>3. Counted'
    <3> PICK b \in {current, None} :
          /\ captured' = [captured EXCEPT ![r] = b]
          /\ refs' = IF b = None THEN refs ELSE [refs EXCEPT ![b] = @ + 1]
      OBVIOUS
    <3>1. \A a \in Acts : Holders(a)' = IF a = b THEN Holders(a) \cup {r} ELSE Holders(a)
      BY DEF Holders, McpTypeOK
    <3>2. \A a \in Acts : r \notin Holders(a) /\ IsFiniteSet(Holders(a))
      BY FS_Subset DEF Holders
    <3>3. \A a \in Acts : Cardinality(Holders(a) \cup {r}) = Cardinality(Holders(a)) + 1
      BY <3>2, FS_AddElement
    <3> QED BY <3>1, <3>3 DEF Counted, McpTypeOK
  <2>4. InUse'
    BY DEF InUse, Fresh, McpTypeOK, Holders
  <2>5. ReadyIsBound'
    BY DEF ReadyIsBound, McpTypeOK, Fresh
  <2>6. Flow'
    BY DEF Flow, McpTypeOK, SessionOf
  <2> QED BY <2>1, <2>2, <2>3, <2>4, <2>5, <2>6
<1>11. ASSUME NEW r \in McpRuns, Recalled(r) PROVE IInv'
  <2> USE <1>11 DEF Recalled, config, binding, runs, traffic
  <2>1. McpTypeOK'
    BY DEF McpTypeOK, SessionOf
  <2>0. \A b \in Acts : Holders(b)' = Holders(b)
    BY DEF Holders
  <2>2. Fresh'
    BY <2>0 DEF Fresh, McpTypeOK
  <2>3. Counted'
    BY <2>0 DEF Counted
  <2>4. InUse'
    BY <2>0 DEF InUse, Fresh, McpTypeOK
  <2>5. ReadyIsBound'
    BY DEF ReadyIsBound, McpTypeOK, Fresh
  <2>6. Flow'
    BY DEF Flow, McpTypeOK, SessionOf
  <2> QED BY <2>1, <2>2, <2>3, <2>4, <2>5, <2>6
<1>12. ASSUME NEW r \in McpRuns, End(r) PROVE IInv'
  <2> USE <1>12 DEF End, Release, Hangup, config, binding, runs, traffic
  <2>1. McpTypeOK'
    BY <1>0 DEF McpTypeOK, SessionOf, Holders
  <2>2. Fresh'
    BY DEF Fresh, McpTypeOK, Holders
  <2>7. \A a \in Acts : Holders(a)' = IF a = captured[r] THEN Holders(a) \ {r} ELSE Holders(a)
    BY DEF Holders, McpTypeOK
  <2>8. \A a \in Acts : IsFiniteSet(Holders(a))
    BY FS_Subset DEF Holders
  <2>9. ASSUME captured[r] = None PROVE Counted' /\ InUse'
    <3>1. \A a \in Acts : Holders(a)' = Holders(a)
      BY <2>7, <2>9
    <3>2. UNCHANGED <<refs, session, retired, current, shut>>
      BY <2>9
    <3> QED BY <3>1, <3>2 DEF Counted, InUse, McpTypeOK
  <2>10. ASSUME captured[r] # None PROVE Counted' /\ InUse'
    <3> DEFINE a == captured[r]
    <3>1. a \in Acts /\ r \in Holders(a)
      BY <2>10 DEF McpTypeOK, Holders
    <3>2. Cardinality(Holders(a) \ {r}) = refs[a] - 1
      BY <2>8, <3>1, FS_RemoveElement DEF Counted
    <3>3. refs' = [refs EXCEPT ![a] = refs[a] - 1]
      BY <2>10
    <3>4. Counted'
      BY <2>7, <3>1, <3>2, <3>3 DEF Counted, McpTypeOK
    <3>5. refs[a] = 1 <=> Holders(a) \ {r} = {}
      <4>1. IsFiniteSet(Holders(a) \ {r})
        BY <2>8, <3>1, FS_RemoveElement
      <4> HIDE DEF a
      <4>2. refs[a] \in Nat
        BY <3>1 DEF McpTypeOK
      <4> QED BY <3>2, <4>1, <4>2, FS_EmptySet
    <3>6. /\ session' = IF a \in retired /\ refs[a] = 1
                        THEN [session EXCEPT ![a] = "closed"] ELSE session
          /\ UNCHANGED <<retired, current, shut>>
      BY <2>10
    <3>7. InUse'
      BY <2>7, <3>1, <3>5, <3>6 DEF InUse, McpTypeOK
    <3> QED BY <3>4, <3>7
  <2>3. Counted'
    BY <2>9, <2>10
  <2>4. InUse'
    BY <2>9, <2>10
  <2>5. ReadyIsBound'
    BY DEF ReadyIsBound, McpTypeOK, Fresh
  <2>6. Flow'
    BY DEF Flow, McpTypeOK, SessionOf
  <2> QED BY <2>1, <2>2, <2>3, <2>4, <2>5, <2>6
<1>13. ASSUME NEW c \in McpCalls, Ask(c) PROVE IInv'
  <2> USE <1>13 DEF Ask, Known, config, binding, runs, traffic
  <2>1. McpTypeOK'
    BY DEF McpTypeOK, SessionOf
  <2>0. \A b \in Acts : Holders(b)' = Holders(b)
    BY DEF Holders
  <2>2. Fresh'
    BY <2>0 DEF Fresh, McpTypeOK
  <2>3. Counted'
    BY <2>0 DEF Counted
  <2>4. InUse'
    BY <2>0 DEF InUse, Fresh, McpTypeOK
  <2>5. ReadyIsBound'
    BY DEF ReadyIsBound, McpTypeOK, Fresh
  <2>6. Flow'
    BY DEF Flow, McpTypeOK, SessionOf
  <2> QED BY <2>1, <2>2, <2>3, <2>4, <2>5, <2>6
<1>14. ASSUME NEW c \in McpCalls, Serve(c) PROVE IInv'
  <2> USE <1>14 DEF Serve, config, binding, runs, traffic
  <2>1. McpTypeOK'
    BY DEF McpTypeOK, SessionOf
  <2>0. \A b \in Acts : Holders(b)' = Holders(b)
    BY DEF Holders
  <2>2. Fresh'
    BY <2>0 DEF Fresh, McpTypeOK
  <2>3. Counted'
    BY <2>0 DEF Counted
  <2>4. InUse'
    BY <2>0 DEF InUse, Fresh, McpTypeOK
  <2>5. ReadyIsBound'
    BY DEF ReadyIsBound, McpTypeOK, Fresh
  <2>6. Flow'
    BY DEF Flow, McpTypeOK, SessionOf
  <2> QED BY <2>1, <2>2, <2>3, <2>4, <2>5, <2>6
<1>15. ASSUME NEW c \in McpCalls, Read(c) PROVE IInv'
  <2> USE <1>15 DEF Read, Broken, Hangup, Unmatched, PendingOn, config, binding, runs, traffic
  <2>1. McpTypeOK'
    BY DEF McpTypeOK, SessionOf
  <2>7. call[c] = "pending"
    BY DEF Flow
  <2>8. SessionOf(c) \in Acts /\ Holders(SessionOf(c)) # {}
    BY <2>7 DEF Flow, Holders, SessionOf
  <2>0. \A b \in Acts : Holders(b)' = Holders(b)
    BY DEF Holders
  <2>2. Fresh'
    BY <2>0 DEF Fresh, McpTypeOK
  <2>3. Counted'
    BY <2>0 DEF Counted
  <2>4. InUse'
    BY <2>0, <2>7, <2>8 DEF InUse, Fresh, McpTypeOK
  <2>5. ReadyIsBound'
    BY DEF ReadyIsBound, McpTypeOK, Fresh
  <2>6. Flow'
    BY DEF Flow, McpTypeOK, SessionOf
  <2> QED BY <2>1, <2>2, <2>3, <2>4, <2>5, <2>6
<1>16. ASSUME NEW c \in McpCalls, Abandon(c) PROVE IInv'
  <2> USE <1>16 DEF Abandon, Broken, Hangup, config, binding, runs, traffic
  <2>1. McpTypeOK'
    BY DEF McpTypeOK, SessionOf
  <2>7. call[c] = "pending"
    BY DEF Flow
  <2>8. SessionOf(c) \in Acts /\ Holders(SessionOf(c)) # {}
    BY <2>7 DEF Flow, Holders, SessionOf
  <2>0. \A b \in Acts : Holders(b)' = Holders(b)
    BY DEF Holders
  <2>2. Fresh'
    BY <2>0 DEF Fresh, McpTypeOK
  <2>3. Counted'
    BY <2>0 DEF Counted
  <2>4. InUse'
    BY <2>0, <2>7, <2>8 DEF InUse, Fresh, McpTypeOK
  <2>5. ReadyIsBound'
    BY DEF ReadyIsBound, McpTypeOK, Fresh
  <2>6. Flow'
    BY DEF Flow, McpTypeOK, SessionOf
  <2> QED BY <2>1, <2>2, <2>3, <2>4, <2>5, <2>6
<1>17. CASE UNCHANGED mcpVars
  BY <1>17 DEF mcpVars, config, binding, runs, traffic, McpTypeOK, Fresh, Counted, InUse, ReadyIsBound, Flow, Holders, SessionOf
<1> QED BY <1>1, <1>2, <1>3, <1>4, <1>5, <1>6, <1>7, <1>8, <1>9, <1>10, <1>11, <1>12, <1>13, <1>14, <1>15, <1>16, <1>17 DEF McpNext

-----------------------------------------------------------------------------
\* The invariant, in every state.
THEOREM Inductive == McpSpec => []IInv
BY InitInv, StepInv, PTL DEF McpSpec

\* A binding in use is never closed under its runs, and a retired one is closed with
\* its last reference: McpRunBindingManager, for any number of activations and runs.
THEOREM BindingsInUse == McpSpec => []InUseIsOpen
<1>1. IInv => InUseIsOpen
  BY DEF IInv, Counted, InUse, InUseIsOpen
<1> QED BY <1>1, Inductive, PTL

\* "ready" always means a session that was opened for the server id and the manifest the
\* settings name, of whatever version and transport: activations that overlap with each
\* other and with changes of the settings.
THEOREM ReadyMeansBound == McpSpec => []ReadyIsBound
<1>1. IInv => ReadyIsBound
  BY DEF IInv
<1> QED BY <1>1, Inductive, PTL

\* No call gets the answer of another one, and none is sent twice: the channel's
\* pending table and McpExecutionLedger.
THEOREM AnswersAreOwn == McpSpec => []CallsAreOwn
<1>1. IInv => CallsAreOwn
  BY DEF IInv, Flow, CallsAreOwn
<1> QED BY <1>1, Inductive, PTL
-----------------------------------------------------------------------------
(***************************************************************************)
(* Consent and processes of tool calls, for every set of runs and calls.   *)
(* ToolCalls is a system of its own next to the MCP path: it has its own   *)
(* constants (the runs and the calls, of whatever tool) and its own state. *)
(*                                                                         *)
(* EffectHasConsent says nothing of the calls on their way to an effect    *)
(* and of the grants they may use, so it is not inductive.  The invariant  *)
(* adds whose consent each grant rests on (GrantsAreEarned), that a call   *)
(* past its check has consent (PassedHasConsent), and that a run has one   *)
(* call under way and none when it is over (OneAtATime): this is why no    *)
(* other call can take the grant of a call that always prompts.            *)
(***************************************************************************)

\* The consent a call needs.
Warranted(c) ==
    \/ KindOf[c] = "read"
    \/ c \in allowed
    \/ KindOf[c] = "ask" /\ \E d \in allowed : RunOf[d] = RunOf[c] /\ KeyOf[d] = KeyOf[c]

\* A run has one call under way, and none once it is over.
OneAtATime ==
    \A c \in Calls : phase[c] \in Active =>
        /\ RunOf[c] \notin over
        /\ \A d \in Calls : RunOf[d] = RunOf[c] /\ phase[d] \in Active => d = c

\* Behind each grant is a call the user allowed; behind that of a kind that always
\* prompts, one that is about to use it.
GrantsAreEarned ==
    \A c \in Calls : KeyOf[c] \in grants[RunOf[c]] =>
        \E d \in allowed :
            /\ RunOf[d] = RunOf[c] /\ KeyOf[d] = KeyOf[c]
            /\ KindOf[c] = "strict" => phase[d] = "starting"

PassedHasConsent ==
    \A c \in Calls :
        /\ phase[c] \in {"resolving", "planning", "running"} => Warranted(c)
        /\ phase[c] = "granting" => c \in allowed

EffectsWarranted == \A c \in ran : Warranted(c)

\* The processes that live and take signals are those of calls that run, and of
\* cancelled runs only those that were told to terminate.
Held ==
    \A c \in Calls :
        /\ process[c] \in Alive => phase[c] = "running"
        /\ process[c] = "running" => RunOf[c] \notin aborted

ConsentInv ==
    /\ TypeOK /\ OneAtATime /\ GrantsAreEarned
    /\ PassedHasConsent /\ EffectsWarranted /\ Held

-----------------------------------------------------------------------------

\* The initial states satisfy the invariant.
LEMMA ConsentFirst == Init => ConsentInv
BY CallsAssumption DEF CallsAssumption, Init, ConsentInv, TypeOK, OneAtATime, GrantsAreEarned, PassedHasConsent,
   EffectsWarranted, Held, Warranted, Active, Alive, Keys

\* Every step preserves the invariant.
LEMMA ConsentStep == ConsentInv /\ [Next]_vars => ConsentInv'
<1> SUFFICES ASSUME ConsentInv, [Next]_vars PROVE ConsentInv'
  OBVIOUS
<1> USE CallsAssumption DEF CallsAssumption, ConsentInv
<1>1. ASSUME NEW c \in Calls, Request(c) PROVE ConsentInv'
  <2> USE <1>1 DEF Request, Go, At, Active, Alive
  <2>1. TypeOK'
    BY DEF TypeOK, Keys
  <2>2. OneAtATime'
    BY DEF TypeOK, OneAtATime
  <2>3. GrantsAreEarned'
    BY DEF TypeOK, OneAtATime, PassedHasConsent, GrantsAreEarned
  <2>4. PassedHasConsent'
    BY DEF TypeOK, PassedHasConsent, GrantsAreEarned, OneAtATime, Warranted
  <2>5. EffectsWarranted'
    BY DEF TypeOK, PassedHasConsent, EffectsWarranted, Warranted
  <2>6. Held'
    BY DEF TypeOK, Held, OneAtATime
  <2> QED BY <2>1, <2>2, <2>3, <2>4, <2>5, <2>6
<1>2. ASSUME NEW c \in Calls, Execute(c) PROVE ConsentInv'
  <2> USE <1>2 DEF Execute, Evaluate, Consume, Go, Fail, At, Active, Alive
  <2>1. TypeOK'
    BY DEF TypeOK, Keys
  <2>2. OneAtATime'
    BY DEF TypeOK, OneAtATime
  <2>3. GrantsAreEarned'
    BY DEF TypeOK, OneAtATime, PassedHasConsent, GrantsAreEarned
  <2>4. PassedHasConsent'
    BY DEF TypeOK, PassedHasConsent, GrantsAreEarned, OneAtATime, Warranted
  <2>5. EffectsWarranted'
    BY DEF TypeOK, PassedHasConsent, EffectsWarranted, Warranted
  <2>6. Held'
    BY DEF TypeOK, Held, OneAtATime
  <2> QED BY <2>1, <2>2, <2>3, <2>4, <2>5, <2>6
<1>3. ASSUME NEW c \in Calls, Handle(c) PROVE ConsentInv'
  <2> USE <1>3 DEF Handle, Go, Fail, Return, At, Active, Alive
  <2>1. TypeOK'
    BY DEF TypeOK, Keys
  <2>2. OneAtATime'
    BY DEF TypeOK, OneAtATime
  <2>3. GrantsAreEarned'
    BY DEF TypeOK, OneAtATime, PassedHasConsent, GrantsAreEarned
  <2>4. PassedHasConsent'
    BY DEF TypeOK, PassedHasConsent, GrantsAreEarned, OneAtATime, Warranted
  <2>5. EffectsWarranted'
    BY DEF TypeOK, PassedHasConsent, EffectsWarranted, Warranted
  <2>6. Held'
    BY DEF TypeOK, Held, OneAtATime
  <2> QED BY <2>1, <2>2, <2>3, <2>4, <2>5, <2>6
<1>4. ASSUME NEW c \in Calls, Cancelled(c) PROVE ConsentInv'
  <2> USE <1>4 DEF Cancelled, Go, Fail, At, Active, Alive
  <2>1. TypeOK'
    BY DEF TypeOK, Keys
  <2>2. OneAtATime'
    BY DEF TypeOK, OneAtATime
  <2>3. GrantsAreEarned'
    BY DEF TypeOK, OneAtATime, PassedHasConsent, GrantsAreEarned
  <2>4. PassedHasConsent'
    BY DEF TypeOK, PassedHasConsent, GrantsAreEarned, OneAtATime, Warranted
  <2>5. EffectsWarranted'
    BY DEF TypeOK, PassedHasConsent, EffectsWarranted, Warranted
  <2>6. Held'
    BY DEF TypeOK, Held, OneAtATime
  <2> QED BY <2>1, <2>2, <2>3, <2>4, <2>5, <2>6
<1>5. ASSUME NEW c \in Calls, Approve(c) PROVE ConsentInv'
  <2> USE <1>5 DEF Approve, Evaluate, Consume, Go, Fail, At, Active, Alive
  <2>1. TypeOK'
    BY DEF TypeOK, Keys
  <2>2. OneAtATime'
    BY DEF TypeOK, OneAtATime
  <2>3. GrantsAreEarned'
    BY DEF TypeOK, OneAtATime, PassedHasConsent, GrantsAreEarned
  <2>4. PassedHasConsent'
    BY DEF TypeOK, PassedHasConsent, GrantsAreEarned, OneAtATime, Warranted
  <2>5. EffectsWarranted'
    BY DEF TypeOK, PassedHasConsent, EffectsWarranted, Warranted
  <2>6. Held'
    BY DEF TypeOK, Held, OneAtATime
  <2> QED BY <2>1, <2>2, <2>3, <2>4, <2>5, <2>6
<1>6. ASSUME NEW c \in Calls, Spawn(c) PROVE ConsentInv'
  <2> USE <1>6 DEF Spawn, Go, Fail, Return, At, Aborted, Active, Alive
  <2>1. TypeOK'
    BY DEF TypeOK, Keys
  <2>2. OneAtATime'
    BY DEF TypeOK, OneAtATime
  <2>3. GrantsAreEarned'
    BY DEF TypeOK, OneAtATime, PassedHasConsent, GrantsAreEarned
  <2>4. PassedHasConsent'
    BY DEF TypeOK, PassedHasConsent, GrantsAreEarned, OneAtATime, Warranted
  <2>5. EffectsWarranted'
    BY DEF TypeOK, PassedHasConsent, EffectsWarranted, Warranted
  <2>6. Held'
    BY DEF TypeOK, Held, OneAtATime
  <2> QED BY <2>1, <2>2, <2>3, <2>4, <2>5, <2>6
<1>7. ASSUME NEW c \in Calls, Terminate(c) PROVE ConsentInv'
  <2> USE <1>7 DEF Terminate, At, Active, Alive
  <2>1. TypeOK'
    BY DEF TypeOK, Keys
  <2>2. OneAtATime'
    BY DEF TypeOK, OneAtATime
  <2>3. GrantsAreEarned'
    BY DEF TypeOK, OneAtATime, PassedHasConsent, GrantsAreEarned
  <2>4. PassedHasConsent'
    BY DEF TypeOK, PassedHasConsent, GrantsAreEarned, OneAtATime, Warranted
  <2>5. EffectsWarranted'
    BY DEF TypeOK, PassedHasConsent, EffectsWarranted, Warranted
  <2>6. Held'
    BY DEF TypeOK, Held, OneAtATime
  <2> QED BY <2>1, <2>2, <2>3, <2>4, <2>5, <2>6
<1>8. ASSUME NEW c \in Calls, Close(c) PROVE ConsentInv'
  <2> USE <1>8 DEF Close, Go, Fail, Return, At, Active, Alive
  <2>1. TypeOK'
    BY DEF TypeOK, Keys
  <2>2. OneAtATime'
    BY DEF TypeOK, OneAtATime
  <2>3. GrantsAreEarned'
    BY DEF TypeOK, OneAtATime, PassedHasConsent, GrantsAreEarned
  <2>4. PassedHasConsent'
    BY DEF TypeOK, PassedHasConsent, GrantsAreEarned, OneAtATime, Warranted
  <2>5. EffectsWarranted'
    BY DEF TypeOK, PassedHasConsent, EffectsWarranted, Warranted
  <2>6. Held'
    BY DEF TypeOK, Held, OneAtATime
  <2> QED BY <2>1, <2>2, <2>3, <2>4, <2>5, <2>6
<1>9. ASSUME NEW c \in Calls, NEW decision, Decide(c, decision) PROVE ConsentInv'
  <2> USE <1>9 DEF Decide, Go, Fail, At, Active, Alive
  <2>1. TypeOK'
    BY DEF TypeOK, Keys
  <2>2. OneAtATime'
    BY DEF TypeOK, OneAtATime
  <2>3. GrantsAreEarned'
    BY DEF TypeOK, OneAtATime, PassedHasConsent, GrantsAreEarned
  <2>4. PassedHasConsent'
    BY DEF TypeOK, PassedHasConsent, GrantsAreEarned, OneAtATime, Warranted
  <2>5. EffectsWarranted'
    BY DEF TypeOK, PassedHasConsent, EffectsWarranted, Warranted
  <2>6. Held'
    BY DEF TypeOK, Held, OneAtATime
  <2> QED BY <2>1, <2>2, <2>3, <2>4, <2>5, <2>6
<1>10. ASSUME NEW r \in Runs, Abort(r) PROVE ConsentInv'
  <2> USE <1>10 DEF Abort, Active, Alive
  <2>1. TypeOK'
    BY DEF TypeOK, Keys
  <2>2. OneAtATime'
    BY DEF TypeOK, OneAtATime
  <2>3. GrantsAreEarned'
    BY DEF TypeOK, OneAtATime, PassedHasConsent, GrantsAreEarned
  <2>4. PassedHasConsent'
    BY DEF TypeOK, PassedHasConsent, GrantsAreEarned, OneAtATime, Warranted
  <2>5. EffectsWarranted'
    BY DEF TypeOK, PassedHasConsent, EffectsWarranted, Warranted
  <2>6. Held'
    BY DEF TypeOK, Held, OneAtATime
  <2> QED BY <2>1, <2>2, <2>3, <2>4, <2>5, <2>6
<1>11. ASSUME NEW r \in Runs, Finish(r) PROVE ConsentInv'
  <2> USE <1>11 DEF Finish, Active, Alive
  <2>1. TypeOK'
    BY DEF TypeOK, Keys
  <2>2. OneAtATime'
    BY DEF TypeOK, OneAtATime
  <2>3. GrantsAreEarned'
    BY DEF TypeOK, OneAtATime, PassedHasConsent, GrantsAreEarned
  <2>4. PassedHasConsent'
    BY DEF TypeOK, PassedHasConsent, GrantsAreEarned, OneAtATime, Warranted
  <2>5. EffectsWarranted'
    BY DEF TypeOK, PassedHasConsent, EffectsWarranted, Warranted
  <2>6. Held'
    BY DEF TypeOK, Held, OneAtATime
  <2> QED BY <2>1, <2>2, <2>3, <2>4, <2>5, <2>6
<1>12. ASSUME NEW r \in Runs, NEW k \in Keys, Lapse(r, k) PROVE ConsentInv'
  <2> USE <1>12 DEF Lapse, Active, Alive
  <2>1. TypeOK'
    BY DEF TypeOK, Keys
  <2>2. OneAtATime'
    BY DEF TypeOK, OneAtATime
  <2>3. GrantsAreEarned'
    BY DEF TypeOK, OneAtATime, PassedHasConsent, GrantsAreEarned
  <2>4. PassedHasConsent'
    BY DEF TypeOK, PassedHasConsent, GrantsAreEarned, OneAtATime, Warranted
  <2>5. EffectsWarranted'
    BY DEF TypeOK, PassedHasConsent, EffectsWarranted, Warranted
  <2>6. Held'
    BY DEF TypeOK, Held, OneAtATime
  <2> QED BY <2>1, <2>2, <2>3, <2>4, <2>5, <2>6
<1>13. ASSUME NEW c \in Calls, Escape(c) PROVE ConsentInv'
  <2> USE <1>13 DEF Escape, Go, Fail, Return, At, Active, Alive
  <2>1. TypeOK'
    BY DEF TypeOK, Keys
  <2>2. OneAtATime'
    BY DEF TypeOK, OneAtATime
  <2>3. GrantsAreEarned'
    BY DEF TypeOK, OneAtATime, PassedHasConsent, GrantsAreEarned
  <2>4. PassedHasConsent'
    BY DEF TypeOK, PassedHasConsent, GrantsAreEarned, OneAtATime, Warranted
  <2>5. EffectsWarranted'
    BY DEF TypeOK, PassedHasConsent, EffectsWarranted, Warranted
  <2>6. Held'
    BY DEF TypeOK, Held, OneAtATime
  <2> QED BY <2>1, <2>2, <2>3, <2>4, <2>5, <2>6
<1>14. CASE UNCHANGED vars
  BY <1>14 DEF vars, TypeOK, OneAtATime, GrantsAreEarned, PassedHasConsent, EffectsWarranted, Held, Warranted
<1> QED BY <1>1, <1>2, <1>3, <1>4, <1>5, <1>6, <1>7, <1>8, <1>9, <1>10, <1>11, <1>12, <1>13, <1>14 DEF Next, Step

\* The invariant, in every state.
THEOREM ConsentInductive == Spec => []ConsentInv
<1>1. Init => ConsentInv
  BY ConsentFirst
<1>2. ConsentInv /\ [Next]_vars => ConsentInv'
  BY ConsentStep
<1> QED BY <1>1, <1>2, PTL DEF Spec

\* What takes effect has the user's consent, for every set of runs, calls and keys:
\* executeToolCall, ToolExecutor.execute and the grants of SessionApprovalCache.
THEOREM Consent == Spec => []EffectHasConsent
<1>1. ConsentInv => EffectHasConsent
  BY DEF ConsentInv, EffectsWarranted, Warranted, EffectHasConsent
<1> QED BY <1>1, ConsentInductive, PTL

\* No host process outlives its call, but for one that cannot be signalled, and none
\* starts in a cancelled run: HostRestrictedProcessRunner.run under executeToolCall.
THEOREM ProcessesHeld == Spec => []ProcessesAreHeld
<1>1. ConsentInv => ProcessesAreHeld
  BY DEF ConsentInv, Held, OneAtATime, ProcessesAreHeld, At, Active, Alive, TypeOK
<1> QED BY <1>1, ConsentInductive, PTL
=============================================================================
