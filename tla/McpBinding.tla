----------------------------- MODULE McpBinding -----------------------------
(***************************************************************************)
(* The MCP path of the daemon: McpSettingsManager (mcp-settings.ts),       *)
(* McpLiveActivationService (mcp-live-activation.ts), McpRunBindingManager *)
(* (mcp-runtime-binding.ts), and the protocol session, stdio channel and   *)
(* ledger of packages/skill-mcp that a run's calls go through.             *)
(*                                                                         *)
(* An activation opens a session with the server the settings name at that *)
(* moment, and binds it for later runs.  Nothing serialises activations,   *)
(* and the settings may change while one is opening.  A run captures the   *)
(* binding of the moment it starts and keeps it until it ends; a binding   *)
(* that is replaced is retired, and closed with its last reference.        *)
(*                                                                         *)
(* A session is named by the activation that opens it.  The runs that      *)
(* captured one binding share its session, hence its channel: the answers  *)
(* are matched to the calls by id, and one failed request closes it.       *)
(***************************************************************************)
EXTENDS Integers, FiniteSets

CONSTANTS
    Acts,       \* activations
    McpRuns,
    McpCalls,   \* tool calls, by run, turn and call id
    McpRunOf,   \* the run of each call
    Revisions,  \* identities of a server: id, version, manifest, transport
    ServerOf,   \* the id and manifest of each: all a probe's result names
    MaxPatches, \* bound: changes of the settings
    None

ASSUME McpAssumption ==
    /\ None \notin Acts \cup McpRuns \cup McpCalls
    /\ IsFiniteSet(McpRuns)
    /\ McpRunOf \in [McpCalls -> McpRuns]
    /\ MaxPatches \in Nat

VARIABLES
    settings, \* McpSettings: whether MCP is enabled, and for which server
    status,   \* McpSettingsManager.state
    patches,  \* changes of the settings so far
    session,  \* McpProtocolSession.state of each activation
    snap,     \* the settings each activation began with
    current,  \* binding
    retired,  \* ActiveBinding.retired
    refs,     \* ActiveBinding.references
    shut,     \* McpRunBindingManager.closed
    run,      \* what RunManager made of each run
    captured, \* the binding the runtime of each run holds
    call,     \* what became of each call
    asked,    \* how often its run asked for it
    sent,     \* how often it was written to the server
    held,     \* the calls the server works on
    wire,     \* its answers that are not read yet
    dead      \* the sessions whose server has exited

config == <<settings, status, patches>>
binding == <<session, snap, current, retired, refs, shut>>
runs == <<run, captured>>
traffic == <<call, asked, sent, held, wire, dead>>
mcpVars == <<config, binding, runs, traffic>>

McpInit ==
    /\ settings \in [enabled : BOOLEAN, revision : Revisions]
    /\ status = IF settings.enabled THEN "degraded" ELSE "disabled"
    /\ patches = 0
    /\ session = [a \in Acts |-> "new"]
    /\ snap = [a \in Acts |-> None]
    /\ current = None /\ retired = {}
    /\ refs = [a \in Acts |-> 0]
    /\ shut = FALSE
    /\ run = [r \in McpRuns |-> "idle"]
    /\ captured = [r \in McpRuns |-> None]
    /\ call = [c \in McpCalls |-> "idle"]
    /\ asked = [c \in McpCalls |-> 0]
    /\ sent = [c \in McpCalls |-> 0]
    /\ held = {} /\ wire = {} /\ dead = {}

-----------------------------------------------------------------------------
(* Settings *)

\* patch: what is bound stays bound.
Patch(enabled, revision) ==
    /\ patches < MaxPatches
    /\ patches' = patches + 1
    /\ settings' = [enabled |-> enabled, revision |-> revision]
    /\ status' = IF ~enabled THEN "disabled"
                 ELSE IF revision # settings.revision \/ ~settings.enabled THEN "degraded"
                 ELSE status
    /\ UNCHANGED <<binding, runs, traffic>>

\* probe: the daemon gives the manager no probe port.
Probe ==
    /\ settings.enabled
    /\ status' = "degraded"
    /\ UNCHANGED <<settings, patches, binding, runs, traffic>>

\* A mutant of Recorded: the result of any server will do.
RecordedAnyway(revision) == IF ~settings.enabled THEN status ELSE "ready"

\* recordProbeResult, of a healthy-verified server: its version and transport are not
\* compared, so a change of theirs while the server was opened goes unnoticed.
Recorded(revision) ==
    IF ~settings.enabled THEN status
    ELSE IF ServerOf[revision] # ServerOf[settings.revision] THEN "degraded" ELSE "ready"

-----------------------------------------------------------------------------
(* Sessions *)

SessionOf(c) == captured[McpRunOf[c]]
PendingOn(a) == {c \in McpCalls : call[c] = "pending" /\ SessionOf(c) = a}

\* The channel of each session of S closes: its calls fail, and nothing that
\* the server still sends is read.
Hangup(S) ==
    /\ call' = [c \in McpCalls |-> IF call[c] = "pending" /\ SessionOf(c) \in S
                                THEN "failed" ELSE call[c]]
    /\ held' = {c \in held : SessionOf(c) \notin S}
    /\ wire' = {c \in wire : SessionOf(c) \notin S}
    /\ UNCHANGED <<asked, sent, dead>>

\* McpProtocolSession.request: a request that fails closes its session.
Broken(a) ==
    /\ session' = [session EXCEPT ![a] = "failed"]
    /\ Hangup({a})

-----------------------------------------------------------------------------
(* The binding manager *)

\* activate and deactivate put next in the place of the binding, which is
\* retired, and closed if nothing refers to it; dropped closes besides.
Rebind(next, opened, dropped) ==
    LET previous == {current} \ {None}
        closing == dropped \cup {b \in previous : refs[b] = 0}
    IN /\ current' = next
       /\ retired' = retired \cup previous
       /\ session' = [a \in Acts |-> IF a \in closing THEN "closed"
                                     ELSE IF a \in opened THEN "ready" ELSE session[a]]
       /\ Hangup(closing)
       /\ UNCHANGED <<snap, refs, shut>>

\* A mutant of Release: the first run to end closes a retired binding.
ReleaseFirst(a) ==
    /\ refs' = [refs EXCEPT ![a] = @ - 1]
    /\ IF a \in retired
       THEN session' = [session EXCEPT ![a] = "closed"] /\ Hangup({a})
       ELSE UNCHANGED <<session, traffic>>
    /\ UNCHANGED <<snap, current, retired, shut>>

\* A mutant of Release: only retiring closes.
ReleaseOnly(a) ==
    /\ refs' = [refs EXCEPT ![a] = @ - 1]
    /\ UNCHANGED <<session, traffic, snap, current, retired, shut>>

\* release.
Release(a) ==
    /\ refs' = [refs EXCEPT ![a] = @ - 1]
    /\ IF a \in retired /\ refs[a] = 1
       THEN session' = [session EXCEPT ![a] = "closed"] /\ Hangup({a})
       ELSE UNCHANGED <<session, traffic>>
    /\ UNCHANGED <<snap, current, retired, shut>>

\* close, at the daemon's shutdown: whatever refers to them.
Shutdown ==
    /\ ~shut /\ shut' = TRUE
    /\ LET bindings == retired \cup ({current} \ {None})
       IN /\ session' = [a \in Acts |-> IF a \in bindings THEN "closed" ELSE session[a]]
          /\ Hangup(bindings)
    /\ current' = None
    /\ UNCHANGED <<config, snap, retired, refs, runs>>

-----------------------------------------------------------------------------
(* Activations *)

\* activate, with MCP disabled; and McpLiveActivationService.deactivate.
Deactivate ==
    /\ Rebind(None, {}, {})
    /\ status' = IF settings.enabled THEN "degraded" ELSE status
    /\ UNCHANGED <<settings, patches, runs>>

\* activate: the provider opens a session, with the settings of now.
Activate(a) ==
    /\ session[a] = "new" /\ settings.enabled
    /\ session' = [session EXCEPT ![a] = "initializing"]
    /\ snap' = [snap EXCEPT ![a] = settings]
    /\ UNCHANGED <<config, current, retired, refs, shut, runs, traffic>>

\* The candidate comes, and is bound if the settings still name the server it was
\* opened with.  Otherwise the binding it replaced is gone all the same.
Bound(a) ==
    /\ session[a] = "initializing" /\ ~shut
    /\ status' = Recorded(snap[a].revision)
    /\ IF status' = "ready"
       THEN Rebind(a, {a}, {})
       ELSE LET closing == {a} \cup {b \in {current} \ {None} : refs[b] = 0}
            IN /\ current' = None
               /\ retired' = retired \cup ({a, current} \ {None})
               /\ session' = [b \in Acts |-> IF b \in closing THEN "closed" ELSE session[b]]
               /\ Hangup(closing)
               /\ UNCHANGED <<snap, refs, shut>>
    /\ UNCHANGED <<settings, patches, runs>>

\* validateCandidate refuses it: nobody closes its session.
Refused(a) ==
    /\ session[a] = "initializing"
    /\ Rebind(None, {a}, {})
    /\ status' = "degraded"
    /\ UNCHANGED <<settings, patches, runs>>

\* The provider fails or runs out of time, and then is assumed to close the session
\* itself (the repository has no provider); or the manager is closed, takes no
\* candidate, and activate closes it.
OpenFails(a) ==
    /\ session[a] = "initializing"
    /\ Rebind(None, {}, {a})
    /\ status' = "degraded"
    /\ UNCHANGED <<settings, patches, runs>>

-----------------------------------------------------------------------------
(* Runs *)

\* RunManager.start captures the runtimes, before it awaits the recalls.  The
\* capability profile may leave MCP out.
Start(r) ==
    /\ run[r] = "idle"
    /\ run' = [run EXCEPT ![r] = "starting"]
    /\ \E a \in {current, None} :
         /\ captured' = [captured EXCEPT ![r] = a]
         /\ refs' = IF a = None THEN refs ELSE [refs EXCEPT ![a] = @ + 1]
    /\ UNCHANGED <<config, session, snap, current, retired, shut, traffic>>

\* The recalls are done and the loop runs, or a recall throws: then nothing
\* disposes of what the run captured.
Recalled(r) ==
    /\ run[r] = "starting"
    /\ \E s \in {"running", "stuck"} : run' = [run EXCEPT ![r] = s]
    /\ UNCHANGED <<config, binding, captured, traffic>>

\* The run's promise settles, and its runtime is disposed of.
End(r) ==
    /\ run[r] = "running"
    /\ \A c \in McpCalls : McpRunOf[c] = r => call[c] # "pending"
    /\ run' = [run EXCEPT ![r] = "ended"]
    /\ IF captured[r] = None
       THEN UNCHANGED <<binding, traffic>> ELSE Release(captured[r])
    /\ UNCHANGED <<config, captured>>

-----------------------------------------------------------------------------
(* Calls *)

\* McpExecutionLedger: a call it knows gets the result or error it had.
Known(c) == asked[c] > 0

\* McpToolHandler.execute.  A run makes one call at a time; the model may
\* give two calls of one turn the same id.
Ask(c) ==
    /\ run[McpRunOf[c]] = "running" /\ SessionOf(c) # None
    /\ \A d \in McpCalls : McpRunOf[d] = McpRunOf[c] => call[d] # "pending"
    /\ asked[c] < 2
    /\ asked' = [asked EXCEPT ![c] = @ + 1]
    /\ IF Known(c) THEN UNCHANGED <<call, sent, held>>
       ELSE IF session[SessionOf(c)] # "ready"
       THEN call' = [call EXCEPT ![c] = "failed"] /\ UNCHANGED <<sent, held>>
       ELSE /\ call' = [call EXCEPT ![c] = "pending"]
            /\ sent' = [sent EXCEPT ![c] = @ + 1]
            /\ held' = held \cup {c}
    /\ UNCHANGED <<config, binding, runs, wire, dead>>

\* The server answers its calls in any order.
Serve(c) ==
    /\ c \in held /\ SessionOf(c) \notin dead
    /\ held' = held \ {c}
    /\ wire' = wire \cup {c}
    /\ UNCHANGED <<config, binding, runs, call, asked, sent, dead>>

\* consumeLine: the answer of a call that no longer waits.  If one other call
\* is waiting, the channel takes it for that call's.
Unmatched(c) ==
    LET a == SessionOf(c)
    IN IF Cardinality(PendingOn(a)) = 1
       THEN /\ session' = [session EXCEPT ![a] = "failed"]
            /\ call' = [d \in McpCalls |-> IF d \in PendingOn(a) THEN "mismatch" ELSE call[d]]
            /\ held' = {d \in held : SessionOf(d) # a}
            /\ wire' = {d \in wire : SessionOf(d) # a}
       ELSE wire' = wire \ {c} /\ UNCHANGED <<session, call, held>>

\* consumeLine: the answer of a call that waits is a result, or an error,
\* which closes the session for every run.
Read(c) ==
    /\ c \in wire
    /\ IF call[c] = "pending"
       THEN \/ /\ call' = [call EXCEPT ![c] = "answered"]
               /\ wire' = wire \ {c}
               /\ UNCHANGED <<session, asked, sent, held, dead>>
            \/ Broken(SessionOf(c))
       ELSE Unmatched(c) /\ UNCHANGED <<asked, sent, dead>>
    /\ UNCHANGED <<config, snap, current, retired, refs, shut, runs>>

\* A mutant of Abandon: the session stays open.
AbandonOnly(c) ==
    /\ call[c] = "pending"
    /\ call' = [call EXCEPT ![c] = "failed"]
    /\ UNCHANGED <<config, binding, runs, asked, sent, held, wire, dead>>

\* A call runs out of time, or its run is cancelled: it leaves the channel,
\* and its rejection closes the session before the next answer is read.
Abandon(c) ==
    /\ call[c] = "pending"
    /\ Broken(SessionOf(c))
    /\ UNCHANGED <<config, snap, current, retired, refs, shut, runs>>

\* disconnect: the calls that wait fail, and with them the session; with none
\* waiting nobody learns of it.
Disconnect(a) ==
    /\ session[a] = "ready" /\ a \notin dead
    /\ IF PendingOn(a) = {}
       THEN /\ dead' = dead \cup {a}
            /\ wire' = {c \in wire : SessionOf(c) # a}
            /\ held' = {c \in held : SessionOf(c) # a}
            /\ UNCHANGED <<session, call, asked, sent>>
       ELSE Broken(a)
    /\ UNCHANGED <<config, snap, current, retired, refs, shut, runs>>

-----------------------------------------------------------------------------
McpNext ==
    \/ \E enabled \in BOOLEAN, v \in Revisions : Patch(enabled, v)
    \/ Probe \/ Deactivate \/ Shutdown
    \/ \E a \in Acts : Activate(a) \/ Bound(a) \/ Refused(a) \/ OpenFails(a) \/ Disconnect(a)
    \/ \E r \in McpRuns : Start(r) \/ Recalled(r) \/ End(r)
    \/ \E c \in McpCalls : Ask(c) \/ Serve(c) \/ Read(c) \/ Abandon(c)

\* Recalls are bounded by timeouts, calls by withDeadline, a run by its turns.
McpFairness ==
    /\ \A r \in McpRuns : WF_mcpVars(Recalled(r)) /\ WF_mcpVars(End(r))
    /\ \A c \in McpCalls : WF_mcpVars(Abandon(c))

McpSpec == McpInit /\ [][McpNext]_mcpVars /\ McpFairness

-----------------------------------------------------------------------------
(* Properties *)

\* The runs whose runtime holds binding a.
Holders(a) == {r \in McpRuns : captured[r] = a /\ run[r] \in {"starting", "running", "stuck"}}

McpTypeOK ==
    /\ settings \in [enabled : BOOLEAN, revision : Revisions]
    /\ status \in {"disabled", "degraded", "ready"}
    /\ patches \in 0..MaxPatches
    /\ session \in [Acts -> {"new", "initializing", "ready", "failed", "closed"}]
    /\ snap \in [Acts -> [enabled : BOOLEAN, revision : Revisions] \cup {None}]
    /\ current \in Acts \cup {None}
    /\ retired \subseteq Acts /\ dead \subseteq Acts
    /\ refs \in [Acts -> Nat]
    /\ shut \in BOOLEAN
    /\ run \in [McpRuns -> {"idle", "starting", "running", "stuck", "ended"}]
    /\ captured \in [McpRuns -> Acts \cup {None}]
    /\ call \in [McpCalls -> {"idle", "pending", "answered", "failed", "mismatch"}]
    /\ asked \in [McpCalls -> 0..2] /\ sent \in [McpCalls -> Nat]
    /\ held \subseteq McpCalls /\ wire \subseteq McpCalls

\* A binding in use is never closed under its runs, however often the settings
\* and the binding change (ADR 0023): the references are exactly the runs that
\* hold it, the manager closes only what was retired and is held by none, and
\* closes that at once.  Except at shutdown.
InUseIsOpen ==
    /\ McpTypeOK
    /\ \A a \in Acts : refs[a] = Cardinality(Holders(a))
    /\ ~shut => /\ \A a \in Acts : session[a] = "closed" => Holders(a) = {}
                /\ \A a \in retired : Holders(a) = {} => session[a] = "closed"
                /\ current \notin retired

\* When the settings say that MCP is ready, new runs get a session, and one that was
\* opened for the server id and the manifest that the settings name now, whatever
\* activations and patches overlapped ("accepted only for the same server/manifest
\* revision").  It may be of another version or transport, see Recorded.
ReadyIsBound ==
    status = "ready" /\ ~shut =>
        /\ settings.enabled
        /\ current # None /\ ServerOf[snap[current].revision] = ServerOf[settings.revision]

\* Runs share a channel, and still no call is given another one's answer, nor
\* fails because of it; and none is sent twice.
CallsAreOwn ==
    \A c \in McpCalls : call[c] # "mismatch" /\ sent[c] <= 1

\* A retired binding is closed in the end, with its server's process, unless
\* a run that never started holds it.
RetiredCloses ==
    \A a \in Acts : a \in retired ~>
        session[a] = "closed" \/ \E r \in McpRuns : captured[r] = a /\ run[r] = "stuck"
=============================================================================
