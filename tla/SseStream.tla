----------------------------- MODULE SseStream -----------------------------
(***************************************************************************)
(* Watching one run: handleSse() of apps/daemon/src/server.ts serves the   *)
(* run's events from the ObservableEventStore of run-manager.ts, and       *)
(* streamRunEvents() of packages/client-sdk/src/index.ts reads them over a *)
(* connection it opens again, from its cursor, whenever it breaks.         *)
(*                                                                         *)
(* The handler subscribes, then replays the log, then follows the live     *)
(* events; events are stored, published, replayed and read concurrently.   *)
(* SQLite answers at once, so no network event falls between the handler's *)
(* first steps: only stores and publications do.                           *)
(***************************************************************************)
EXTENDS Integers, Sequences, Functions

CONSTANTS
    MaxReconnects,  \* options.maxReconnects
    MaxEvents,      \* model bound on the events of the run
    MaxRestarts     \* model bound on restarts of the daemon

ASSUME SseAssumption ==
    MaxReconnects \in Nat /\ MaxEvents \in Nat \ {0} /\ MaxRestarts \in Nat

VARIABLES
    events,     \* the run's events by seq: "plain", or "final" (TERMINAL_EVENT_TYPES)
    published,  \* the seq of the last event given to the listeners
    conns,      \* the connections, in the order the client opens them
    client,     \* what streamRunEvents() is doing
    start,      \* options.after
    lastSeq,    \* the client's cursor
    seen,       \* the seqs it has yielded
    restarts

sseVars == <<events, published, conns, client, start, lastSeq, seen, restarts>>

Current == Len(conns)

Closed == \E n \in 1 .. Len(events) : events[n] = "final"

\* handleSse() holds a subscription in these phases.
Listening(k) == k.phase \in {"subscribed", "replaying", "live"}

-----------------------------------------------------------------------------
(* The event store *)

\* What may follow in a log: the run goes on or closes.  It closes once; the audit events
\* of its reviews and its title may come after that.
Following(seq) ==
    IF \A n \in 1 .. Len(seq) : seq[n] # "final" THEN {"plain", "final"} ELSE {"plain"}

\* delegate.append()
Store ==
    /\ Len(events) < MaxEvents
    /\ \E kind \in Following(events) : events' = Append(events, kind)
    /\ UNCHANGED <<published, conns, client, start, lastSeq, seen, restarts>>

\* send(): events at or before sentSeq are dropped; a final one closes the stream.
\* What is written to a connection the client has left goes nowhere.
SendOne(k, n) ==
    IF k.phase = "closed" \/ n <= k.sent THEN k
    ELSE [k EXCEPT !.sent = n, !.wire = IF k.abandoned THEN @ ELSE Append(@, n),
                   !.phase = IF events[n] = "final" THEN "closed" ELSE @]

Send(k, ns) ==
    LET after[n \in 0 .. Len(ns)] == IF n = 0 THEN k ELSE SendOne(after[n - 1], ns[n])
    IN  after[Len(ns)]

OnEventIfReplayed(k, n) == IF k.phase = "live" THEN Send(k, <<n>>) ELSE k

\* onEvent(): sent if the replay is done, else kept for it.
OnEvent(k, n) ==
    IF k.phase = "live" THEN Send(k, <<n>>)
    ELSE IF Listening(k) /\ n > k.sent THEN [k EXCEPT !.pending = Append(@, n)]
    ELSE k

\* publish(): the stored events reach every listener in the order of append().
Publish ==
    /\ published < Len(events)
    /\ published' = published + 1
    /\ conns' = [c \in 1 .. Len(conns) |-> OnEvent(conns[c], published + 1)]
    /\ UNCHANGED <<events, client, start, lastSeq, seen, restarts>>

-----------------------------------------------------------------------------
(* handleSse() *)

OnlyConn(c, k) ==
    /\ conns' = [conns EXCEPT ![c] = k]
    /\ UNCHANGED <<events, published, client, start, lastSeq, seen, restarts>>

\* The request arrives: subscribe, and a snapshot that says if there is a run.
Subscribe(c) ==
    /\ conns[c].phase = "arriving"
    /\ OnlyConn(c, [conns[c] EXCEPT !.phase =
                       IF events = <<>> THEN "refused" ELSE "subscribed"])

\* readEvents() of what follows the cursor.
ReadLog(c) ==
    /\ conns[c].phase = "subscribed"
    /\ OnlyConn(c, [conns[c] EXCEPT
                       !.phase = "replaying",
                       !.replay = [n \in 1 .. Len(events) - conns[c].sent |-> conns[c].sent + n]])

\* pending.sort() by seq; no two events have the same.
InOrder(ns) ==
    CHOOSE s \in [1 .. Len(ns) -> Range(ns)] :
        Range(s) = Range(ns) /\ \A i, j \in 1 .. Len(ns) : i < j => s[i] < s[j]

FlushPendingFirst(c) ==
    /\ conns[c].phase = "replaying"
    /\ LET k == [conns[c] EXCEPT !.phase = "live", !.replay = <<>>, !.pending = <<>>]
       IN  OnlyConn(c, Send(Send(k, InOrder(conns[c].pending)), conns[c].replay))

\* The replay is sent, then what was published meanwhile, then events as they come.
Flush(c) ==
    /\ conns[c].phase = "replaying"
    /\ LET k == [conns[c] EXCEPT !.phase = "live", !.replay = <<>>, !.pending = <<>>]
       IN  OnlyConn(c, Send(Send(k, conns[c].replay), InOrder(conns[c].pending)))

\* The 'close' event of a connection its client has left.
NoticeClose(c) ==
    /\ conns[c].phase = "live"
    /\ conns[c].abandoned
    /\ OnlyConn(c, [conns[c] EXCEPT !.phase = "closed"])

\* The daemon is started again: its connections end, and no listener hears of the
\* events that were stored and not yet published.
Restart ==
    /\ restarts < MaxRestarts
    /\ restarts' = restarts + 1
    /\ published' = Len(events)
    /\ conns' = [c \in 1 .. Len(conns) |-> [conns[c] EXCEPT
                    !.phase = IF @ = "refused" THEN @ ELSE "closed",
                    !.pending = <<>>, !.replay = <<>>]]
    /\ UNCHANGED <<events, client, start, lastSeq, seen>>

-----------------------------------------------------------------------------
(* streamRunEvents() *)

\* A request with the cursor.
Connect ==
    /\ client = "connecting"
    /\ client' = "reading"
    /\ conns' = Append(conns, [phase |-> "arriving", sent |-> lastSeq, replay |-> <<>>,
                               pending |-> <<>>, wire |-> <<>>, abandoned |-> FALSE])
    /\ UNCHANGED <<events, published, start, lastSeq, seen, restarts>>

\* A frame is read: yielded if it is past the cursor, and the stream is over with a
\* final one.
Receive ==
    /\ client = "reading"
    /\ conns[Current].wire # <<>>
    /\ LET n == Head(conns[Current].wire) IN
       /\ conns' = [conns EXCEPT ![Current].wire = Tail(@)]
       /\ IF n > lastSeq
          THEN /\ lastSeq' = n
               /\ seen' = Append(seen, n)
               /\ client' = IF events[n] = "final" THEN "done" ELSE client
          ELSE UNCHANGED <<lastSeq, seen, client>>
    /\ UNCHANGED <<events, published, start, restarts>>

\* A connection that ended or broke is opened again, until maxReconnects.
TryAgain ==
    /\ client' = IF Current > MaxReconnects THEN "exhausted" ELSE "connecting"
    /\ UNCHANGED <<events, published, start, lastSeq, seen, restarts>>

\* The response ended without a final event.
Eof ==
    /\ client = "reading"
    /\ conns[Current].phase = "closed"
    /\ conns[Current].wire = <<>>
    /\ TryAgain
    /\ UNCHANGED conns

\* 404: no such run.
Refused ==
    /\ client = "reading"
    /\ conns[Current].phase = "refused"
    /\ client' = "failed"
    /\ UNCHANGED <<events, published, conns, start, lastSeq, seen, restarts>>

Abandon == conns' = [conns EXCEPT ![Current].abandoned = TRUE, ![Current].wire = <<>>]

\* The network drops the connection, with the frames on their way.
Break ==
    /\ client = "reading"
    /\ Abandon
    /\ TryAgain

\* The caller fires options.signal.
Leave ==
    /\ client \in {"connecting", "reading"}
    /\ client' = "left"
    /\ IF client = "reading" THEN Abandon ELSE UNCHANGED conns
    /\ UNCHANGED <<events, published, start, lastSeq, seen, restarts>>

-----------------------------------------------------------------------------
\* A client takes its cursor from an earlier snapshot of the run.
SseInit ==
    /\ events \in {<<>>, <<"plain">>}
    /\ published = Len(events)
    /\ conns = <<>>
    /\ client = "connecting"
    /\ start \in 0 .. Len(events)
    /\ lastSeq = start
    /\ seen = <<>>
    /\ restarts = 0

Handle(c) == Subscribe(c) \/ ReadLog(c) \/ Flush(c) \/ NoticeClose(c)

SseNext ==
    \/ Store \/ Publish \/ Restart
    \/ \E c \in 1 .. Len(conns) : Handle(c)
    \/ Connect \/ Receive \/ Eof \/ Refused \/ Break \/ Leave

\* The daemon's event loop and the client go on, and the network carries what is
\* sent unless it breaks.
SseFairness ==
    /\ WF_sseVars(Publish)
    /\ WF_sseVars(\E c \in 1 .. Len(conns) : Handle(c))
    /\ WF_sseVars(Connect) /\ WF_sseVars(Receive \/ Eof \/ Refused)

SseSpec == SseInit /\ [][SseNext]_sseVars /\ SseFairness

-----------------------------------------------------------------------------
(* Properties *)

\* Shape of the state.
SseTypeOK ==
    /\ events \in Seq({"plain", "final"}) /\ Len(events) <= MaxEvents
    /\ published \in 0 .. Len(events)
    /\ Len(conns) <= MaxReconnects + 1
    /\ \A c \in 1 .. Len(conns) :
          /\ conns[c].phase \in {"arriving", "subscribed", "replaying", "live", "closed", "refused"}
          /\ Range(conns[c].pending) \subseteq 1 .. published
          /\ Range(conns[c].wire) \subseteq 1 .. Len(events)
    /\ client \in {"connecting", "reading", "done", "failed", "exhausted", "left"}

\* Replay, live events and reconnections add up to the log: the client yields the
\* events after its first cursor, each once, in order and without a gap; and it is
\* told that the run is over only by the event that says so.
NoGapNoRepeat ==
    /\ SseTypeOK
    /\ seen = [n \in 1 .. lastSeq - start |-> start + n]
    /\ lastSeq <= Len(events)
    /\ client = "done" => Closed /\ events[lastSeq] = "final"

\* Whatever is stored reaches a client that keeps watching: again and again (and for
\* good, once nothing more is stored) it has all there is.
CaughtUp == lastSeq = Len(events) \/ client \notin {"connecting", "reading"}
EveryEventArrives == []<>CaughtUp
=============================================================================
