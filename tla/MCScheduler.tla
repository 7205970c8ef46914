----------------------------- MODULE MCScheduler -----------------------------
(* Small instance of Scheduler for TLC, with the pump() loop written out. *)
EXTENDS Scheduler, TLC

MCKinds == {"modelCalls", "externalSandboxes"}
MCCapacity == [k \in MCKinds |-> IF k = "modelCalls" THEN 3 ELSE 1]

Ask(r, w, a, p, sandbox) ==
    [run |-> r, workspace |-> w, access |-> a, priority |-> p,
     need |-> [k \in MCKinds |-> IF k = "modelCalls" THEN 1 ELSE sandbox]]

\* Two writers and two readers of one workspace, one of them interactive, and a
\* second workspace whose run also needs the only sandbox.
MCRequests ==
    { Ask("r1", "w1", "write", "background", 1),
      Ask("r2", "w1", "write", "background", 0),
      Ask("r3", "w1", "read", "background", 0),
      Ask("r4", "w1", "read", "interactive", 0),
      Ask("r5", "w2", "write", "background", 1) }

\* The loop of pump(): grant the first entry that fits, start again.
RECURSIVE PumpLoop(_, _)
PumpLoop(q, a) ==
    LET fits == {e \in q : CanGrant(e.req, a)} IN
    IF fits = {} THEN <<q, a>>
    ELSE LET e == CHOOSE x \in fits : \A y \in fits \ {x} : Before(x, y)
         IN  PumpLoop(q \ {e}, a \cup {e})

\* What a step leaves is what pump()'s own loop computes from the queue and the
\* active map the operation hands it: the one-pass grant of Pump loses nothing.
PumpIsTheLoop ==
    [][ granted' # granted =>
          LET arrived == {e \in queue' \cup granted' :
                             e \notin queue \cup granted}
              kept == active \ released'
          IN  <<queue', active'>> = PumpLoop(queue \cup arrived, kept) ]_vars
=============================================================================
