--------------------------- MODULE MemoryRuntime ---------------------------
(***************************************************************************)
(* TencentMemoryRuntimeSupervisor, the supervisor of the memory sidecar    *)
(* (apps/daemon/src/tencent-memory-runtime-supervisor.ts), and the         *)
(* settings manager that drives it (agent-memory-settings.ts).             *)
(*                                                                         *)
(* An update builds a revision, launches it beside the running sidecar,    *)
(* checks it, writes the pointers that name it, and only then makes it the *)
(* sidecar in use.  Updates, rollbacks and probes share one queue; start() *)
(* and close() do not go through it.  Both run here as tasks whose awaits  *)
(* are steps, so that they interleave, fail and are cut off by a crash.    *)
(***************************************************************************)
EXTENDS Integers, FiniteSets

CONSTANTS
    Revisions,    \* the commits upstream may name, in the order of their names
    MaxRetained,  \* maxRetainedRevisions
    MaxOps,       \* bound: operations put on the queue
    MaxPatches,   \* bound: settings changes
    MaxFaults     \* bound: pointer writes that fail, and crashes of the daemon

ASSUME RuntimeAssumption ==
    /\ Revisions \subseteq Nat \ {0}
    /\ IsFiniteSet(Revisions)
    /\ MaxRetained \in Nat \ {0, 1}
    /\ MaxOps \in Nat /\ MaxPatches \in Nat /\ MaxFaults \in Nat

VARIABLES
    setting,    \* "on", "off" (disabled, mode memory-core) or "none" (mode off)
    mem,        \* state.current, state.previous and stateLoaded
    disk,       \* pointers.json, current.json and previous.json
    installed,  \* the revision directories
    side,       \* this.sidecar
    procs,      \* the sidecar processes this daemon started that still run
    task,       \* the operation of the queue, and the call of start() or close()
    closed,     \* this.closed
    proven,     \* history: the revisions whose sidecar passed health and smoke
    overlapped,   \* history: start() or close() ran while an operation of the queue did
    spent       \* how much of each bound is used

vars == <<setting, mem, disk, installed, side, procs, task, closed, proven, overlapped, spent>>

None == 0
Pointers == [cur : Revisions \cup {None}, prev : Revisions \cup {None}]
NoPointers == [cur |-> None, prev |-> None]
NoSide == [rev |-> None, pid |-> 0]
Slots == {"queue", "start"}
IdleTask == [kind |-> "idle", at |-> "idle", rev |-> None, side |-> NoSide, old |-> NoSide,
             doc |-> NoPointers, file |-> 1]

-----------------------------------------------------------------------------
(* Helpers *)

Busy(t) == task[t].kind # "idle"
OfMem == [cur |-> mem.cur, prev |-> mem.prev]

\* loadState(): what a pointer is null for in pointers.json is read from its mirror.
Effective == [cur |-> IF disk.all.cur # None THEN disk.all.cur ELSE disk.cur,
              prev |-> IF disk.all.prev # None THEN disk.all.prev ELSE disk.prev]

\* ensureLoaded()
Loaded == IF mem.loaded THEN mem
          ELSE [loaded |-> TRUE, cur |-> Effective.cur, prev |-> Effective.prev]

Goto(t, place) == task' = [task EXCEPT ![t].at = place]
End(t) == task' = [task EXCEPT ![t] = IdleTask]

\* A call of persistState() or persistPointers() takes its arguments now and writes them later.
Save(t, place, pointers) ==
    task' = [task EXCEPT ![t].at = place, ![t].doc = pointers, ![t].file = 1]

\* The n-th file that persistPointers() writes.
Put(n, pointers) ==
    [all |-> IF n = 1 THEN pointers ELSE disk.all,
     cur |-> IF n = 2 THEN pointers.cur ELSE disk.cur,
     prev |-> IF n = 3 THEN pointers.prev ELSE disk.prev]

\* Where a task goes when its writes are done, and when one of them fails.
AfterWrites(t) ==
    CASE task[t].at = "mark" -> IF task[t].kind = "update" THEN "resolve" ELSE "launch"
      [] task[t].at = "point" -> "recheck"
      [] task[t].at = "undo" -> "fail"
      [] task[t].at = "save" -> IF task[t].kind = "update" THEN "prune" ELSE "end"
      [] task[t].at = "failsave" -> "end"
AfterError(t) ==
    CASE task[t].at = "point" -> "undo"
      [] task[t].at \in {"mark", "undo"} -> "fail"
      [] task[t].at = "save" -> IF task[t].kind \in {"update", "rollback", "skip"} THEN "fail" ELSE "end"
      [] task[t].at = "failsave" -> "end"

Pids == {s.pid : s \in procs \cup {side} \cup {task[t].side : t \in Slots} \cup {task[t].old : t \in Slots}}
Spawned(r) == [rev |-> r, pid |-> CHOOSE n \in 1 .. Cardinality(Pids) + 1 : n \notin Pids]

\* health() and smoke() may fail for any sidecar and succeed only for one that runs whole.
Answers(s) == s \in procs /\ installed[s.rev] = "whole"

Protected == {mem.cur, mem.prev} \ {None}
\* pruneRevisions(): beyond maxRetainedRevisions, the first by name that no pointer protects.
Doomed ==
    LET loose == {r \in Revisions : installed[r] # "absent"} \ Protected
        excess == Cardinality(loose) - (MaxRetained - Cardinality(Protected))
    IN  {r \in loose : Cardinality({s \in loose : s < r}) < excess}

-----------------------------------------------------------------------------
Init ==
    /\ setting \in {"on", "none"}
    /\ mem = [loaded |-> FALSE, cur |-> None, prev |-> None]
    /\ disk = [all |-> NoPointers, cur |-> None, prev |-> None]
    /\ installed = [r \in Revisions |-> "absent"]
    /\ side = NoSide
    /\ procs = {}
    /\ task = [t \in Slots |-> IF t = "start" THEN [IdleTask EXCEPT !.kind = "boot", !.at = "boot"] ELSE IdleTask]
    /\ closed = FALSE
    /\ proven = {}
    /\ overlapped = FALSE
    /\ spent = [ops |-> 0, patches |-> 0, faults |-> 0]

-----------------------------------------------------------------------------
(* start() and close() *)

\* start() with the settings `to`: launch the current revision, or stop the sidecar.
Started(kind, to) ==
    /\ mem' = IF to = "on" THEN Loaded ELSE mem
    /\ task' = [task EXCEPT !["start"] =
                  IF to = "on" /\ mem'.cur # None
                  THEN [IdleTask EXCEPT !.kind = kind, !.at = "launch", !.rev = mem'.cur]
                  ELSE IF to = "on"
                  THEN [IdleTask EXCEPT !.kind = kind, !.at = "save", !.doc = [cur |-> mem'.cur, prev |-> mem'.prev]]
                  ELSE IF to = "off" /\ mem.loaded
                  THEN [IdleTask EXCEPT !.kind = kind, !.at = "unserve"]
                  ELSE IdleTask]

\* main() starts the runtime before the server listens.
Boot ==
    /\ task["start"].at = "boot"
    /\ Started("boot", IF setting = "on" THEN "on" ELSE "none")
    /\ UNCHANGED <<setting, disk, installed, side, procs, closed, proven, overlapped, spent>>

\* patch() of the settings manager: start() is called only for mode memory-core.  Here a
\* patch and close() wait for a start() that is under way.  The code has no such wait
\* (agent-memory-settings.ts:184, tencent-memory-runtime-supervisor.ts:341): the overlap
\* of two start(), or of start() and close(), is left out.
Patch(to) ==
    /\ spent.patches < MaxPatches
    /\ ~Busy("start") /\ ~closed
    /\ setting' = to
    /\ spent' = [spent EXCEPT !.patches = @ + 1]
    /\ Started("start", to)
    /\ overlapped' = (overlapped \/ (Busy("queue") /\ to # "none"))
    /\ UNCHANGED <<disk, installed, side, procs, closed, proven>>

\* stopSidecar(), then persistState()
Unserve(t) ==
    /\ task[t].at = "unserve"
    /\ side' = NoSide
    /\ procs' = procs \ {side}
    /\ IF mem.loaded THEN Save(t, "save", OfMem) ELSE End(t)
    /\ UNCHANGED <<setting, mem, disk, installed, closed, proven, overlapped, spent>>

\* close(), when the server has closed
Close ==
    /\ ~Busy("start") /\ ~closed
    /\ closed' = TRUE
    /\ task' = [task EXCEPT !["start"] = [IdleTask EXCEPT !.kind = "close", !.at = "unserve"]]
    /\ overlapped' = (overlapped \/ Busy("queue"))
    /\ UNCHANGED <<setting, mem, disk, installed, side, procs, proven, spent>>

-----------------------------------------------------------------------------
(* Operations of the queue *)

Begin(kind) ==
    /\ spent.ops < MaxOps
    /\ ~Busy("queue") /\ task["start"].kind # "boot" /\ ~closed /\ setting = "on"
    /\ mem' = Loaded
    /\ kind = "rollback" => mem'.prev # None
    /\ spent' = [spent EXCEPT !.ops = @ + 1]
    /\ task' = [task EXCEPT !["queue"] =
                  [IdleTask EXCEPT !.kind = kind,
                                   !.at = IF kind = "probe" THEN "save" ELSE "mark",
                                   !.rev = IF kind = "rollback" THEN mem'.prev ELSE None,
                                   !.doc = [cur |-> mem'.cur, prev |-> mem'.prev]]]
    /\ overlapped' = (overlapped \/ Busy("start"))
    /\ UNCHANGED <<setting, disk, installed, side, procs, closed, proven>>

\* resolveRevision(): the running revision is probed, another one is built.
Resolve ==
    /\ task["queue"].at = "resolve"
    /\ \/ Goto("queue", "fail")
       \/ \E r \in Revisions :
            IF r = mem.cur /\ side # NoSide
            THEN /\ Answers(side)
                 /\ task' = [task EXCEPT !["queue"] = [IdleTask EXCEPT !.kind = "skip", !.at = "save", !.doc = OfMem]]
            ELSE task' = [task EXCEPT !["queue"].at = "build", !["queue"].rev = r]
    /\ UNCHANGED <<setting, mem, disk, installed, side, procs, closed, proven, overlapped, spent>>

\* buildCandidate(), and the rename that installs what was built unless it is there already
Build ==
    /\ task["queue"].at = "build"
    /\ \/ /\ Goto("queue", "fail")
          /\ UNCHANGED installed
       \/ /\ Goto("queue", "launch")
          /\ installed' = [installed EXCEPT ![task["queue"].rev] = IF @ = "absent" THEN "whole" ELSE @]
    /\ UNCHANGED <<setting, mem, disk, side, procs, closed, proven, overlapped, spent>>

\* loadRevision() and launch(): start() hands the new process to this.sidecar at once.
Launch(t) ==
    /\ task[t].at = "launch"
    /\ \/ /\ installed[task[t].rev] # "absent"
          /\ LET new == Spawned(task[t].rev) IN
             /\ procs' = procs \cup {new}
             /\ task' = [task EXCEPT ![t].at = "check", ![t].side = new]
             /\ side' = IF t = "start" THEN new ELSE side
       \/ /\ Goto(t, IF t = "start" THEN "unserve" ELSE "fail")
          /\ UNCHANGED <<procs, side>>
    /\ UNCHANGED <<setting, mem, disk, installed, closed, proven, overlapped, spent>>

\* checkHealthy() and checkSmoke(): start() asks whatever this.sidecar is by now.
StartChecked ==
    /\ task["start"].at = "check"
    /\ \/ /\ Answers(side)
          /\ Save("start", "save", OfMem)
       \/ Goto("start", "unserve")
    /\ UNCHANGED <<setting, mem, disk, installed, side, procs, closed, proven, overlapped, spent>>

CheckedNothing ==
    /\ task["queue"].at = "check"
    /\ task' = [task EXCEPT !["queue"].at = "point", !["queue"].old = side, !["queue"].file = 1,
                            !["queue"].doc = [cur |-> task["queue"].rev, prev |-> mem.cur]]
    /\ UNCHANGED <<setting, mem, disk, installed, side, procs, closed, proven, overlapped, spent>>

\* An operation checks its candidate, and switchTo() begins to write the pointers that name it.
Checked ==
    /\ task["queue"].at = "check"
    /\ \/ /\ Answers(task["queue"].side)
          /\ proven' = proven \cup {task["queue"].rev}
          /\ task' = [task EXCEPT !["queue"].at = "point", !["queue"].old = side, !["queue"].file = 1,
                                  !["queue"].doc = [cur |-> task["queue"].rev, prev |-> mem.cur]]
       \/ /\ Goto("queue", "fail")
          /\ UNCHANGED proven
    /\ UNCHANGED <<setting, mem, disk, installed, side, procs, closed, overlapped, spent>>

\* switchTo(): a last health check, then the candidate is current, or the pointers are put back.
Recheck ==
    /\ task["queue"].at = "recheck"
    /\ \/ /\ Answers(task["queue"].side)
          /\ mem' = [mem EXCEPT !.cur = task["queue"].doc.cur, !.prev = task["queue"].doc.prev]
          /\ side' = task["queue"].side
          /\ task' = [task EXCEPT !["queue"].at = "drain", !["queue"].side = NoSide]
       \/ /\ Save("queue", "undo", [cur |-> task["queue"].doc.prev, prev |-> mem.prev])
          /\ UNCHANGED <<mem, side>>
    /\ UNCHANGED <<setting, disk, installed, procs, closed, proven, overlapped, spent>>

\* switchTo() stops the sidecar it replaced.
Drain ==
    /\ task["queue"].at = "drain"
    /\ procs' = procs \ {task["queue"].old}
    /\ Save("queue", "save", OfMem)
    /\ UNCHANGED <<setting, mem, disk, installed, side, closed, proven, overlapped, spent>>

FailUnsaved ==
    /\ task["queue"].at = "fail"
    /\ procs' = procs \ {task["queue"].side}
    /\ End("queue")
    /\ UNCHANGED <<setting, mem, disk, installed, side, closed, proven, overlapped, spent>>

FailStopsAll ==
    /\ task["queue"].at = "fail"
    /\ procs' = procs \ {task["queue"].side, side}
    /\ Save("queue", "failsave", OfMem)
    /\ UNCHANGED <<setting, mem, disk, installed, side, closed, proven, overlapped, spent>>

\* The catch block stops the candidate and saves the state.
Fail ==
    /\ task["queue"].at = "fail"
    /\ procs' = procs \ {task["queue"].side}
    /\ Save("queue", "failsave", OfMem)
    /\ UNCHANGED <<setting, mem, disk, installed, side, closed, proven, overlapped, spent>>

\* pruneRevisions(): a directory is removed file by file.
Prune ==
    /\ task["queue"].at = "prune"
    /\ IF Doomed = {}
       THEN End("queue") /\ UNCHANGED installed
       ELSE /\ LET r == CHOOSE d \in Doomed : \A e \in Doomed : d <= e IN
               installed' = [installed EXCEPT ![r] = IF @ = "whole" THEN "broken" ELSE "absent"]
            /\ UNCHANGED task
    /\ UNCHANGED <<setting, mem, disk, side, procs, closed, proven, overlapped, spent>>

-----------------------------------------------------------------------------
(* Writes and crashes *)

Writing(t) == task[t].at \in {"mark", "point", "undo", "save", "failsave"}
Continue(t, place) ==
    \/ place = "end" /\ End(t)
    \/ place = "undo" /\ Save(t, "undo", [cur |-> task[t].doc.prev, prev |-> mem.prev])
    \/ place \notin {"end", "undo"} /\ Goto(t, place)

\* writeAtomicJson(), for the next of the three files
Write(t) ==
    /\ Writing(t)
    /\ disk' = Put(task[t].file, task[t].doc)
    /\ IF task[t].file < 3
       THEN task' = [task EXCEPT ![t].file = @ + 1]
       ELSE Continue(t, AfterWrites(t))
    /\ UNCHANGED <<setting, mem, installed, side, procs, closed, proven, overlapped, spent>>

\* The rename fails, and its second try after the removal of the file as well, or not even that.
WriteFails(t) ==
    /\ Writing(t)
    /\ spent.faults < MaxFaults
    /\ spent' = [spent EXCEPT !.faults = @ + 1]
    /\ disk' \in {disk, Put(task[t].file, NoPointers)}
    /\ Continue(t, AfterError(t))
    /\ UNCHANGED <<setting, mem, installed, side, procs, closed, proven, overlapped>>

\* What the dead daemon's sidecars do next is the operating system's business.
Crash ==
    /\ spent.faults < MaxFaults
    /\ spent' = [spent EXCEPT !.faults = @ + 1]
    /\ mem' = [loaded |-> FALSE, cur |-> None, prev |-> None]
    /\ side' = NoSide
    /\ procs' = {}
    /\ task' = [t \in Slots |-> IF t = "start" THEN [IdleTask EXCEPT !.kind = "boot", !.at = "boot"] ELSE IdleTask]
    /\ closed' = FALSE
    /\ UNCHANGED <<setting, disk, installed, proven, overlapped>>

-----------------------------------------------------------------------------
QueueStep == Resolve \/ Build \/ Checked \/ Recheck \/ Drain \/ Fail \/ Prune
             \/ Launch("queue") \/ Write("queue")
StartStep == Boot \/ StartChecked \/ Unserve("start") \/ Launch("start") \/ Write("start")

Next ==
    \/ QueueStep
    \/ StartStep
    \/ \E to \in {"on", "off", "none"} : Patch(to)
    \/ \E kind \in {"update", "rollback", "probe"} : Begin(kind)
    \/ \E t \in Slots : WriteFails(t)
    \/ Close
    \/ Crash

Spec == Init /\ [][Next]_vars

-----------------------------------------------------------------------------
(* Properties *)

Sides == [rev : Revisions \cup {None}, pid : Nat]

\* Every variable has its type, in particular every process its own pid.
TypeOK ==
    /\ setting \in {"on", "off", "none"}
    /\ mem \in [loaded : BOOLEAN, cur : Revisions \cup {None}, prev : Revisions \cup {None}]
    /\ disk \in [all : Pointers, cur : Revisions \cup {None}, prev : Revisions \cup {None}]
    /\ installed \in [Revisions -> {"absent", "whole", "broken"}]
    /\ side \in Sides /\ procs \subseteq Sides
    /\ \A p, q \in procs : p.pid = q.pid => p = q
    /\ \A t \in Slots : task[t].doc \in Pointers /\ task[t].side \in Sides /\ task[t].old \in Sides
    /\ closed \in BOOLEAN /\ overlapped \in BOOLEAN /\ proven \subseteq Revisions

\* What the pointers name is installed whole, in memory and for the next start: a build
\* that fails, a crash in a removal or in the three writes never leaves a pointer to nothing.
PointersWhole ==
    /\ TypeOK
    /\ ~overlapped =>
          \A r \in {mem.cur, mem.prev, Effective.cur, Effective.prev} \ {None} : installed[r] = "whole"

\* No pointer file ever names a revision that did not pass health and smoke.
PointersProven ==
    {mem.cur, mem.prev, disk.all.cur, disk.all.prev, disk.cur, disk.prev} \ {None} \subseteq proven

\* What the pointers name is whole; and at rest, unless start() or close() overlapped an
\* operation, the sidecar in use runs and is of the current revision, and the files say what
\* memory says: a failed switch, or a failed write, is undone completely. (Of the files this
\* holds after one fault: a second one may hit the write that undoes the first.)
QuietIsConsistent ==
    /\ PointersWhole
    /\ (\A t \in Slots : ~Busy(t)) /\ mem.loaded /\ ~overlapped =>
          /\ side # NoSide => side.rev = mem.cur /\ side \in procs
          /\ spent.faults <= 1 => Effective = OfMem

\* No step of an update or a rollback takes the running sidecar out of service: a candidate
\* that fails costs nothing, and the replaced sidecar stops after its successor is in use.
ServiceSurvivesUpdate ==
    [][QueueStep /\ side \in procs => side' \in procs']_vars

=============================================================================
